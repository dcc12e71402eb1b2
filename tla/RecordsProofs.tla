----------------------------- MODULE RecordsProofs -----------------------------
(***************************************************************************)
(* The rows around the flights, proved for every value of the constants:   *)
(* live sessions, rules, reports and files, and the simple rows with their *)
(* deletion feed.  Each part has an inductive invariant of its own; the    *)
(* theorems are about LogbookSpec, of which each part is one.              *)
(***************************************************************************)
EXTENDS MCLogbook, FiniteSetTheorems, WellFoundedInduction, TLAPS

-----------------------------------------------------------------------------
(* Live sessions: one flight per session. *)

FlownRow == [session : Nat, date : Int, off : Int, on : Int, total : Int, reg : BOOLEAN]

\* What a tap carries from one of its statements to the next: the instants of a new
\* session, or the row it is going to write back; before it makes a flight it has
\* validated that row.
Holding == [step : {"save", "fly", "close"}, id : Nat, row : Live!Session]
TapOK(r) ==
  /\ r.step \in {"idle", "open"} => r.id = 0
  /\ r.step = "open" => r.at \in 1 .. Live!Latest /\ r.reg \in BOOLEAN
  /\ r.step \notin {"idle", "open"} => r \in Holding /\ r.id \in Live!Ids
  /\ r.step = "save" => r.row.status # "completed"
  /\ r.step = "fly" => r.row.reg /\ r.row.at[1] # 0 /\ r.row.at[4] > r.row.at[1] /\ r.row.at[4] - r.row.at[1] <= MaxDuration
  /\ r.step = "close" => r.row.status = "completed"

LiveTypes ==
  /\ sessions \in Seq(Live!Session) /\ flown \in Seq(FlownRow) /\ Len(flown) <= MaxFlights
  /\ \A k \in 1 .. Len(flown) : flown[k].session \in Live!Ids
  /\ now \in 1 .. LastTime /\ disturbed \subseteq Live!Ids
  /\ DOMAIN tap = Taps /\ \A t \in Taps : TapOK(tap[t])

OpenOnce == \A i, j \in Live!Ids : sessions[i].status = "open" /\ sessions[j].status = "open" => i = j

FlightsOf(i) == {k \in 1 .. Len(flown) : flown[k].session = i}
Shows(i, s) == FlightsOf(i) = {s.flight} /\ Live!Tells(flown[s.flight], s)

\* A session nothing disturbed has one tap at work at most, and only while it is open; its
\* flight exists from the moment a tap wrote it, first in that tap's copy and then in the row.
SessionRight(i) ==
  /\ \A t, u \in Taps : tap[t].id = i /\ tap[u].id = i => t = u
  /\ \A t \in Taps : tap[t].id = i => sessions[i].status = "open"
  /\ \A t \in Taps : tap[t].id = i /\ tap[t].step = "close" => Shows(i, tap[t].row)
  /\ sessions[i].status = "completed" => Shows(i, sessions[i])
  /\ (sessions[i].status # "completed" /\ \A t \in Taps : tap[t].id = i => tap[t].step # "close")
       => FlightsOf(i) = {}

LiveInv == /\ LiveTypes /\ OpenOnce /\ Live!FlightsPlausible
           /\ \A i \in Live!Ids \ disturbed : SessionRight(i)

LEMMA OpenSession ==
  ASSUME LiveTypes, OpenOnce
  PROVE  /\ Live!GetOpenByUserID = 0 => \A i \in Live!Ids : sessions[i].status # "open"
         /\ Live!GetOpenByUserID # 0 => /\ Live!GetOpenByUserID \in Live!Ids
                                        /\ sessions[Live!GetOpenByUserID].status = "open"
         /\ \A i \in Live!Ids : sessions[i].status = "open" => Live!GetOpenByUserID = i
<1>1. CASE \E i \in Live!Ids : sessions[i].status = "open"
  <2>1. Live!GetOpenByUserID = CHOOSE i \in Live!Ids : sessions[i].status = "open"
    BY <1>1 DEF Live!GetOpenByUserID
  <2>2. Live!GetOpenByUserID \in Live!Ids /\ sessions[Live!GetOpenByUserID].status = "open"
    BY <1>1, <2>1
  <2>3. Live!GetOpenByUserID # 0
    BY <2>2 DEF Live!Ids, LiveTypes
  <2> QED BY <2>2, <2>3 DEF OpenOnce
<1>2. CASE ~ \E i \in Live!Ids : sessions[i].status = "open"
  BY <1>2 DEF Live!GetOpenByUserID, Live!Unset
<1> QED BY <1>1, <1>2

\* A tap that only changes what it carries: it may take up the open session, unless another
\* tap works on it and the session counts as disturbed, and it may not forget a flight it made.
LEMMA TapMoves ==
  ASSUME LiveInv, NEW t \in Taps, NEW r, TapOK(r), tap' = [tap EXCEPT ![t] = r],
         UNCHANGED <<sessions, flown>>, disturbed \subseteq disturbed', disturbed' \subseteq Live!Ids,
         now' \in 1 .. LastTime,
         r.id # 0 => /\ sessions[r.id].status = "open" /\ r.step # "close"
                     /\ r.id \notin disturbed' => \A u \in Taps : tap[u].id # r.id,
         tap[t].step = "close" => tap[t].id \in disturbed'
  PROVE  LiveInv'
<1>0. LiveTypes /\ OpenOnce /\ Live!FlightsPlausible /\ \A i \in Live!Ids \ disturbed : SessionRight(i)
  BY DEF LiveInv
<1>1. /\ Live!Ids' = Live!Ids /\ (DOMAIN tap') = Taps /\ tap'[t] = r
      /\ \A u \in Taps : u # t => tap'[u] = tap[u]
  BY <1>0 DEF Live!Ids, LiveTypes
<1>2. \A u \in Taps : TapOK(tap[u])'
  <2>1. \A v : TapOK(v)' = TapOK(v)
    BY <1>1 DEF TapOK
  <2>2. \A u \in Taps : TapOK(tap'[u])
    BY <1>0, <1>1 DEF LiveTypes
  <2> QED BY <2>1, <2>2
<1>3. LiveTypes'
  BY <1>0, <1>1, <1>2 DEF LiveTypes, Live!Session, FlownRow
<1>4. OpenOnce' /\ Live!FlightsPlausible'
  BY <1>0, <1>1 DEF OpenOnce, Live!FlightsPlausible
<1>5. ASSUME NEW i \in Live!Ids \ disturbed'
      PROVE  SessionRight(i)'
  <2>1. SessionRight(i)
    BY <1>0
  <2>2. FlightsOf(i)' = FlightsOf(i) /\ \A s : Shows(i, s)' = Shows(i, s)
    BY DEF FlightsOf, Shows
  <2>3. i # 0
    BY <1>0 DEF Live!Ids, LiveTypes
  <2>4. CASE r.id = i
    <3>1. \A u \in Taps : tap[u].id # i
      BY <2>3, <2>4
    <3>2. \A u \in Taps : tap'[u].id = i => u = t
      BY <1>1, <3>1
    <3>3. sessions'[i].status = "open" /\ r.step # "close"
      BY <2>3, <2>4
    <3>4. FlightsOf(i) = {}
      BY <2>1, <3>1, <3>3 DEF SessionRight
    <3> QED BY <1>1, <2>2, <3>2, <3>3, <3>4 DEF SessionRight
  <2>5. CASE r.id # i
    <3>1. \A u \in Taps : tap'[u].id = i => u # t /\ tap'[u] = tap[u]
      BY <1>1, <2>5
    <3>2. tap[t].id = i => tap[t].step # "close"
      OBVIOUS
    <3>3. (\A u \in Taps : tap'[u].id = i => tap'[u].step # "close")
            => \A u \in Taps : tap[u].id = i => tap[u].step # "close"
      BY <1>1, <3>2
    <3> QED BY <1>1, <2>1, <2>2, <3>1, <3>3 DEF SessionRight
  <2> QED BY <2>4, <2>5
<1> QED BY <1>1, <1>3, <1>4, <1>5 DEF LiveInv

LEMMA WaitingOK ==
  TapOK(Live!Waiting) /\ Live!Waiting.id = 0 /\ Live!Waiting.step = "idle"
BY DEF TapOK, Live!Waiting, Live!Unset

\* A session row is written back, and the tap that wrote it answers.
LEMMA RowWritten ==
  ASSUME LiveInv, NEW t \in Taps, tap[t].step \in {"save", "close"},
         Live!Update(tap[t].id, tap[t].row), Live!Answer(t), UNCHANGED <<flown, now, begun, disturbed>>
  PROVE  LiveInv'
<1> DEFINE h == tap[t].id  s == tap[t].row
<1>0. LiveTypes /\ OpenOnce /\ Live!FlightsPlausible /\ \A i \in Live!Ids \ disturbed : SessionRight(i)
  BY DEF LiveInv
<1>a. h \in Live!Ids /\ h # 0 /\ s \in Live!Session
  BY <1>0 DEF LiveTypes, TapOK, Holding, Live!Ids
<1>b. tap[t].step = "save" => s.status # "completed"
  BY <1>0 DEF LiveTypes, TapOK
<1>c. tap[t].step = "close" => s.status = "completed"
  BY <1>0 DEF LiveTypes, TapOK
<1>u. \/ s.status = "open" /\ Live!GetOpenByUserID \notin {0, h} /\ sessions' = sessions
      \/ ~(s.status = "open" /\ Live!GetOpenByUserID \notin {0, h}) /\ sessions' = [sessions EXCEPT ![h] = s]
  BY DEF Live!Update, Live!Unset
<1>v. /\ (DOMAIN tap') = Taps /\ tap'[t] = Live!Waiting
      /\ \A u \in Taps : u # t => tap'[u] = tap[u]
  BY <1>0 DEF LiveTypes, Live!Answer
<1>o. /\ Live!GetOpenByUserID = 0 => \A i \in Live!Ids : sessions[i].status # "open"
      /\ \A i \in Live!Ids : sessions[i].status = "open" => Live!GetOpenByUserID = i
  BY <1>0, OpenSession
<1> HIDE DEF h, s
<1>1. sessions' \in Seq(Live!Session) /\ Len(sessions') = Len(sessions)
  BY <1>0, <1>a, <1>u DEF LiveTypes, Live!Ids
<1>2. /\ Live!Ids' = Live!Ids
      /\ \A i \in Live!Ids : i # h => sessions'[i] = sessions[i]
      /\ sessions'[h] = s \/ sessions' = sessions
  <2>1. Live!Ids' = Live!Ids
    BY <1>1 DEF Live!Ids
  <2>2. sessions \in Seq(Live!Session)
    BY <1>0 DEF LiveTypes
  <2>3. (DOMAIN sessions) = Live!Ids
    BY <2>2 DEF Live!Ids
  <2>4. sessions' = sessions \/ sessions' = [sessions EXCEPT ![h] = s]
    BY <1>u
  <2> QED BY <1>a, <2>1, <2>3, <2>4
<1>3. \A u \in Taps : TapOK(tap[u])'
  <2>1. \A v : TapOK(v)' = TapOK(v)
    BY <1>2 DEF TapOK
  <2>2. \A u \in Taps : TapOK(tap'[u])
    BY <1>0, <1>v, WaitingOK DEF LiveTypes
  <2> QED BY <2>1, <2>2
<1>4. LiveTypes'
  <2>1. Live!Session' = Live!Session /\ FlownRow' = FlownRow
    BY DEF Live!Session, FlownRow
  <2> QED BY <1>0, <1>1, <1>2, <1>v, <1>3, <2>1 DEF LiveTypes
<1>5. OpenOnce'
  <2> SUFFICES ASSUME NEW i \in Live!Ids, NEW j \in Live!Ids, sessions'[i].status = "open", sessions'[j].status = "open"
               PROVE  i = j
    BY <1>2 DEF OpenOnce
  <2>1. CASE sessions' = sessions
    BY <1>0, <2>1 DEF OpenOnce
  <2>2. CASE sessions' # sessions
    <3>1. sessions'[h] = s /\ (s.status = "open" => Live!GetOpenByUserID \in {0, h})
      BY <1>2, <1>u, <2>2
    <3>2. ASSUME NEW k \in Live!Ids, sessions'[k].status = "open", k # h, s.status = "open" PROVE FALSE
      BY <3>1, <3>2, <1>2, <1>o
    <3> QED BY <3>1, <3>2, <1>0, <1>2 DEF OpenOnce
  <2> QED BY <2>1, <2>2
<1>6. Live!FlightsPlausible'
  BY <1>0 DEF Live!FlightsPlausible
<1>7. ASSUME NEW i \in Live!Ids \ disturbed'
      PROVE  SessionRight(i)'
  <2>1. SessionRight(i)
    BY <1>0
  <2>2. FlightsOf(i)' = FlightsOf(i) /\ \A w : Shows(i, w)' = Shows(i, w)
    BY DEF FlightsOf, Shows
  <2>3. i # 0
    BY <1>0 DEF Live!Ids, LiveTypes
  <2>4. CASE h = i
    <3>1. \A u \in Taps : tap'[u].id # i
      BY <1>v, <2>1, <2>3, <2>4, WaitingOK DEF SessionRight, h
    <3>2. sessions[i].status = "open" /\ Live!GetOpenByUserID = i
      BY <1>o, <2>1, <2>4 DEF SessionRight, h
    <3>3. sessions'[i] = s
      BY <1>u, <1>a, <1>0, <2>4, <3>2 DEF LiveTypes, Live!Ids
    <3>4. CASE tap[t].step = "close"
      <4>1. Shows(i, s)
        BY <2>1, <2>4, <3>4 DEF SessionRight, h, s
      <4> QED BY <1>c, <2>2, <3>1, <3>3, <3>4, <4>1 DEF SessionRight
    <3>5. CASE tap[t].step = "save"
      <4>1. \A u \in Taps : tap[u].id = i => tap[u].step # "close"
        BY <2>1, <2>4, <3>5 DEF SessionRight, h
      <4>2. FlightsOf(i) = {}
        BY <2>1, <3>2, <4>1 DEF SessionRight
      <4> QED BY <1>b, <2>2, <3>1, <3>3, <3>5, <4>2 DEF SessionRight
    <3> QED BY <3>4, <3>5
  <2>5. CASE h # i
    <3>1. \A u \in Taps : tap'[u].id = i => tap'[u] = tap[u]
      BY <1>v, <2>3, WaitingOK
    <3>2. \A u \in Taps : tap[u].id = i => tap'[u] = tap[u]
      BY <1>v, <2>5 DEF h
    <3>3. sessions'[i] = sessions[i]
      BY <1>2, <2>5
    <3> QED BY <2>1, <2>2, <3>1, <3>2, <3>3 DEF SessionRight
  <2> QED BY <2>4, <2>5
<1> QED BY <1>2, <1>4, <1>5, <1>6, <1>7 DEF LiveInv

\* A new session: no flight belongs to it and no tap works on it.
LEMMA OpenSessionKeeps ==
  ASSUME LiveInv, NEW t \in Taps, Live!openSession(t)
  PROVE  LiveInv'
<1> DEFINE s == [status |-> "open", reg |-> tap[t].reg,
                 at |-> [e \in 1 .. 4 |-> IF e = 1 THEN tap[t].at ELSE 0], flight |-> 0]
<1>0. LiveTypes /\ OpenOnce /\ Live!FlightsPlausible /\ \A i \in Live!Ids \ disturbed : SessionRight(i)
  BY DEF LiveInv
<1>1. /\ tap[t].step = "open" /\ tap' = [tap EXCEPT ![t] = Live!Waiting] /\ UNCHANGED <<flown, now, begun, disturbed>>
      /\ \/ sessions' = sessions
         \/ Live!GetOpenByUserID = 0 /\ sessions' = Append(sessions, s)
  BY DEF Live!openSession, Live!Answer, Live!Create, Live!Unset
<1>2. CASE sessions' = sessions
  <2>1. /\ disturbed \subseteq disturbed' /\ disturbed' \subseteq Live!Ids /\ now' \in 1 .. LastTime
        /\ UNCHANGED <<sessions, flown>>
    BY <1>0, <1>1, <1>2 DEF LiveTypes
  <2> QED BY <1>1, <2>1, TapMoves, WaitingOK
<1>3. CASE Live!GetOpenByUserID = 0 /\ sessions' = Append(sessions, s)
  <2>a. s \in Live!Session /\ s.status = "open"
    <3>1. tap[t].at \in 1 .. Live!Latest /\ tap[t].reg \in BOOLEAN
      BY <1>0, <1>1 DEF LiveTypes, TapOK
    <3>2. [e \in 1 .. 4 |-> IF e = 1 THEN tap[t].at ELSE 0] \in [1 .. 4 -> 0 .. Live!Latest]
      BY <3>1, LiveAssumption DEF Live!Latest
    <3> QED BY <3>1, <3>2, LiveAssumption DEF Live!Session
  <2> HIDE DEF s
  <2> DEFINE n == Len(sessions) + 1
  <2>b. /\ sessions' \in Seq(Live!Session) /\ Live!Ids' = Live!Ids \cup {n} /\ n \notin Live!Ids
        /\ sessions'[n] = s /\ \A i \in Live!Ids : sessions'[i] = sessions[i]
    BY <1>0, <1>3, <2>a DEF LiveTypes, Live!Ids
  <2>c. \A i \in Live!Ids : sessions[i].status # "open"
    BY <1>0, <1>3, OpenSession
  <2>d. n # 0
    BY <1>0 DEF LiveTypes
  <2> HIDE DEF n
  <2>e. /\ (DOMAIN tap') = Taps /\ tap'[t] = Live!Waiting
        /\ \A u \in Taps : u # t => tap'[u] = tap[u]
    BY <1>0, <1>1 DEF LiveTypes
  <2>1. \A u \in Taps : TapOK(tap[u])'
    <3>1. \A v : TapOK(v) => TapOK(v)'
      BY <2>b DEF TapOK
    <3>2. \A u \in Taps : TapOK(tap'[u])
      BY <1>0, <2>e, WaitingOK DEF LiveTypes
    <3> QED BY <3>1, <3>2
  <2>2. LiveTypes'
    <3>1. Live!Session' = Live!Session /\ FlownRow' = FlownRow
      BY DEF Live!Session, FlownRow
    <3> QED BY <1>0, <1>1, <2>b, <2>e, <2>1, <3>1 DEF LiveTypes
  <2>3. OpenOnce'
    BY <2>a, <2>b, <2>c DEF OpenOnce
  <2>4. Live!FlightsPlausible'
    BY <1>0, <1>1 DEF Live!FlightsPlausible
  <2>5. ASSUME NEW i \in Live!Ids' \ disturbed'
        PROVE  SessionRight(i)'
    <3>1. FlightsOf(i)' = FlightsOf(i) /\ \A w : Shows(i, w)' = Shows(i, w)
      BY <1>1 DEF FlightsOf, Shows
    <3>2. CASE i \in Live!Ids
      <4>1. SessionRight(i) /\ sessions'[i] = sessions[i] /\ i # 0
        BY <1>0, <1>1, <2>b, <3>2 DEF Live!Ids, LiveTypes
      <4>2. \A u \in Taps : (tap'[u].id = i \/ tap[u].id = i) => tap'[u] = tap[u]
        BY <1>0, <1>1, <2>e, <4>1, WaitingOK DEF LiveTypes, TapOK
      <4> QED BY <3>1, <4>1, <4>2 DEF SessionRight
    <3>3. CASE i = n
      <4>1. \A u \in Taps : tap'[u].id # n
        BY <1>0, <2>b, <2>d, <2>e, WaitingOK DEF LiveTypes, TapOK
      <4>2. FlightsOf(n) = {}
        BY <1>0, <2>b DEF LiveTypes, FlightsOf
      <4>3. sessions'[i].status = "open"
        BY <2>a, <2>b, <3>3
      <4> QED BY <3>1, <3>3, <4>1, <4>2, <4>3 DEF SessionRight
    <3> QED BY <2>b, <3>2, <3>3
  <2> QED BY <2>2, <2>3, <2>4, <2>5 DEF LiveInv
<1> QED BY <1>1, <1>2, <1>3

\* A day and a time of it are the instant they were made from.
LEMMA DayAndTime ==
  ASSUME NEW x \in Nat
  PROVE  (x \div DayLength) * DayLength + (x % DayLength) = x
BY LiveAssumption, Z3

\* The flight is written first: it is the first one of its session, it is plausible because
\* the copy that made it was validated, and the tap knows its number.
LEMMA CompleteSessionKeeps ==
  ASSUME LiveInv, NEW t \in Taps, Live!completeSession(t)
  PROVE  LiveInv'
<1> DEFINE h == tap[t].id
           s == tap[t].row
           n == Len(flown) + 1
           f == [session |-> h, date |-> s.at[1] \div DayLength, off |-> Live!timeOfDay(s.at[1]),
                 on |-> Live!timeOfDay(s.at[4]), total |-> Live!BlockDuration(s), reg |-> s.reg]
           w == [s EXCEPT !.status = "completed", !.flight = n]
           r == [step |-> "close", id |-> h, row |-> w]
<1>0. LiveTypes /\ OpenOnce /\ Live!FlightsPlausible /\ \A i \in Live!Ids \ disturbed : SessionRight(i)
  BY DEF LiveInv
<1>1. /\ tap[t].step = "fly" /\ Len(flown) < MaxFlights /\ flown' = Append(flown, f)
      /\ UNCHANGED <<sessions, now, begun, disturbed>>
  BY DEF Live!completeSession, Live!buildFlight
<1>2. /\ tap[t] \in Holding /\ h \in Live!Ids /\ h # 0 /\ s \in Live!Session
      /\ s.reg /\ s.at[1] # 0 /\ s.at[4] > s.at[1] /\ s.at[4] - s.at[1] <= MaxDuration
  BY <1>0, <1>1 DEF LiveTypes, TapOK, Holding, Live!Ids
<1>3. /\ tap' = [tap EXCEPT ![t] = [@ EXCEPT !.step = "close", !.row = w]]
  BY <1>0, <1>2 DEF Live!completeSession, LiveTypes, Holding, Live!Session
<1> HIDE DEF w
<1>6. n \in 0 .. MaxFlights /\ n \in Nat /\ n \notin 1 .. Len(flown)
  BY <1>0, <1>1, LiveAssumption DEF LiveTypes
<1>7. w \in Live!Session /\ w.status = "completed" /\ w.flight = n /\ w.at = s.at
  BY <1>2, <1>6 DEF Live!Session, w
<1>8. r \in Holding /\ r.step = "close" /\ r.id = h /\ r.row = w
  BY <1>2, <1>7 DEF Holding, Live!Ids
<1>4. [tap[t] EXCEPT !.step = "close", !.row = w] = r
  <2> DEFINE q == [tap[t] EXCEPT !.step = "close", !.row = w]
  <2>1. q \in Holding
    BY <1>2, <1>7 DEF Holding
  <2>2. q.step = "close" /\ q.id = h /\ q.row = w
    BY <1>2 DEF Holding
  <2> HIDE DEF q
  <2>3. \A x, y \in Holding : x.step = y.step /\ x.id = y.id /\ x.row = y.row => x = y
    BY DEF Holding
  <2>4. q = r
    <3> HIDE DEF r, h
    <3> QED BY <1>8, <2>1, <2>2, <2>3
  <2> QED BY <2>4 DEF q
<1>5. /\ (DOMAIN tap') = Taps /\ tap'[t] = r
      /\ \A u \in Taps : u # t => tap'[u] = tap[u]
  BY <1>0, <1>3, <1>4 DEF LiveTypes
<1>9. /\ f \in FlownRow /\ f.session = h /\ f.reg = s.reg
      /\ f.total = s.at[4] - s.at[1] /\ Live!Tells(f, s)
  <2>1. h \in Nat /\ s.reg \in BOOLEAN
    BY <1>2 DEF Live!Session, Live!Ids
  <2>2. s.at[1] \in Nat /\ s.at[4] \in Nat /\ s.at[1] # 0 /\ s.at[4] # 0
    BY <1>2, LiveAssumption DEF Live!Session, Live!Latest
  <2>3. f.total = s.at[4] - s.at[1]
    BY <2>2 DEF Live!BlockDuration, Live!Unset
  <2> HIDE DEF h, s
  <2>4. f \in FlownRow
    BY <2>1, <2>2, <2>3, LiveAssumption DEF FlownRow, Live!timeOfDay
  <2>5. f.date * DayLength + f.off = s.at[1]
    BY <2>2, DayAndTime DEF Live!timeOfDay
  <2>6. Live!Tells(f, s)
    <3>1. f.on = Live!timeOfDay(s.at[4])
      OBVIOUS
    <3> HIDE DEF f
    <3> QED BY <2>2, <2>3, <2>5, <3>1 DEF Live!Tells
  <2> QED BY <2>3, <2>4, <2>6
<1>10. /\ flown' \in Seq(FlownRow) /\ Len(flown') = n /\ flown'[n] = f
       /\ \A k \in 1 .. Len(flown) : flown'[k] = flown[k]
       /\ 1 .. n = (1 .. Len(flown)) \cup {n}
  BY <1>0, <1>1, <1>9 DEF LiveTypes
<1>11. Live!Ids' = Live!Ids
  BY <1>1 DEF Live!Ids
<1> HIDE DEF h, s, n, f, r
<1>12. \A u \in Taps : TapOK(tap[u])'
  <2>1. \A v : TapOK(v)' = TapOK(v)
    BY <1>11 DEF TapOK
  <2>2. TapOK(r)
    BY <1>2, <1>7, <1>8 DEF TapOK
  <2>3. \A u \in Taps : TapOK(tap'[u])
    BY <1>0, <1>5, <2>2 DEF LiveTypes
  <2> QED BY <2>1, <2>3
<1>13. LiveTypes'
  <2>1. Live!Session' = Live!Session /\ FlownRow' = FlownRow
    BY DEF Live!Session, FlownRow
  <2>2. Len(flown') <= MaxFlights
    BY <1>6, <1>10, LiveAssumption
  <2>3. \A k \in 1 .. Len(flown') : flown'[k].session \in Live!Ids
    BY <1>0, <1>2, <1>9, <1>10 DEF LiveTypes
  <2> QED BY <1>0, <1>1, <1>5, <1>10, <1>11, <1>12, <2>1, <2>2, <2>3 DEF LiveTypes
<1>14. OpenOnce'
  BY <1>0, <1>1, <1>11 DEF OpenOnce
<1>15. Live!FlightsPlausible'
  <2> SUFFICES ASSUME NEW k \in 1 .. Len(flown')
               PROVE  flown'[k].reg /\ flown'[k].total > 0 /\ flown'[k].total <= MaxDuration
    BY DEF Live!FlightsPlausible
  <2>1. CASE k \in 1 .. Len(flown)
    BY <1>0, <1>10, <2>1 DEF Live!FlightsPlausible
  <2>2. CASE k = n
    <3>1. s.at[1] \in Int /\ s.at[4] \in Int
      BY <1>2, LiveAssumption DEF Live!Session, Live!Latest
    <3>2. f.total = s.at[4] - s.at[1] /\ f.reg
      BY <1>2, <1>9
    <3>3. flown'[k] = f
      BY <1>10, <2>2
    <3> QED BY <1>2, <3>1, <3>2, <3>3
  <2> QED BY <1>10, <2>1, <2>2
<1>16. ASSUME NEW i \in Live!Ids \ disturbed'
       PROVE  SessionRight(i)'
  <2>1. SessionRight(i) /\ sessions'[i] = sessions[i]
    BY <1>0, <1>1
  <2>2. CASE h = i
    <3>1. \A u \in Taps : tap[u].id = i => u = t
      BY <2>1, <2>2 DEF SessionRight, h
    <3>2. sessions[i].status = "open"
      BY <2>1, <2>2 DEF SessionRight, h
    <3>3. FlightsOf(i) = {}
      BY <1>1, <2>1, <3>1, <3>2 DEF SessionRight
    <3>4. FlightsOf(i)' = {n}
      BY <1>9, <1>10, <2>2, <3>3 DEF FlightsOf
    <3>5. FlightsOf(i)' = {w.flight} /\ Live!Tells(flown'[w.flight], w)
      BY <1>7, <1>9, <1>10, <3>4 DEF Live!Tells
    <3>6. \A u \in Taps : tap'[u].id = i => u = t
      BY <1>5, <3>1
    <3>7. tap'[t].id = i /\ tap'[t].step = "close" /\ tap'[t].row = w
      BY <1>5, <1>8, <2>2
    <3>8. Shows(i, tap[t].row)'
      BY <3>5, <3>7 DEF Shows
    <3> QED BY <2>1, <3>2, <3>6, <3>7, <3>8 DEF SessionRight
  <2>3. CASE h # i
    <3>1. \A u \in Taps : (tap'[u].id = i \/ tap[u].id = i) => tap'[u] = tap[u]
      BY <1>5, <1>8, <2>3 DEF h
    <3>2. FlightsOf(i)' = FlightsOf(i)
      BY <1>9, <1>10, <2>3 DEF FlightsOf
    <3>3. ASSUME NEW v, Shows(i, v) PROVE Shows(i, v)'
      <4>1. v.flight \in 1 .. Len(flown)
        BY <3>3 DEF Shows, FlightsOf
      <4> QED BY <1>10, <3>2, <3>3, <4>1 DEF Shows
    <3> QED BY <2>1, <3>1, <3>2, <3>3 DEF SessionRight
  <2> QED BY <2>2, <2>3
<1> QED BY <1>11, <1>13, <1>14, <1>15, <1>16 DEF LiveInv

\* A copy of the open session with one more instant is well formed, and stays open.
LEMMA EventApplied ==
  ASSUME NEW s \in Live!Session, NEW e \in 1 .. 4, NEW at \in 1 .. Live!Latest, NEW reg \in BOOLEAN
  PROVE  /\ Live!applyEvent(s, e, at, reg) \in Live!Session
         /\ Live!applyEvent(s, e, at, reg).status = s.status
<1> DEFINE x == [s.at EXCEPT ![e] = IF s.at[e] = 0 THEN at ELSE s.at[e]]
<1>1. at \in 0 .. Live!Latest /\ s.at \in [1 .. 4 -> 0 .. Live!Latest] /\ s.at[e] \in 0 .. Live!Latest
  BY LiveAssumption DEF Live!Session, Live!Latest
<1>2. x \in [1 .. 4 -> 0 .. Live!Latest]
  BY <1>1
<1> HIDE DEF x
<1>3. Live!applyEvent(s, e, at, reg) = [[s EXCEPT !.at = x] EXCEPT !.reg = s.reg \/ reg]
  BY DEF Live!applyEvent, Live!Session, Live!Unset, x
<1>4. (s.reg \/ reg) \in BOOLEAN
  BY DEF Live!Session
<1> QED BY <1>2, <1>3, <1>4 DEF Live!Session

LEMMA RecordEventKeeps ==
  ASSUME LiveInv, NEW t \in Taps, Live!RecordEvent(t)
  PROVE  LiveInv'
<1> DEFINE i == Live!GetOpenByUserID
<1>0. LiveTypes /\ OpenOnce
  BY DEF LiveInv
<1>1. PICK e \in 1 .. 4, at \in 1 .. now + MaxSkew, reg \in BOOLEAN :
         /\ tap[t] = Live!Waiting
         /\ disturbed' = IF Live!Working(i) # {} THEN disturbed \cup {i} ELSE disturbed
         /\ UNCHANGED <<sessions, flown, now>>
         /\ \/ /\ e = 1 /\ i = 0
               /\ tap' = [tap EXCEPT ![t] = [step |-> "open", id |-> 0, at |-> at, reg |-> reg]]
            \/ /\ e \in {2, 3} /\ i # 0
               /\ tap' = [tap EXCEPT ![t] = [step |-> "save", id |-> i,
                                             row |-> Live!applyEvent(sessions[i], e, at, reg)]]
            \/ /\ e = 4 /\ i # 0
               /\ Live!BlockDuration(Live!applyEvent(sessions[i], e, at, reg)) > 0
               /\ Live!BlockDuration(Live!applyEvent(sessions[i], e, at, reg)) <= MaxDuration
               /\ Live!applyEvent(sessions[i], e, at, reg).reg
               /\ tap' = [tap EXCEPT ![t] = [step |-> "fly", id |-> i,
                                             row |-> Live!applyEvent(sessions[i], e, at, reg)]]
  BY DEF Live!RecordEvent, Live!OccurredAt, Live!Unset
<1>2. i # 0 => i \in Live!Ids /\ sessions[i].status = "open" /\ sessions[i] \in Live!Session
  BY <1>0, OpenSession DEF LiveTypes, Live!Ids
<1>3. at \in 1 .. Live!Latest /\ now' \in 1 .. LastTime
  BY <1>0, <1>1, LiveAssumption DEF LiveTypes, Live!Latest
<1> HIDE DEF i
<1>4. i = 0 => Live!Working(i) = {}
  BY DEF Live!Working, Live!Unset
<1>5. disturbed \subseteq disturbed' /\ disturbed' \subseteq Live!Ids
  BY <1>0, <1>1, <1>2, <1>4 DEF LiveTypes
<1>6. i # 0 /\ i \notin disturbed' => \A u \in Taps : tap[u].id # i
  BY <1>1 DEF Live!Working, Live!Unset
<1>7. tap[t].step # "close"
  BY <1>1, WaitingOK
<1>8. CASE tap' = [tap EXCEPT ![t] = [step |-> "open", id |-> 0, at |-> at, reg |-> reg]]
  <2>1. TapOK([step |-> "open", id |-> 0, at |-> at, reg |-> reg])
    BY <1>3 DEF TapOK
  <2> QED BY <1>1, <1>3, <1>5, <1>7, <1>8, <2>1, TapMoves
<1>9. CASE /\ i # 0
           /\ tap' = [tap EXCEPT ![t] = [step |-> "save", id |-> i,
                                         row |-> Live!applyEvent(sessions[i], e, at, reg)]]
  <2> DEFINE s == Live!applyEvent(sessions[i], e, at, reg)
             r == [step |-> "save", id |-> i, row |-> s]
  <2>1. s \in Live!Session /\ s.status = "open"
    BY <1>2, <1>3, <1>9, EventApplied
  <2> HIDE DEF s
  <2>2. TapOK(r) /\ r.id = i /\ r.step = "save"
    BY <1>2, <1>9, <2>1 DEF TapOK, Holding, Live!Ids
  <2>3. tap' = [tap EXCEPT ![t] = r]
    BY <1>9 DEF s
  <2> HIDE DEF r
  <2> QED BY <1>1, <1>2, <1>3, <1>5, <1>6, <1>7, <1>9, <2>2, <2>3, TapMoves, ZenonT(60)
<1>10. CASE /\ i # 0
            /\ Live!BlockDuration(Live!applyEvent(sessions[i], e, at, reg)) > 0
            /\ Live!BlockDuration(Live!applyEvent(sessions[i], e, at, reg)) <= MaxDuration
            /\ Live!applyEvent(sessions[i], e, at, reg).reg
            /\ tap' = [tap EXCEPT ![t] = [step |-> "fly", id |-> i,
                                          row |-> Live!applyEvent(sessions[i], e, at, reg)]]
  <2> DEFINE s == Live!applyEvent(sessions[i], e, at, reg)
             r == [step |-> "fly", id |-> i, row |-> s]
  <2>1. s \in Live!Session
    BY <1>2, <1>3, <1>10, EventApplied
  <2> HIDE DEF s
  <2>2. Live!BlockDuration(s) > 0 /\ Live!BlockDuration(s) <= MaxDuration /\ s.reg
    BY <1>10 DEF s
  <2>3. s.at[1] # 0 /\ s.at[4] > s.at[1] /\ s.at[4] - s.at[1] <= MaxDuration
    BY <2>1, <2>2, LiveAssumption DEF Live!BlockDuration, Live!Session, Live!Latest, Live!Unset
  <2>4. TapOK(r) /\ r.id = i /\ r.step = "fly"
    BY <1>2, <1>10, <2>1, <2>2, <2>3 DEF TapOK, Holding, Live!Ids
  <2>5. tap' = [tap EXCEPT ![t] = r]
    BY <1>10 DEF s
  <2> HIDE DEF r
  <2> QED BY <1>1, <1>2, <1>3, <1>5, <1>6, <1>7, <1>10, <2>4, <2>5, TapMoves
<1> QED BY <1>1, <1>8, <1>9, <1>10

LEMMA DiscardKeeps ==
  ASSUME LiveInv, NEW t \in Taps, Live!Discard(t)
  PROVE  LiveInv'
<1> DEFINE i == Live!GetOpenByUserID
           s == [sessions[i] EXCEPT !.status = "discarded"]
           r == [step |-> "save", id |-> i, row |-> s]
<1>0. LiveTypes /\ OpenOnce
  BY DEF LiveInv
<1>1. /\ tap[t] = Live!Waiting /\ i # 0 /\ tap' = [tap EXCEPT ![t] = r]
      /\ disturbed' = IF Live!Working(i) # {} THEN disturbed \cup {i} ELSE disturbed
      /\ UNCHANGED <<sessions, flown, now>>
  BY DEF Live!Discard, Live!Unset
<1>2. i \in Live!Ids /\ sessions[i].status = "open" /\ sessions[i] \in Live!Session
  BY <1>0, <1>1, OpenSession DEF LiveTypes, Live!Ids
<1> HIDE DEF i
<1>3. s \in Live!Session /\ s.status = "discarded"
  BY <1>2 DEF Live!Session
<1> HIDE DEF s
<1>4. TapOK(r) /\ r.id = i /\ r.step = "save"
  BY <1>1, <1>2, <1>3 DEF TapOK, Holding, Live!Ids
<1> HIDE DEF r
<1>5. disturbed \subseteq disturbed' /\ disturbed' \subseteq Live!Ids /\ now' \in 1 .. LastTime
  BY <1>0, <1>1, <1>2 DEF LiveTypes
<1>6. i \notin disturbed' => \A u \in Taps : tap[u].id # i
  BY <1>1 DEF Live!Working, Live!Unset
<1>7. tap[t].step # "close"
  BY <1>1, WaitingOK
<1> QED BY <1>1, <1>2, <1>4, <1>5, <1>6, <1>7, TapMoves

LEMMA DiesKeeps ==
  ASSUME LiveInv, NEW t \in Taps, Live!Dies(t)
  PROVE  LiveInv'
<1>0. LiveTypes
  BY DEF LiveInv
<1>1. /\ tap' = [tap EXCEPT ![t] = Live!Waiting] /\ UNCHANGED <<sessions, flown, now>>
      /\ disturbed' = IF tap[t].step = "close" THEN disturbed \cup {tap[t].id} ELSE disturbed
  BY DEF Live!Dies, Live!Answer
<1>2. /\ disturbed \subseteq disturbed' /\ disturbed' \subseteq Live!Ids /\ now' \in 1 .. LastTime
      /\ tap[t].step = "close" => tap[t].id \in disturbed'
  BY <1>0, <1>1 DEF LiveTypes, TapOK
<1> QED BY <1>1, <1>2, TapMoves, WaitingOK

LEMMA ClockKeeps ==
  ASSUME LiveInv, UNCHANGED <<sessions, flown, tap, disturbed>>, now' \in 1 .. LastTime
  PROVE  LiveInv'
<1>1. Live!Ids' = Live!Ids /\ Live!Session' = Live!Session /\ FlownRow' = FlownRow
  BY DEF Live!Ids, Live!Session, FlownRow
<1>2. \A v : TapOK(v)' = TapOK(v)
  BY <1>1 DEF TapOK
<1>3. LiveTypes'
  BY <1>1, <1>2 DEF LiveInv, LiveTypes
<1>4. \A i : FlightsOf(i)' = FlightsOf(i) /\ \A v : Shows(i, v)' = Shows(i, v)
  BY DEF FlightsOf, Shows
<1>5. \A i : SessionRight(i)' = SessionRight(i)
  BY <1>4 DEF SessionRight
<1>6. OpenOnce' /\ Live!FlightsPlausible'
  BY <1>1 DEF LiveInv, OpenOnce, Live!FlightsPlausible
<1> QED BY <1>1, <1>3, <1>5, <1>6 DEF LiveInv

LEMMA LiveNextKeeps ==
  ASSUME LiveInv, Live!SessionsNext
  PROVE  LiveInv'
<1>1. ASSUME NEW t \in Taps, Live!saveOrdered(t) PROVE LiveInv'
  BY <1>1, RowWritten DEF Live!saveOrdered
<1>2. ASSUME NEW t \in Taps, Live!closeSession(t) PROVE LiveInv'
  BY <1>2, RowWritten DEF Live!closeSession
<1>3. ASSUME Live!Clock PROVE LiveInv'
  <2>1. UNCHANGED <<sessions, flown, tap, disturbed>> /\ now' = now + 1 /\ now < LastTime /\ now \in 1 .. LastTime
    BY <1>3 DEF Live!Clock, LiveInv, LiveTypes
  <2>2. now' \in 1 .. LastTime
    BY <2>1, LiveAssumption
  <2> QED BY <2>1, <2>2, ClockKeeps
<1> QED BY <1>1, <1>2, <1>3, RecordEventKeeps, OpenSessionKeeps, CompleteSessionKeeps, DiscardKeeps, DiesKeeps
        DEF Live!SessionsNext

LEMMA LiveInitially == Live!SessionsInit => LiveInv
<1> SUFFICES ASSUME Live!SessionsInit PROVE LiveInv
  OBVIOUS
<1>1. sessions = <<>> /\ flown = <<>> /\ now = 1 /\ disturbed = {} /\ tap = [t \in Taps |-> Live!Waiting]
  BY DEF Live!SessionsInit
<1>2. Live!Ids = {} /\ sessions \in Seq(Live!Session) /\ flown \in Seq(FlownRow) /\ Len(flown) = 0
  BY <1>1 DEF Live!Ids
<1>3. LiveTypes
  BY <1>1, <1>2, WaitingOK, LiveAssumption DEF LiveTypes
<1> QED BY <1>2, <1>3 DEF LiveInv, OpenOnce, Live!FlightsPlausible

LEMMA LiveCardinality == ASSUME NEW S PROVE Live!Cardinality(S) = Cardinality(S)
BY Zenon DEF Live!Cardinality, Cardinality

LEMMA AtMostOne ==
  ASSUME NEW S, S = {} \/ \E k : S = {k}
  PROVE  Live!Cardinality(S) <= 1
<1>1. CASE S = {}
  BY <1>1, FS_EmptySet, LiveCardinality
<1>2. CASE \E k : S = {k}
  <2>1. PICK k : S = {k}
    BY <1>2
  <2>2. Cardinality({k}) = 1
    BY FS_Singleton
  <2>3. Cardinality(S) = 1
    BY <2>1, <2>2
  <2> QED BY <2>3, LiveCardinality
<1> QED BY <1>1, <1>2

\* The invariant says that a session has one flight at most.
LEMMA LiveInvSays ==
  ASSUME LiveInv
  PROVE  Live!OneFlightPerSession /\ Live!FlightsPlausible /\ Live!SessionsTypeOK
<1>1. ASSUME NEW i \in Live!Ids \ disturbed
      PROVE  LET F == {k \in 1 .. Len(flown) : flown[k].session = i} IN
               /\ Live!Cardinality(F) <= 1
               /\ sessions[i].status = "completed" =>
                    F = {sessions[i].flight} /\ \A k \in F : Live!Tells(flown[k], sessions[i])
  <2>1. SessionRight(i)
    BY DEF LiveInv
  <2>2. FlightsOf(i) = {} \/ \E k : FlightsOf(i) = {k}
    <3>1. CASE sessions[i].status = "completed"
      BY <2>1, <3>1 DEF SessionRight, Shows
    <3>2. CASE \E t \in Taps : tap[t].id = i /\ tap[t].step = "close"
      BY <2>1, <3>2 DEF SessionRight, Shows
    <3> QED BY <2>1, <3>1, <3>2 DEF SessionRight
  <2>4. Live!Cardinality(FlightsOf(i)) <= 1
    BY <2>2, AtMostOne
  <2>5. sessions[i].status = "completed" =>
          /\ FlightsOf(i) = {sessions[i].flight}
          /\ \A k \in FlightsOf(i) : Live!Tells(flown[k], sessions[i])
    BY <2>1 DEF SessionRight, Shows
  <2> QED BY <2>4, <2>5 DEF FlightsOf
<1>2. Live!OneFlightPerSession
  BY <1>1 DEF Live!OneFlightPerSession
<1>3. Live!SessionsTypeOK
  <2> DEFINE O == {i \in Live!Ids : sessions[i].status = "open"}
  <2>1. O = {} \/ \E k : O = {k}
    BY DEF LiveInv, OpenOnce
  <2>2. Live!Cardinality(O) <= 1
    <3> HIDE DEF O
    <3> QED BY <2>1, AtMostOne
  <2> QED BY <2>2 DEF LiveInv, LiveTypes, Live!SessionsTypeOK
<1> QED BY <1>2, <1>3 DEF LiveInv

LEMMA LiveSafe == LogbookSpec => [](part = "live" => LiveInv)
<1> DEFINE L == part = "live" => LiveInv
<1>1. LogbookInit => L
  BY LiveInitially, Zenon DEF LogbookInit
<1>2. L /\ [LogbookNext]_allVars => L'
  <2>1. ASSUME L, UNCHANGED <<part, liveVars>> PROVE L'
    <3>1. LiveInv => UNCHANGED <<sessions, flown, tap, disturbed>> /\ now' \in 1 .. LastTime
      BY <2>1 DEF liveVars, LiveInv, LiveTypes
    <3> QED BY <2>1, <3>1, ClockKeeps
  <2>2. ASSUME L, part = "live", Live!SessionsNext PROVE L'
    BY <2>2, LiveNextKeeps
  <2>3. UNCHANGED allVars => UNCHANGED <<part, liveVars>>
    BY Zenon DEF allVars
  <2> HIDE DEF L
  <2> QED BY <2>1, <2>2, <2>3, Zenon DEF LogbookNext
<1> QED BY <1>1, <1>2, PTL DEF LogbookSpec

\* A live session that no two taps worked on at once, and none left half done, makes one flight
\* and shows its block times, and every flight a session made is plausible (LiveFlightsRight),
\* for every number of sessions, taps and phones, every clock and every limit on the duration.
THEOREM LiveFlights == LogbookSpec => []LiveFlightsRight
<1>1. (part = "live" => LiveInv) => LiveFlightsRight
  BY LiveInvSays DEF LiveFlightsRight
<1> QED BY <1>1, LiveSafe, PTL

-----------------------------------------------------------------------------
(* Collections: rules. *)

RuleSteps == {"ruleInsert", "ruleUpdate", "ruleDelete"}
Inserting(p) == listReq[p].step = "ruleInsert"
Changing(p) == listReq[p].step = "ruleUpdate"
OnRule(p) == listReq[p].step \in RuleSteps

\* A rule holds a token exactly while it is shared.
RuleOK(r) == r \in Coll!Rule /\ r.shared = (r.token # None)

RuleTypes ==
  /\ rules \in [RuleIds -> Coll!Rule \cup {None}] /\ DOMAIN listReq = Procs /\ None \notin revoked
  /\ \A x \in RuleIds : rules[x] # None => RuleOK(rules[x]) /\ x \in given
  /\ \A p \in Procs : OnRule(p) => listReq[p].id \in RuleIds /\ listReq[p].id \in given
  /\ \A p \in Procs : Inserting(p) => /\ RuleOK(listReq[p].rule) /\ listReq[p].rule.token = None
                                      /\ listReq[p].rule.from = None \/ listReq[p].rule.from \in given
  /\ \A p \in Procs : Changing(p) => /\ RuleOK(listReq[p].rule) /\ listReq[p].seen \in Coll!Rule
                                     /\ listReq[p].token = listReq[p].rule.token

\* A new rule has an id of its own until it is stored: no row and no other request has it,
\* and no rule is being imported from it.
InsertAlone ==
  \A p \in Procs : Inserting(p) =>
    /\ rules[listReq[p].id] = None
    /\ \A q \in Procs : OnRule(q) /\ q # p => listReq[q].id # listReq[p].id
    /\ \A q \in Procs : Inserting(q) => listReq[q].rule.from # listReq[p].id

\* An imported rule and its source, in the table and on the way there.
Provenance ==
  /\ \A x \in RuleIds : rules[x] # None /\ rules[x].from # None =>
       rules[rules[x].from] # None /\ rules[rules[x].from].owner # rules[x].owner
  /\ \A p \in Procs : Inserting(p) /\ listReq[p].rule.from # None =>
       LET s == listReq[p].rule.from IN rules[s] # None => rules[s].owner # listReq[p].rule.owner

\* The rules of an account and those on their way to it.
RulesOf(u) == {x \in RuleIds : rules[x] # None /\ rules[x].owner = u}
NewRules(u) == {p \in Procs : Inserting(p) /\ listReq[p].rule.owner = u}
RuleQuota == \A u \in Accounts : Cardinality(RulesOf(u)) + Cardinality(NewRules(u)) <= MaxRulesPerUser + Cardinality(Procs) - 1

\* A token names one rule, in the table and in every copy on its way back there; a new one
\* is known to one request only; what was revoked is found in stale rules only.
TokensNameOne ==
  /\ \A x, y \in RuleIds : rules[x] # None /\ rules[y] # None /\ rules[x].token = rules[y].token /\ rules[x].token # None
       => x = y
  /\ \A p \in Procs, x \in RuleIds :
       Changing(p) /\ listReq[p].token # None /\ rules[x] # None /\ rules[x].token = listReq[p].token => x = listReq[p].id
  /\ \A p, q \in Procs :
       Changing(p) /\ Changing(q) /\ listReq[p].token # None /\ listReq[p].token = listReq[q].token
       => listReq[p].id = listReq[q].id
NewToken(p) ==
  /\ listReq[p].token \notin revoked
  /\ \A x \in RuleIds : rules[x] # None => rules[x].token # listReq[p].token
  /\ \A q \in Procs : Changing(q) /\ q # p => listReq[q].token # listReq[p].token
TokensNew ==
  \A p \in Procs : Changing(p) /\ listReq[p].token # None /\ listReq[p].seen.token # listReq[p].token => NewToken(p)
RevokedInStale == \A x \in RuleIds : rules[x] # None /\ rules[x].token \in revoked => x \in stale

RulesInv == RuleTypes /\ InsertAlone /\ Provenance /\ RuleQuota /\ TokensNameOne /\ TokensNew /\ RevokedInStale

LEMMA CollCardinality == ASSUME NEW S PROVE Coll!Cardinality(S) = Cardinality(S)
BY Zenon DEF Coll!Cardinality, Cardinality

\* Cardinalities of the sets that quotas are about.
LEMMA QuotaSets ==
  /\ \A u : IsFiniteSet(RulesOf(u)) /\ Cardinality(RulesOf(u)) \in Nat
  /\ \A u : IsFiniteSet(NewRules(u)) /\ Cardinality(NewRules(u)) \in Nat /\ Cardinality(NewRules(u)) <= Cardinality(Procs)
  /\ Cardinality(Procs) \in Nat /\ Cardinality(Procs) >= 1
<1>1. \A u : RulesOf(u) \subseteq RuleIds /\ NewRules(u) \subseteq Procs
  BY DEF RulesOf, NewRules
<1>2. IsFiniteSet(RuleIds) /\ IsFiniteSet(Procs) /\ Procs # {}
  BY CollectionsAssumption
<1>3. \A u : IsFiniteSet(RulesOf(u)) /\ Cardinality(RulesOf(u)) \in Nat
  BY <1>1, <1>2, FS_Subset, FS_CardinalityType
<1>4. \A u : IsFiniteSet(NewRules(u)) /\ Cardinality(NewRules(u)) \in Nat /\ Cardinality(NewRules(u)) <= Cardinality(Procs)
  BY <1>1, <1>2, FS_Subset, FS_CardinalityType
<1>5. Cardinality(Procs) \in Nat /\ Cardinality(Procs) # 0
  BY <1>2, FS_CardinalityType, FS_EmptySet
<1>6. Cardinality(Procs) >= 1
  BY <1>5
<1> QED BY <1>3, <1>4, <1>5, <1>6

\* One request moves on, the others stay.
LEMMA OneMoves ==
  ASSUME DOMAIN listReq = Procs, NEW p \in Procs, NEW r, listReq' = [listReq EXCEPT ![p] = r]
  PROVE  /\ DOMAIN listReq' = Procs /\ listReq'[p] = r
         /\ \A q \in Procs : q # p => listReq'[q] = listReq[q]
OBVIOUS

\* A request that gives up leaves everything to the others.
LEMMA RuleGivesUp ==
  ASSUME RulesInv, NEW p \in Procs, NEW r, listReq' = [listReq EXCEPT ![p] = r], r.step \notin RuleSteps,
         UNCHANGED <<rules, revoked, stale>>, given \subseteq given'
  PROVE  RulesInv'
<1>1. /\ DOMAIN listReq' = Procs /\ listReq'[p] = r
      /\ \A q \in Procs : q # p => listReq'[q] = listReq[q]
  BY OneMoves DEF RulesInv, RuleTypes
<1>2. \A q \in Procs : /\ (OnRule(q)' => OnRule(q)) /\ (Inserting(q)' => Inserting(q)) /\ (Changing(q)' => Changing(q))
                       /\ OnRule(q)' \/ Inserting(q)' \/ Changing(q)' => listReq'[q] = listReq[q]
  BY <1>1 DEF OnRule, Inserting, Changing, RuleSteps
<1>3. RuleTypes'
  BY <1>1, <1>2 DEF RulesInv, RuleTypes, RuleOK, Coll!Rule
<1>4. InsertAlone' /\ Provenance'
  BY <1>2 DEF RulesInv, InsertAlone, Provenance
<1>6. RuleQuota'
  <2>1. \A u : RulesOf(u)' = RulesOf(u) /\ NewRules(u)' \subseteq NewRules(u)
    BY <1>2 DEF RulesOf, NewRules
  <2>2. \A u : Cardinality(NewRules(u)') <= Cardinality(NewRules(u)) /\ Cardinality(NewRules(u)') \in Nat
    BY <2>1, QuotaSets, FS_Subset, FS_CardinalityType
  <2> QED BY <2>1, <2>2, QuotaSets, CollectionsAssumption DEF RulesInv, RuleQuota
<1>7. TokensNameOne' /\ RevokedInStale'
  BY <1>2 DEF RulesInv, TokensNameOne, RevokedInStale
<1>8. TokensNew'
  BY <1>2 DEF RulesInv, TokensNew, NewToken
<1> QED BY <1>3, <1>4, <1>6, <1>7, <1>8 DEF RulesInv

\* A request to store a new rule begins: its id is new, the quota had room.
LEMMA RuleInsertBegins ==
  ASSUME RulesInv, NEW p \in Procs, Coll!Idle(p), NEW u \in Accounts, NEW id \in RuleIds, id \notin given,
         NEW d \in Definitions, NEW from,
         from = None \/ (from \in RuleIds /\ rules[from] # None /\ rules[from].owner # u),
         Cardinality(RulesOf(u)) < MaxRulesPerUser,
         listReq' = [listReq EXCEPT ![p] = Coll!Insertion(id, Coll!NewRule(u, d, from))],
         UNCHANGED <<rules, revoked, stale>>, given' = given \cup {id}
  PROVE  RulesInv'
<1> DEFINE w == Coll!NewRule(u, d, from)
           r == Coll!Insertion(id, w)
<1>a. w \in Coll!Rule /\ w.owner = u /\ w.from = from /\ w.token = None /\ w.shared = FALSE
  BY DEF Coll!NewRule, Coll!Rule
<1> HIDE DEF w
<1>b. r.step = "ruleInsert" /\ r.id = id /\ r.rule = w /\ r.token = None
  BY DEF Coll!Insertion
<1> HIDE DEF r
<1>1. /\ DOMAIN listReq' = Procs /\ listReq'[p] = r
      /\ \A q \in Procs : q # p => listReq'[q] = listReq[q]
  BY OneMoves DEF RulesInv, RuleTypes, r, w
<1>2. listReq[p].step = "idle"
  BY DEF Coll!Idle, Coll!NoRequest
<1>3. /\ ~OnRule(p) /\ ~Inserting(p) /\ ~Changing(p) /\ OnRule(p)' /\ Inserting(p)' /\ ~Changing(p)'
      /\ \A q \in Procs : q # p => /\ OnRule(q)' = OnRule(q) /\ Inserting(q)' = Inserting(q)
                                   /\ Changing(q)' = Changing(q) /\ listReq'[q] = listReq[q]
  BY <1>1, <1>2, <1>b DEF OnRule, Inserting, Changing, RuleSteps
<1>4. RuleOK(w) /\ (from = None \/ from \in given)
  BY <1>a DEF RuleOK, RulesInv, RuleTypes
<1>5. RuleTypes'
  BY <1>1, <1>3, <1>4, <1>a, <1>b DEF RulesInv, RuleTypes, RuleOK, Coll!Rule
<1>6. rules[id] = None
  BY DEF RulesInv, RuleTypes
<1>7. InsertAlone'
  <2>1. \A q \in Procs : q # p /\ OnRule(q) => listReq[q].id # id
    BY DEF RulesInv, RuleTypes
  <2>2. \A q \in Procs : q # p /\ Inserting(q) => listReq[q].rule.from # id
    BY CollectionsAssumption DEF RulesInv, RuleTypes
  <2>3. from # id
    BY <1>6, CollectionsAssumption
  <2>4. \A q \in Procs : Inserting(q) => from # listReq[q].id
    BY CollectionsAssumption DEF RulesInv, InsertAlone, RuleTypes, OnRule, Inserting, RuleSteps
  <2> SUFFICES ASSUME NEW q \in Procs, Inserting(q)'
               PROVE  /\ rules'[listReq'[q].id] = None
                      /\ \A o \in Procs : OnRule(o)' /\ o # q => listReq'[o].id # listReq'[q].id
                      /\ \A o \in Procs : Inserting(o)' => listReq'[o].rule.from # listReq'[q].id
    BY DEF InsertAlone
  <2>5. CASE q = p
    BY <1>1, <1>3, <1>6, <1>a, <1>b, <2>1, <2>2, <2>3, <2>5
  <2>6. CASE q # p
    <3>1. /\ Inserting(q) /\ OnRule(q) /\ listReq'[q] = listReq[q]
      BY <1>3, <2>6 DEF OnRule, Inserting, RuleSteps
    <3> QED BY <1>1, <1>3, <1>a, <1>b, <2>1, <2>4, <2>6, <3>1 DEF RulesInv, InsertAlone
  <2> QED BY <2>5, <2>6
<1>8. Provenance'
  BY <1>1, <1>3, <1>a, <1>b DEF RulesInv, Provenance
<1>9. RuleQuota'
  <2> SUFFICES ASSUME NEW v \in Accounts
               PROVE  Cardinality(RulesOf(v)') + Cardinality(NewRules(v)') <= MaxRulesPerUser + Cardinality(Procs) - 1
    BY DEF RuleQuota
  <2>1. RulesOf(v)' = RulesOf(v)
    BY DEF RulesOf
  <2>2. CASE v = u
    <3>1. NewRules(v)' \subseteq Procs
      BY DEF NewRules
    <3>2. Cardinality(NewRules(v)') <= Cardinality(Procs) /\ Cardinality(NewRules(v)') \in Nat
      BY <3>1, CollectionsAssumption, FS_Subset, FS_CardinalityType
    <3> QED BY <2>1, <2>2, <3>2, QuotaSets, CollectionsAssumption
  <2>3. CASE v # u
    <3>1. NewRules(v)' = NewRules(v)
      BY <1>1, <1>3, <1>a, <1>b, <2>3 DEF NewRules
    <3> QED BY <2>1, <3>1 DEF RulesInv, RuleQuota
  <2> QED BY <2>2, <2>3
<1>10. TokensNameOne' /\ RevokedInStale'
  BY <1>3 DEF RulesInv, TokensNameOne, RevokedInStale
<1>11. TokensNew'
  BY <1>3 DEF RulesInv, TokensNew, NewToken
<1> QED BY <1>5, <1>7, <1>8, <1>9, <1>10, <1>11 DEF RulesInv

\* A request to change a rule begins with the row it read; it keeps the rule's token, drops
\* it, or carries a new one.
LEMMA RuleChangeBegins ==
  ASSUME RulesInv, NEW p \in Procs, Coll!Idle(p), NEW id \in RuleIds, rules[id] # None, NEW w, RuleOK(w),
         \/ w.token = None
         \/ w.token = rules[id].token
         \/ /\ w.token \notin revoked /\ \A x \in RuleIds : rules[x] # None => rules[x].token # w.token
            /\ \A q \in Procs : listReq[q].token # w.token,
         listReq' = [listReq EXCEPT ![p] = Coll!Change(id, w)],
         UNCHANGED <<rules, revoked, stale>>, given' = given \cup {id}
  PROVE  RulesInv'
<1> DEFINE r == Coll!Change(id, w)
<1>b. r.step = "ruleUpdate" /\ r.id = id /\ r.rule = w /\ r.token = w.token /\ r.seen = rules[id]
  BY DEF Coll!Change
<1> HIDE DEF r
<1>1. /\ DOMAIN listReq' = Procs /\ listReq'[p] = r
      /\ \A q \in Procs : q # p => listReq'[q] = listReq[q]
  BY OneMoves DEF RulesInv, RuleTypes, r
<1>2. listReq[p].step = "idle"
  BY DEF Coll!Idle, Coll!NoRequest
<1>3. /\ ~OnRule(p) /\ ~Inserting(p) /\ ~Changing(p) /\ OnRule(p)' /\ ~Inserting(p)' /\ Changing(p)'
      /\ \A q \in Procs : q # p => /\ OnRule(q)' = OnRule(q) /\ Inserting(q)' = Inserting(q)
                                   /\ Changing(q)' = Changing(q) /\ listReq'[q] = listReq[q]
  BY <1>1, <1>2, <1>b DEF OnRule, Inserting, Changing, RuleSteps
<1>4. rules[id] \in Coll!Rule
  BY DEF RulesInv, RuleTypes, RuleOK
<1>5. RuleTypes'
  BY <1>1, <1>3, <1>4, <1>b DEF RulesInv, RuleTypes, RuleOK, Coll!Rule
<1>6. InsertAlone' /\ Provenance'
  BY <1>1, <1>3, <1>b DEF RulesInv, InsertAlone, Provenance
<1>7. \A u : RulesOf(u)' = RulesOf(u) /\ NewRules(u)' = NewRules(u)
  BY <1>3 DEF RulesOf, NewRules
<1>8. RuleQuota'
  BY <1>7 DEF RulesInv, RuleQuota
<1>9. TokensNameOne'
  <2>1. \A x \in RuleIds : w.token # None /\ rules[x] # None /\ rules[x].token = w.token => x = id
    BY DEF RulesInv, TokensNameOne
  <2>2. \A q \in Procs : Changing(q) /\ w.token # None /\ listReq[q].token = w.token => listReq[q].id = id
    BY DEF RulesInv, TokensNameOne
  <2> QED BY <1>1, <1>3, <1>b, <2>1, <2>2 DEF RulesInv, TokensNameOne
<1>10. TokensNew'
  <2> SUFFICES ASSUME NEW q \in Procs, Changing(q)', listReq'[q].token # None, listReq'[q].seen.token # listReq'[q].token
               PROVE  NewToken(q)'
    BY DEF TokensNew
  <2>1. CASE q = p
    BY <1>1, <1>3, <1>b, <2>1 DEF NewToken
  <2>2. CASE q # p
    <3>1. NewToken(q) /\ Changing(q)
      BY <1>3, <2>2 DEF RulesInv, TokensNew
    <3>2. listReq[q].token # w.token
      BY <1>3, <2>2, <3>1 DEF NewToken
    <3> QED BY <1>1, <1>3, <1>b, <2>2, <3>1, <3>2 DEF NewToken
  <2> QED BY <2>1, <2>2
<1>11. RevokedInStale'
  BY DEF RulesInv, RevokedInStale
<1> QED BY <1>5, <1>6, <1>8, <1>9, <1>10, <1>11 DEF RulesInv

LEMMA RuleDeleteBegins ==
  ASSUME RulesInv, NEW p \in Procs, Coll!Idle(p), NEW id \in RuleIds, rules[id] # None,
         listReq' = [listReq EXCEPT ![p] = [step |-> "ruleDelete", id |-> id, token |-> None]],
         UNCHANGED <<rules, revoked, stale>>, given' = given \cup {id}
  PROVE  RulesInv'
<1> DEFINE r == [step |-> "ruleDelete", id |-> id, token |-> None]
<1>b. r.step = "ruleDelete" /\ r.id = id
  OBVIOUS
<1> HIDE DEF r
<1>1. /\ DOMAIN listReq' = Procs /\ listReq'[p] = r
      /\ \A q \in Procs : q # p => listReq'[q] = listReq[q]
  BY OneMoves DEF RulesInv, RuleTypes, r
<1>2. listReq[p].step = "idle"
  BY DEF Coll!Idle, Coll!NoRequest
<1>3. /\ ~OnRule(p) /\ ~Inserting(p) /\ ~Changing(p) /\ OnRule(p)' /\ ~Inserting(p)' /\ ~Changing(p)'
      /\ \A q \in Procs : q # p => /\ OnRule(q)' = OnRule(q) /\ Inserting(q)' = Inserting(q)
                                   /\ Changing(q)' = Changing(q) /\ listReq'[q] = listReq[q]
  BY <1>1, <1>2, <1>b DEF OnRule, Inserting, Changing, RuleSteps
<1>5. RuleTypes'
  BY <1>1, <1>3, <1>b DEF RulesInv, RuleTypes, RuleOK, Coll!Rule
<1>6. InsertAlone' /\ Provenance'
  BY <1>1, <1>3, <1>b DEF RulesInv, InsertAlone, Provenance
<1>7. \A u : RulesOf(u)' = RulesOf(u) /\ NewRules(u)' = NewRules(u)
  BY <1>3 DEF RulesOf, NewRules
<1>8. RuleQuota'
  BY <1>7 DEF RulesInv, RuleQuota
<1>9. TokensNameOne' /\ RevokedInStale'
  BY <1>3 DEF RulesInv, TokensNameOne, RevokedInStale
<1>10. TokensNew'
  BY <1>3 DEF RulesInv, TokensNew, NewToken
<1> QED BY <1>5, <1>6, <1>8, <1>9, <1>10 DEF RulesInv

\* The new rule is stored; the quota counts it as a row instead of a request.
LEMMA RuleStored ==
  ASSUME RulesInv, NEW p \in Procs, Inserting(p), ~Coll!ImportedFromGone(p),
         rules' = [rules EXCEPT ![listReq[p].id] = listReq[p].rule],
         listReq' = [listReq EXCEPT ![p] = Coll!NoRequest], UNCHANGED <<revoked, stale, given>>
  PROVE  RulesInv'
<1> DEFINE id == listReq[p].id
           w == listReq[p].rule
<1>a. /\ id \in RuleIds /\ id \in given /\ RuleOK(w) /\ w.token = None /\ w # None
      /\ rules[id] = None /\ OnRule(p) /\ ~Changing(p) /\ None \notin revoked
      /\ (w.from # None => rules[w.from] # None)
  BY CollectionsAssumption DEF RulesInv, RuleTypes, InsertAlone, OnRule, Inserting, Changing, RuleSteps, RuleOK,
     Coll!ImportedFromGone
<1>b. \A q \in Procs : Inserting(q) => listReq[q].rule.from # id
  BY DEF RulesInv, InsertAlone
<1>c. \A q \in Procs : OnRule(q) /\ q # p => listReq[q].id # id
  BY DEF RulesInv, InsertAlone
<1>d. w.from # None /\ rules[w.from] # None => rules[w.from].owner # w.owner
  BY DEF RulesInv, Provenance
<1> HIDE DEF id, w
<1>0. rules \in [RuleIds -> Coll!Rule \cup {None}] /\ DOMAIN listReq = Procs
  BY DEF RulesInv, RuleTypes
<1>1. /\ DOMAIN listReq' = Procs /\ listReq'[p] = Coll!NoRequest
      /\ \A q \in Procs : q # p => listReq'[q] = listReq[q]
  BY <1>0, OneMoves
<1>2. /\ rules' \in [RuleIds -> Coll!Rule \cup {None}] /\ rules'[id] = w
      /\ \A x \in RuleIds : x # id => rules'[x] = rules[x]
  BY <1>0, <1>a DEF RuleOK, id, w
<1>3. \A q \in Procs : /\ (OnRule(q)' => OnRule(q)) /\ (Inserting(q)' => Inserting(q)) /\ (Changing(q)' => Changing(q))
                       /\ OnRule(q)' \/ Inserting(q)' \/ Changing(q)' => q # p /\ listReq'[q] = listReq[q]
  BY <1>1 DEF OnRule, Inserting, Changing, RuleSteps, Coll!NoRequest
<1>4. RuleTypes'
  <2>1. \A x \in RuleIds : rules'[x] # None => RuleOK(rules'[x]) /\ x \in given
    BY <1>2, <1>a DEF RulesInv, RuleTypes
  <2>2. \A v : RuleOK(v)' = RuleOK(v)
    BY DEF RuleOK, Coll!Rule
  <2>3. Coll!Rule' = Coll!Rule
    BY DEF Coll!Rule
  <2> QED BY <1>1, <1>2, <1>3, <2>1, <2>2, <2>3 DEF RulesInv, RuleTypes
<1>5. InsertAlone'
  <2> SUFFICES ASSUME NEW q \in Procs, Inserting(q)'
               PROVE  /\ rules'[listReq'[q].id] = None
                      /\ \A o \in Procs : OnRule(o)' /\ o # q => listReq'[o].id # listReq'[q].id
                      /\ \A o \in Procs : Inserting(o)' => listReq'[o].rule.from # listReq'[q].id
    BY DEF InsertAlone
  <2>1. Inserting(q) /\ OnRule(q) /\ q # p /\ listReq'[q] = listReq[q] /\ listReq[q].id \in RuleIds
    BY <1>3 DEF OnRule, Inserting, RuleSteps, RulesInv, RuleTypes
  <2> QED BY <1>2, <1>3, <1>c, <2>1 DEF RulesInv, InsertAlone
<1>6. Provenance'
  <2>1. ASSUME NEW x \in RuleIds, rules'[x] # None, rules'[x].from # None
        PROVE  rules'[rules'[x].from] # None /\ rules'[rules'[x].from].owner # rules'[x].owner
    <3>1. CASE x = id
      <4>1. w.from \in RuleIds /\ w.from # id
        BY <1>2, <1>a, <2>1, <3>1 DEF RuleOK, Coll!Rule
      <4> QED BY <1>2, <1>a, <1>d, <2>1, <3>1, <4>1
    <3>2. CASE x # id
      <4>1. /\ rules'[x] = rules[x] /\ rules[x].from \in RuleIds
            /\ rules[rules[x].from] # None /\ rules[rules[x].from].owner # rules[x].owner
        BY <1>0, <1>2, <2>1, <3>2 DEF RulesInv, Provenance, Coll!Rule
      <4>2. rules[x].from # id
        BY <1>a, <4>1
      <4> QED BY <1>2, <4>1, <4>2
    <3> QED BY <3>1, <3>2
  <2>2. ASSUME NEW q \in Procs, Inserting(q)', listReq'[q].rule.from # None,
               rules'[listReq'[q].rule.from] # None
        PROVE  rules'[listReq'[q].rule.from].owner # listReq'[q].rule.owner
    <3>1. Inserting(q) /\ listReq'[q] = listReq[q] /\ listReq[q].rule.from # id
      BY <1>3, <1>b, <2>2
    <3>2. listReq[q].rule.from \in RuleIds
      BY <2>2, <3>1 DEF RulesInv, RuleTypes, RuleOK, Coll!Rule
    <3> QED BY <1>2, <2>2, <3>1, <3>2 DEF RulesInv, Provenance
  <2> QED BY <2>1, <2>2 DEF Provenance
<1>7. RuleQuota'
  <2> SUFFICES ASSUME NEW v \in Accounts
               PROVE  Cardinality(RulesOf(v)') + Cardinality(NewRules(v)') <= MaxRulesPerUser + Cardinality(Procs) - 1
    BY DEF RuleQuota
  <2>0. Cardinality(RulesOf(v)) + Cardinality(NewRules(v)) <= MaxRulesPerUser + Cardinality(Procs) - 1
    BY DEF RulesInv, RuleQuota
  <2>1. CASE v = w.owner
    <3>1. RulesOf(v)' = RulesOf(v) \cup {id} /\ id \notin RulesOf(v)
      BY <1>2, <1>a, <2>1 DEF RulesOf
    <3>2. Cardinality(RulesOf(v)') = Cardinality(RulesOf(v)) + 1
      BY <3>1, QuotaSets, FS_AddElement
    <3>3. NewRules(v)' = NewRules(v) \ {p}
      BY <1>1, <1>3 DEF NewRules, Inserting
    <3>4. p \in NewRules(v)
      BY <2>1 DEF NewRules, w
    <3>5. Cardinality(NewRules(v)') = Cardinality(NewRules(v)) - 1
      BY <3>3, <3>4, QuotaSets, FS_RemoveElement
    <3> QED BY <2>0, <3>2, <3>5, QuotaSets, CollectionsAssumption
  <2>2. CASE v # w.owner
    <3>1. RulesOf(v)' = RulesOf(v)
      BY <1>2, <1>a, <2>2 DEF RulesOf
    <3>2. NewRules(v)' = NewRules(v)
      BY <1>1, <1>3, <2>2 DEF NewRules, Inserting, w
    <3> QED BY <2>0, <3>1, <3>2
  <2> QED BY <2>1, <2>2
<1>8. \A x \in RuleIds : rules'[x] # None /\ rules'[x].token # None => rules'[x] = rules[x]
  BY <1>2, <1>a
<1>9. TokensNameOne'
  BY <1>3, <1>8 DEF RulesInv, TokensNameOne
<1>10. TokensNew'
  BY <1>3, <1>8 DEF RulesInv, TokensNew, NewToken
<1>11. RevokedInStale'
  BY <1>2, <1>a DEF RulesInv, RevokedInStale
<1> QED BY <1>4, <1>5, <1>6, <1>7, <1>9, <1>10, <1>11 DEF RulesInv

\* A rule is written back whole: what it opens afterwards is what its token opened before, a
\* token no other request knows, or something stale.
LEMMA RuleRewritten ==
  ASSUME RulesInv, NEW p \in Procs, Changing(p), rules[listReq[p].id] # None,
         rules' = [rules EXCEPT ![listReq[p].id] = [listReq[p].rule EXCEPT !.owner = rules[listReq[p].id].owner,
                                                                          !.from = rules[listReq[p].id].from]],
         stale' = IF rules[listReq[p].id] # listReq[p].seen THEN stale \cup {listReq[p].id} ELSE stale,
         revoked' = revoked \cup (IF listReq[p].rule.token = None THEN {rules[listReq[p].id].token} \ {None} ELSE {}),
         listReq' = [listReq EXCEPT ![p] = Coll!NoRequest], UNCHANGED given
  PROVE  RulesInv'
<1> DEFINE id == listReq[p].id
           w == listReq[p].rule
           v == [w EXCEPT !.owner = rules[id].owner, !.from = rules[id].from]
           t == listReq[p].token
<1>a. /\ id \in RuleIds /\ id \in given /\ RuleOK(w) /\ t = w.token /\ rules[id] \in Coll!Rule /\ rules[id] # None
      /\ OnRule(p) /\ ~Inserting(p) /\ None \notin revoked
  BY DEF RulesInv, RuleTypes, OnRule, Inserting, Changing, RuleSteps, RuleOK
<1>b. RuleOK(v) /\ v.owner = rules[id].owner /\ v.from = rules[id].from /\ v.token = t /\ v # None
  <2> DEFINE o == rules[id]
  <2>1. v = [w EXCEPT !.owner = o.owner, !.from = o.from]
    OBVIOUS
  <2>2. RuleOK(w) /\ o \in Coll!Rule
    BY <1>a
  <2>3. t = w.token
    BY <1>a
  <2> HIDE DEF id, w, t, v, o
  <2>4. RuleOK(v) /\ v.owner = o.owner /\ v.from = o.from /\ v.token = w.token /\ v # None
    BY <2>1, <2>2, CollectionsAssumption, ZenonT(60) DEF RuleOK, Coll!Rule
  <2> QED BY <2>3, <2>4 DEF o
<1>0. rules \in [RuleIds -> Coll!Rule \cup {None}] /\ DOMAIN listReq = Procs
  BY DEF RulesInv, RuleTypes
<1>r. /\ rules' = [rules EXCEPT ![id] = v]
      /\ stale' = IF rules[id] # listReq[p].seen THEN stale \cup {id} ELSE stale
      /\ revoked' = revoked \cup (IF t = None THEN {rules[id].token} \ {None} ELSE {})
  BY <1>a
<1> HIDE DEF id, w, v, t
<1>1. /\ DOMAIN listReq' = Procs /\ listReq'[p] = Coll!NoRequest
      /\ \A q \in Procs : q # p => listReq'[q] = listReq[q]
  BY <1>0, OneMoves
<1>2. /\ rules' \in [RuleIds -> Coll!Rule \cup {None}] /\ rules'[id] = v
      /\ \A x \in RuleIds : x # id => rules'[x] = rules[x]
  <2>1. v \in Coll!Rule \cup {None}
    BY <1>b DEF RuleOK
  <2> QED BY <1>0, <1>a, <1>r, <2>1, ZenonT(60)
<1>t. /\ \A x, y \in RuleIds : rules[x] # None /\ rules[y] # None /\ rules[x].token = rules[y].token /\ rules[x].token # None
           => x = y
      /\ \A q \in Procs, x \in RuleIds :
           Changing(q) /\ listReq[q].token # None /\ rules[x] # None /\ rules[x].token = listReq[q].token => x = listReq[q].id
  BY DEF RulesInv, TokensNameOne
<1>3. \A q \in Procs : /\ (OnRule(q)' => OnRule(q)) /\ (Inserting(q)' => Inserting(q)) /\ (Changing(q)' => Changing(q))
                       /\ OnRule(q)' \/ Inserting(q)' \/ Changing(q)' => q # p /\ listReq'[q] = listReq[q]
  BY <1>1 DEF OnRule, Inserting, Changing, RuleSteps, Coll!NoRequest
<1>4. RuleTypes'
  <2>1. \A x \in RuleIds : rules'[x] # None => RuleOK(rules'[x]) /\ x \in given
    BY <1>2, <1>a, <1>b DEF RulesInv, RuleTypes
  <2>2. \A o : RuleOK(o)' = RuleOK(o)
    BY DEF RuleOK, Coll!Rule
  <2>3. Coll!Rule' = Coll!Rule /\ None \notin revoked'
    BY <1>a, <1>r DEF Coll!Rule
  <2> QED BY <1>1, <1>2, <1>3, <2>1, <2>2, <2>3 DEF RulesInv, RuleTypes
<1>5. \A x \in RuleIds : /\ (rules'[x] = None) = (rules[x] = None)
                         /\ rules[x] # None => rules'[x].owner = rules[x].owner /\ rules'[x].from = rules[x].from
  BY <1>2, <1>a, <1>b
<1>6. InsertAlone'
  <2> SUFFICES ASSUME NEW q \in Procs, Inserting(q)'
               PROVE  /\ rules'[listReq'[q].id] = None
                      /\ \A o \in Procs : OnRule(o)' /\ o # q => listReq'[o].id # listReq'[q].id
                      /\ \A o \in Procs : Inserting(o)' => listReq'[o].rule.from # listReq'[q].id
    BY DEF InsertAlone
  <2>1. Inserting(q) /\ OnRule(q) /\ q # p /\ listReq'[q] = listReq[q] /\ listReq[q].id \in RuleIds
    BY <1>3 DEF OnRule, Inserting, RuleSteps, RulesInv, RuleTypes
  <2> QED BY <1>3, <1>5, <2>1 DEF RulesInv, InsertAlone
<1>7. Provenance'
  <2>1. ASSUME NEW x \in RuleIds, rules'[x] # None, rules'[x].from # None
        PROVE  rules'[rules'[x].from] # None /\ rules'[rules'[x].from].owner # rules'[x].owner
    <3>1. /\ rules[x] # None /\ rules'[x].from = rules[x].from /\ rules'[x].owner = rules[x].owner
          /\ rules[x].from \in RuleIds
      BY <1>0, <1>5, <2>1 DEF Coll!Rule
    <3> QED BY <1>5, <2>1, <3>1 DEF RulesInv, Provenance
  <2>2. ASSUME NEW q \in Procs, Inserting(q)', listReq'[q].rule.from # None,
               rules'[listReq'[q].rule.from] # None
        PROVE  rules'[listReq'[q].rule.from].owner # listReq'[q].rule.owner
    <3>1. Inserting(q) /\ listReq'[q] = listReq[q]
      BY <1>3, <2>2
    <3>2. listReq[q].rule.from \in RuleIds
      BY <2>2, <3>1 DEF RulesInv, RuleTypes, RuleOK, Coll!Rule
    <3> QED BY <1>5, <2>2, <3>1, <3>2 DEF RulesInv, Provenance
  <2> QED BY <2>1, <2>2 DEF Provenance
<1>8. RuleQuota'
  <2>1. \A u : RulesOf(u)' = RulesOf(u)
    BY <1>5 DEF RulesOf
  <2>2. \A u : NewRules(u)' = NewRules(u)
    BY <1>1, <1>3, <1>a DEF NewRules, Inserting
  <2> QED BY <2>1, <2>2 DEF RulesInv, RuleQuota
<1>9. /\ \A x \in RuleIds : t # None /\ rules[x] # None /\ rules[x].token = t => x = id
      /\ \A q \in Procs : Changing(q) /\ t # None /\ listReq[q].token = t => listReq[q].id = id
  BY DEF RulesInv, TokensNameOne, id, t
<1>10. TokensNameOne'
  <2>1. ASSUME NEW x \in RuleIds, NEW y \in RuleIds, rules'[x] # None, rules'[y] # None,
               rules'[x].token = rules'[y].token, rules'[x].token # None
        PROVE  x = y
    <3>1. CASE x # id /\ y # id
      <4>1. rules'[x] = rules[x] /\ rules'[y] = rules[y]
        BY <1>2, <3>1
      <4> QED BY <1>t, <2>1, <4>1
    <3>2. CASE x = id /\ y # id
      BY <1>2, <1>b, <1>9, <2>1, <3>2, ZenonT(60)
    <3>3. CASE x # id /\ y = id
      BY <1>2, <1>b, <1>9, <2>1, <3>3, ZenonT(60)
    <3> QED BY <3>1, <3>2, <3>3
  <2>2. ASSUME NEW q \in Procs, NEW x \in RuleIds, Changing(q)', listReq'[q].token # None, rules'[x] # None,
               rules'[x].token = listReq'[q].token
        PROVE  x = listReq'[q].id
    <3>1. Changing(q) /\ listReq'[q] = listReq[q]
      BY <1>3, <2>2
    <3>2. CASE x = id
      BY <1>2, <1>b, <1>9, <2>2, <3>1, <3>2, ZenonT(60)
    <3>3. CASE x # id
      <4>1. rules'[x] = rules[x]
        BY <1>2, <3>3
      <4> QED BY <1>t, <2>2, <3>1, <4>1
    <3> QED BY <3>2, <3>3
  <2>3. \A q, o \in Procs :
          Changing(q)' /\ Changing(o)' /\ listReq'[q].token # None /\ listReq'[q].token = listReq'[o].token
          => listReq'[q].id = listReq'[o].id
    BY <1>3 DEF RulesInv, TokensNameOne
  <2> QED BY <2>1, <2>2, <2>3 DEF TokensNameOne
<1>11. TokensNew'
  <2> SUFFICES ASSUME NEW q \in Procs, Changing(q)', listReq'[q].token # None, listReq'[q].seen.token # listReq'[q].token
               PROVE  NewToken(q)'
    BY DEF TokensNew
  <2>1. Changing(q) /\ q # p /\ listReq'[q] = listReq[q] /\ NewToken(q)
    BY <1>3 DEF RulesInv, TokensNew
  <2>2. listReq[q].token # t /\ listReq[q].token # rules[id].token
    BY <1>a, <2>1 DEF NewToken, t
  <2>3. listReq[q].token \notin revoked'
    BY <1>r, <2>1, <2>2 DEF NewToken
  <2>4. \A x \in RuleIds : rules'[x] # None => rules'[x].token # listReq[q].token
    BY <1>2, <1>b, <2>1, <2>2, ZenonT(60) DEF NewToken
  <2> QED BY <1>3, <2>1, <2>3, <2>4 DEF NewToken
<1>12. RevokedInStale'
  <2> SUFFICES ASSUME NEW x \in RuleIds, rules'[x] # None, rules'[x].token \in revoked'
               PROVE  x \in stale'
    BY DEF RevokedInStale
  <2>1. CASE x # id
    <3>0. None \notin revoked'
      BY <1>a, <1>r
    <3>1. rules'[x] = rules[x] /\ rules[x].token # None
      BY <1>2, <2>1, <3>0
    <3>2. rules[x].token # rules[id].token
      BY <1>2, <1>a, <1>t, <2>1, <3>1
    <3>3. rules[x].token \in revoked
      BY <1>r, <3>1, <3>2
    <3> QED BY <1>2, <1>r, <2>1, <3>1, <3>3 DEF RulesInv, RevokedInStale
  <2>2. CASE x = id
    <3>1. t \in revoked /\ t # None
      <4>1. t \in revoked'
        BY <1>2, <1>b, <2>2
      <4>2. t # None
        BY <1>a, <1>r, <4>1
      <4> QED BY <1>r, <4>1, <4>2
    <3>2. listReq[p].seen.token = t
      BY <3>1 DEF RulesInv, TokensNew, NewToken, t
    <3>3. CASE rules[id] = listReq[p].seen
      BY <1>a, <1>r, <2>2, <3>1, <3>2, <3>3 DEF RulesInv, RevokedInStale
    <3> QED BY <1>r, <2>2, <3>3
  <2> QED BY <2>1, <2>2
<1> QED BY <1>4, <1>6, <1>7, <1>8, <1>10, <1>11, <1>12 DEF RulesInv

\* A rule is deleted: its token is revoked, and what was imported from it loses its source.
LEMMA RuleDeleted ==
  ASSUME RulesInv, NEW p \in Procs, listReq[p].step = "ruleDelete", rules[listReq[p].id] # None,
         rules' = [x \in RuleIds |-> IF x = listReq[p].id THEN None
                      ELSE IF rules[x] # None /\ rules[x].from = listReq[p].id
                           THEN [rules[x] EXCEPT !.from = None] ELSE rules[x]],
         revoked' = revoked \cup ({rules[listReq[p].id].token} \ {None}),
         listReq' = [listReq EXCEPT ![p] = Coll!NoRequest], UNCHANGED <<stale, given>>
  PROVE  RulesInv'
<1> DEFINE id == listReq[p].id
<1>a. /\ id \in RuleIds /\ rules[id] # None /\ OnRule(p) /\ ~Inserting(p) /\ ~Changing(p) /\ None \notin revoked
  BY DEF RulesInv, RuleTypes, OnRule, Inserting, Changing, RuleSteps
<1>0. rules \in [RuleIds -> Coll!Rule \cup {None}] /\ DOMAIN listReq = Procs
  BY DEF RulesInv, RuleTypes
<1>r. /\ rules' = [x \in RuleIds |-> IF x = id THEN None
                      ELSE IF rules[x] # None /\ rules[x].from = id
                           THEN [rules[x] EXCEPT !.from = None] ELSE rules[x]]
      /\ revoked' = revoked \cup ({rules[id].token} \ {None})
  OBVIOUS
<1> HIDE DEF id
<1>1. /\ DOMAIN listReq' = Procs /\ listReq'[p] = Coll!NoRequest
      /\ \A q \in Procs : q # p => listReq'[q] = listReq[q]
  BY <1>0, OneMoves
<1>2. /\ rules'[id] = None
      /\ \A x \in RuleIds : rules'[x] # None => /\ x # id /\ rules[x] # None
                                                /\ rules'[x] = rules[x] \/ rules'[x] = [rules[x] EXCEPT !.from = None]
      /\ \A x \in RuleIds : x # id /\ rules[x] # None => rules'[x] # None
  <2>1. \A x \in RuleIds : rules[x] # None => [rules[x] EXCEPT !.from = None] # None
    BY <1>0, CollectionsAssumption DEF Coll!Rule
  <2> QED BY <1>r, <1>a, <2>1
<1>3. \A x \in RuleIds : rules'[x] # None =>
         /\ RuleOK(rules'[x]) /\ rules'[x].owner = rules[x].owner /\ rules'[x].token = rules[x].token
         /\ rules'[x].from # None => rules'[x].from = rules[x].from /\ rules[x].from # id
  <2> SUFFICES ASSUME NEW x \in RuleIds, rules'[x] # None
               PROVE  /\ RuleOK(rules'[x]) /\ rules'[x].owner = rules[x].owner /\ rules'[x].token = rules[x].token
                      /\ rules'[x].from # None => rules'[x].from = rules[x].from /\ rules[x].from # id
    OBVIOUS
  <2>1. RuleOK(rules[x]) /\ rules[x] # None /\ x # id
    BY <1>2 DEF RulesInv, RuleTypes
  <2> DEFINE o == rules[x]
             n == [o EXCEPT !.from = None]
  <2>2. RuleOK(n) /\ n.owner = o.owner /\ n.token = o.token /\ n.from = None
    BY <2>1 DEF RuleOK, Coll!Rule
  <2>3. rules'[x] = IF o.from = id THEN n ELSE o
    BY <1>r, <2>1
  <2> HIDE DEF n
  <2> QED BY <2>1, <2>2, <2>3
<1>4. \A q \in Procs : /\ (OnRule(q)' => OnRule(q)) /\ (Inserting(q)' => Inserting(q)) /\ (Changing(q)' => Changing(q))
                       /\ OnRule(q)' \/ Inserting(q)' \/ Changing(q)' => q # p /\ listReq'[q] = listReq[q]
  BY <1>1 DEF OnRule, Inserting, Changing, RuleSteps, Coll!NoRequest
<1>5. RuleTypes'
  <2>1. rules' \in [RuleIds -> Coll!Rule \cup {None}]
    <3>1. \A x \in RuleIds : rules'[x] \in Coll!Rule \cup {None}
      BY <1>3 DEF RuleOK
    <3> QED BY <1>r, <3>1
  <2>2. \A o : RuleOK(o)' = RuleOK(o)
    BY DEF RuleOK, Coll!Rule
  <2>3. Coll!Rule' = Coll!Rule /\ None \notin revoked'
    BY <1>a, <1>r DEF Coll!Rule
  <2>4. \A x \in RuleIds : rules'[x] # None => RuleOK(rules'[x]) /\ x \in given
    BY <1>2, <1>3 DEF RulesInv, RuleTypes
  <2> QED BY <1>1, <1>4, <2>1, <2>2, <2>3, <2>4 DEF RulesInv, RuleTypes
<1>6. InsertAlone'
  <2> SUFFICES ASSUME NEW q \in Procs, Inserting(q)'
               PROVE  /\ rules'[listReq'[q].id] = None
                      /\ \A o \in Procs : OnRule(o)' /\ o # q => listReq'[o].id # listReq'[q].id
                      /\ \A o \in Procs : Inserting(o)' => listReq'[o].rule.from # listReq'[q].id
    BY DEF InsertAlone
  <2>1. Inserting(q) /\ OnRule(q) /\ q # p /\ listReq'[q] = listReq[q] /\ listReq[q].id \in RuleIds
    BY <1>4, SMTT(60) DEF OnRule, Inserting, RuleSteps, RulesInv, RuleTypes
  <2> QED BY <1>2, <1>4, <2>1 DEF RulesInv, InsertAlone
<1>7. Provenance'
  <2>1. ASSUME NEW x \in RuleIds, rules'[x] # None, rules'[x].from # None
        PROVE  rules'[rules'[x].from] # None /\ rules'[rules'[x].from].owner # rules'[x].owner
    <3>0. rules[x] # None /\ rules'[x].from = rules[x].from /\ rules[x].from # id /\ rules'[x].owner = rules[x].owner
      BY <1>2, <1>3, <2>1
    <3>1. rules[x].from \in RuleIds
      BY <1>0, <2>1, <3>0 DEF Coll!Rule
    <3> QED BY <1>2, <1>3, <2>1, <3>0, <3>1 DEF RulesInv, Provenance
  <2>2. ASSUME NEW q \in Procs, Inserting(q)', listReq'[q].rule.from # None,
               rules'[listReq'[q].rule.from] # None
        PROVE  rules'[listReq'[q].rule.from].owner # listReq'[q].rule.owner
    <3>1. Inserting(q) /\ listReq'[q] = listReq[q]
      BY <1>4, <2>2
    <3>2. listReq[q].rule.from \in RuleIds
      BY <2>2, <3>1 DEF RulesInv, RuleTypes, RuleOK, Coll!Rule
    <3> QED BY <1>2, <1>3, <2>2, <3>1, <3>2 DEF RulesInv, Provenance
  <2> QED BY <2>1, <2>2 DEF Provenance
<1>8. RuleQuota'
  <2>1. \A u : RulesOf(u)' \subseteq RulesOf(u)
    BY <1>2, <1>3 DEF RulesOf
  <2>2. \A u : NewRules(u)' = NewRules(u)
    BY <1>1, <1>4, <1>a DEF NewRules, Inserting
  <2>3. \A u : Cardinality(RulesOf(u)') <= Cardinality(RulesOf(u)) /\ Cardinality(RulesOf(u)') \in Nat
    BY <2>1, QuotaSets, FS_Subset, FS_CardinalityType
  <2> QED BY <2>2, <2>3, QuotaSets, CollectionsAssumption DEF RulesInv, RuleQuota
<1>9. TokensNameOne'
  BY <1>2, <1>3, <1>4 DEF RulesInv, TokensNameOne
<1>10. TokensNew'
  <2> SUFFICES ASSUME NEW q \in Procs, Changing(q)', listReq'[q].token # None, listReq'[q].seen.token # listReq'[q].token
               PROVE  NewToken(q)'
    BY DEF TokensNew
  <2>1. Changing(q) /\ q # p /\ listReq'[q] = listReq[q] /\ NewToken(q)
    BY <1>4 DEF RulesInv, TokensNew
  <2>2. listReq[q].token \notin revoked'
    BY <1>r, <1>a, <2>1 DEF NewToken
  <2>3. \A x \in RuleIds : rules'[x] # None => rules'[x].token # listReq[q].token
    BY <1>2, <1>3, <2>1 DEF NewToken
  <2> QED BY <1>4, <2>1, <2>2, <2>3 DEF NewToken
<1>11. RevokedInStale'
  <2> SUFFICES ASSUME NEW x \in RuleIds, rules'[x] # None, rules'[x].token \in revoked'
               PROVE  x \in stale
    BY DEF RevokedInStale
  <2>1. rules[x] # None /\ x # id /\ rules'[x].token = rules[x].token
    BY <1>2, <1>3
  <2>2. rules[x].token # None => rules[x].token # rules[id].token
    BY <1>a, <2>1 DEF RulesInv, TokensNameOne
  <2>3. rules[x].token \in revoked
    BY <1>r, <1>a, <2>1, <2>2
  <2> QED BY <2>1, <2>3 DEF RulesInv, RevokedInStale
<1> QED BY <1>5, <1>6, <1>7, <1>8, <1>9, <1>10, <1>11 DEF RulesInv

\* What the services change in the copy of a rule.
LEMMA RuleEdits ==
  ASSUME NEW o, RuleOK(o)
  PROVE  /\ \A d \in Definitions : RuleOK([o EXCEPT !.definition = d]) /\ [o EXCEPT !.definition = d].token = o.token
         /\ \A b \in BOOLEAN : RuleOK([o EXCEPT !.enabled = b]) /\ [o EXCEPT !.enabled = b].token = o.token
         /\ \A b \in BOOLEAN : RuleOK([o EXCEPT !.notify = b]) /\ [o EXCEPT !.notify = b].token = o.token
         /\ RuleOK([o EXCEPT !.shared = FALSE, !.token = None]) /\ [o EXCEPT !.shared = FALSE, !.token = None].token = None
         /\ o.token # None => RuleOK([o EXCEPT !.shared = TRUE]) /\ [o EXCEPT !.shared = TRUE].token = o.token
         /\ \A t \in Tokens : RuleOK([o EXCEPT !.shared = TRUE, !.token = t])
                              /\ [o EXCEPT !.shared = TRUE, !.token = t].token = t
<1>1. \A d \in Definitions : RuleOK([o EXCEPT !.definition = d]) /\ [o EXCEPT !.definition = d].token = o.token
  BY DEF RuleOK, Coll!Rule
<1>2. \A b \in BOOLEAN : RuleOK([o EXCEPT !.enabled = b]) /\ [o EXCEPT !.enabled = b].token = o.token
  BY DEF RuleOK, Coll!Rule
<1>3. \A b \in BOOLEAN : RuleOK([o EXCEPT !.notify = b]) /\ [o EXCEPT !.notify = b].token = o.token
  BY DEF RuleOK, Coll!Rule
<1>4. RuleOK([o EXCEPT !.shared = FALSE, !.token = None]) /\ [o EXCEPT !.shared = FALSE, !.token = None].token = None
  BY DEF RuleOK, Coll!Rule
<1>5. o.token # None => RuleOK([o EXCEPT !.shared = TRUE]) /\ [o EXCEPT !.shared = TRUE].token = o.token
  BY DEF RuleOK, Coll!Rule
<1>6. \A t \in Tokens : RuleOK([o EXCEPT !.shared = TRUE, !.token = t])
                        /\ [o EXCEPT !.shared = TRUE, !.token = t].token = t
  BY CollectionsAssumption DEF RuleOK, Coll!Rule
<1> QED BY <1>1, <1>2, <1>3, <1>4, <1>5, <1>6, Zenon

\* A service hands its copy on.
LEMMA RuleChange ==
  ASSUME RulesInv, NEW p \in Procs, NEW id \in RuleIds, rules[id] # None, NEW w, RuleOK(w),
         \/ w.token = None
         \/ w.token = rules[id].token
         \/ /\ w.token \notin revoked /\ \A x \in RuleIds : rules[x] # None => rules[x].token # w.token
            /\ \A q \in Procs : listReq[q].token # w.token,
         Coll!Begin(p, Coll!Change(id, w)), UNCHANGED Coll!stored
  PROVE  RulesInv'
<1>1. Coll!Change(id, w).id = id /\ id # None
  BY CollectionsAssumption DEF Coll!Change
<1>2. /\ Coll!Idle(p) /\ listReq' = [listReq EXCEPT ![p] = Coll!Change(id, w)]
      /\ given' = given \cup ({Coll!Change(id, w).id} \ {None})
  BY DEF Coll!Begin
<1>3. given' = given \cup {id}
  BY <1>1, <1>2
<1>4. UNCHANGED <<rules, revoked, stale>>
  BY DEF Coll!stored
<1> QED BY <1>2, <1>3, <1>4, RuleChangeBegins

LEMMA RuleInsert ==
  ASSUME RulesInv, NEW p \in Procs, NEW u \in Accounts, NEW id \in RuleIds, NEW d \in Definitions, NEW from,
         from = None \/ (from \in RuleIds /\ rules[from] # None /\ rules[from].owner # u),
         Coll!Fresh(id), Coll!checkQuota(u), Coll!Begin(p, Coll!Insertion(id, Coll!NewRule(u, d, from))),
         UNCHANGED Coll!stored
  PROVE  RulesInv'
<1> DEFINE r == Coll!Insertion(id, Coll!NewRule(u, d, from))
<1>1. r.id = id /\ id # None
  BY CollectionsAssumption DEF Coll!Insertion
<1>2. /\ Coll!Idle(p) /\ listReq' = [listReq EXCEPT ![p] = r] /\ given' = given \cup ({r.id} \ {None})
  BY DEF Coll!Begin
<1>3. given' = given \cup {id} /\ id \notin given
  BY <1>1, <1>2 DEF Coll!Fresh
<1>4. UNCHANGED <<rules, revoked, stale>>
  BY DEF Coll!stored
<1>5. Cardinality(RulesOf(u)) < MaxRulesPerUser
  <2>1. Coll!rulesOf(u) = RulesOf(u)
    BY DEF Coll!rulesOf, RulesOf
  <2> QED BY <2>1, CollCardinality DEF Coll!checkQuota
<1> QED BY <1>2, <1>3, <1>4, <1>5, RuleInsertBegins

LEMMA RuleRequestKeeps ==
  ASSUME RulesInv, NEW p \in Procs, Coll!RuleRequest(p)
  PROVE  RulesInv'
<1>0. UNCHANGED Coll!stored
  BY DEF Coll!RuleRequest
<1>a. \A id \in RuleIds : rules[id] # None => RuleOK(rules[id]) /\ rules[id].definition \in Definitions
  BY DEF RulesInv, RuleTypes, RuleOK, Coll!Rule
<1>1. ASSUME Coll!CreateCustomCurrencyRule(p) PROVE RulesInv'
  BY <1>0, <1>1, RuleInsert DEF Coll!CreateCustomCurrencyRule, Coll!CreateRule
<1>2. ASSUME Coll!UpdateCustomCurrencyRule(p) PROVE RulesInv'
  <2>1. PICK u \in Accounts, id \in RuleIds, d \in Definitions :
          rules[id] # None /\ Coll!Begin(p, Coll!Change(id, [rules[id] EXCEPT !.definition = d]))
    BY <1>2 DEF Coll!UpdateCustomCurrencyRule, Coll!UpdateRule, Coll!ownedRule
  <2>2. RuleOK([rules[id] EXCEPT !.definition = d]) /\ [rules[id] EXCEPT !.definition = d].token = rules[id].token
    BY <1>a, <2>1, RuleEdits, Zenon
  <2> QED BY <1>0, <2>1, <2>2, RuleChange
<1>3. ASSUME Coll!SetCustomCurrencyRuleEnabled(p) PROVE RulesInv'
  <2>1. PICK u \in Accounts, id \in RuleIds, b \in BOOLEAN :
          rules[id] # None /\ Coll!Begin(p, Coll!Change(id, [rules[id] EXCEPT !.enabled = b]))
    BY <1>3 DEF Coll!SetCustomCurrencyRuleEnabled, Coll!SetEnabled, Coll!ownedRule
  <2>2. RuleOK([rules[id] EXCEPT !.enabled = b]) /\ [rules[id] EXCEPT !.enabled = b].token = rules[id].token
    BY <1>a, <2>1, RuleEdits, Zenon
  <2> QED BY <1>0, <2>1, <2>2, RuleChange
<1>4. ASSUME Coll!SetCustomCurrencyRuleNotify(p) PROVE RulesInv'
  <2>1. PICK u \in Accounts, id \in RuleIds, b \in BOOLEAN :
          rules[id] # None /\ Coll!Begin(p, Coll!Change(id, [rules[id] EXCEPT !.notify = b]))
    BY <1>4 DEF Coll!SetCustomCurrencyRuleNotify, Coll!SetNotify, Coll!ownedRule
  <2>2. RuleOK([rules[id] EXCEPT !.notify = b]) /\ [rules[id] EXCEPT !.notify = b].token = rules[id].token
    BY <1>a, <2>1, RuleEdits, Zenon
  <2> QED BY <1>0, <2>1, <2>2, RuleChange
<1>5. ASSUME Coll!setCustomCurrencyShare(p) PROVE RulesInv'
  <2>1. PICK u \in Accounts, id \in RuleIds, shared \in BOOLEAN : Coll!SetShared(p, u, id, shared)
    BY <1>5 DEF Coll!setCustomCurrencyShare
  <2>2. rules[id] # None
    BY <2>1, Zenon DEF Coll!SetShared, Coll!ownedRule
  <2>3. CASE Coll!Begin(p, Coll!Change(id, [rules[id] EXCEPT !.shared = FALSE, !.token = None]))
    <3>1. /\ RuleOK([rules[id] EXCEPT !.shared = FALSE, !.token = None])
          /\ [rules[id] EXCEPT !.shared = FALSE, !.token = None].token = None
      BY <1>a, <2>2, RuleEdits, Zenon
    <3> QED BY <1>0, <2>2, <2>3, <3>1, RuleChange
  <2>4. CASE rules[id].token # None /\ Coll!Begin(p, Coll!Change(id, [rules[id] EXCEPT !.shared = TRUE]))
    <3>1. RuleOK([rules[id] EXCEPT !.shared = TRUE]) /\ [rules[id] EXCEPT !.shared = TRUE].token = rules[id].token
      BY <1>a, <2>2, <2>4, RuleEdits, Zenon
    <3> QED BY <1>0, <2>2, <2>4, <3>1, RuleChange
  <2>5. CASE \E t \in Tokens :
               /\ t \notin revoked /\ \A x \in RuleIds : rules[x] # None => rules[x].token # t
               /\ \A q \in Procs : listReq[q].token # t
               /\ Coll!Begin(p, Coll!Change(id, [rules[id] EXCEPT !.shared = TRUE, !.token = t]))
    <3>1. PICK t \in Tokens :
               /\ t \notin revoked /\ \A x \in RuleIds : rules[x] # None => rules[x].token # t
               /\ \A q \in Procs : listReq[q].token # t
               /\ Coll!Begin(p, Coll!Change(id, [rules[id] EXCEPT !.shared = TRUE, !.token = t]))
      BY <2>5, Zenon
    <3>2. /\ RuleOK([rules[id] EXCEPT !.shared = TRUE, !.token = t])
          /\ [rules[id] EXCEPT !.shared = TRUE, !.token = t].token = t
      BY <1>a, <2>2, RuleEdits, Zenon
    <3> QED BY <1>0, <2>2, <3>1, <3>2, RuleChange
  <2> QED BY <2>1, <2>3, <2>4, <2>5, Zenon DEF Coll!SetShared
<1>6. ASSUME Coll!ImportSharedCustomCurrencyRule(p) PROVE RulesInv'
  <2>1. PICK u \in Accounts, id \in RuleIds, t \in Tokens : Coll!ImportRule(p, u, id, t)
    BY <1>6 DEF Coll!ImportSharedCustomCurrencyRule
  <2>2. PICK src \in Coll!GetByShareToken(t) :
          /\ rules[src].owner # u /\ Coll!Fresh(id) /\ Coll!checkQuota(u)
          /\ Coll!Begin(p, Coll!Insertion(id, Coll!NewRule(u, rules[src].definition, src)))
    BY <2>1 DEF Coll!ImportRule
  <2>3. src \in RuleIds /\ rules[src] # None
    BY DEF Coll!GetByShareToken
  <2>4. rules[src].definition \in Definitions
    BY <1>a, <2>3
  <2> QED BY <1>0, <2>2, <2>3, <2>4, RuleInsert
<1>7. ASSUME Coll!DeleteCustomCurrencyRule(p) PROVE RulesInv'
  <2>1. PICK u \in Accounts, id \in RuleIds : Coll!DeleteRule(p, u, id)
    BY <1>7 DEF Coll!DeleteCustomCurrencyRule
  <2> DEFINE r == [step |-> "ruleDelete", id |-> id, token |-> None]
  <2>2. /\ rules[id] # None /\ Coll!Idle(p) /\ listReq' = [listReq EXCEPT ![p] = r]
        /\ given' = given \cup ({r.id} \ {None})
    BY <2>1 DEF Coll!DeleteRule, Coll!ownedRule, Coll!Begin
  <2>3. given' = given \cup {id}
    BY <2>2, CollectionsAssumption
  <2>4. UNCHANGED <<rules, revoked, stale>>
    BY <1>0 DEF Coll!stored
  <2> QED BY <2>2, <2>3, <2>4, RuleDeleteBegins
<1> QED BY <1>1, <1>2, <1>3, <1>4, <1>5, <1>6, <1>7 DEF Coll!RuleRequest

LEMMA RuleWriteKeeps ==
  ASSUME RulesInv, NEW p \in Procs, Coll!RuleWrite(p)
  PROVE  RulesInv'
<1>0. Coll!NoRequest.step \notin RuleSteps
  BY DEF Coll!NoRequest, RuleSteps
<1>1. CASE Coll!Refuse(p)
  <2>1. listReq' = [listReq EXCEPT ![p] = Coll!NoRequest] /\ UNCHANGED <<rules, revoked, stale, given>>
    BY <1>1 DEF Coll!Refuse, Coll!Answer, Coll!Go, Coll!stored
  <2> QED BY <1>0, <2>1, RuleGivesUp
<1>2. CASE listReq[p].step = "ruleInsert" /\ ~Coll!ImportedFromGone(p) /\ Coll!ruleInsert(p)
  <2>1. Inserting(p)
    BY <1>2 DEF Inserting
  <2>2. /\ rules' = [rules EXCEPT ![listReq[p].id] = listReq[p].rule]
        /\ listReq' = [listReq EXCEPT ![p] = Coll!NoRequest] /\ UNCHANGED <<revoked, stale, given>>
    BY <1>2 DEF Coll!ruleInsert, Coll!Answer, Coll!Go
  <2> QED BY <1>2, <2>1, <2>2, RuleStored
<1>3. CASE listReq[p].step = "ruleUpdate" /\ Coll!ruleUpdate(p) /\ rules[listReq[p].id] # None
  <2>1. Changing(p)
    BY <1>3 DEF Changing
  <2>2. /\ rules' = [rules EXCEPT ![listReq[p].id] = [listReq[p].rule EXCEPT !.owner = rules[listReq[p].id].owner,
                                                                          !.from = rules[listReq[p].id].from]]
        /\ stale' = IF rules[listReq[p].id] # listReq[p].seen THEN stale \cup {listReq[p].id} ELSE stale
        /\ revoked' = revoked \cup (IF listReq[p].rule.token = None THEN {rules[listReq[p].id].token} \ {None} ELSE {})
        /\ listReq' = [listReq EXCEPT ![p] = Coll!NoRequest] /\ UNCHANGED given
    BY <1>3, Zenon DEF Coll!ruleUpdate, Coll!Answer, Coll!Go
  <2> QED BY <1>3, <2>1, <2>2, RuleRewritten, Zenon
<1>4. CASE listReq[p].step = "ruleDelete" /\ Coll!ruleDelete(p) /\ rules[listReq[p].id] # None
  <2>2. /\ rules' = [x \in RuleIds |-> IF x = listReq[p].id THEN None
                      ELSE IF rules[x] # None /\ rules[x].from = listReq[p].id
                           THEN [rules[x] EXCEPT !.from = None] ELSE rules[x]]
        /\ revoked' = revoked \cup ({rules[listReq[p].id].token} \ {None})
        /\ listReq' = [listReq EXCEPT ![p] = Coll!NoRequest] /\ UNCHANGED <<stale, given>>
    BY <1>4, Zenon DEF Coll!ruleDelete, Coll!Answer, Coll!Go
  <2> QED BY <1>4, <2>2, RuleDeleted
<1>5. CASE listReq[p].step = "ruleUpdate" /\ Coll!ruleUpdate(p) /\ rules[listReq[p].id] = None
  BY <1>1, <1>5 DEF Coll!ruleUpdate
<1>6. CASE listReq[p].step = "ruleDelete" /\ Coll!ruleDelete(p) /\ rules[listReq[p].id] = None
  BY <1>1, <1>6 DEF Coll!ruleDelete
<1> QED BY <1>1, <1>2, <1>3, <1>4, <1>5, <1>6, Zenon DEF Coll!RuleWrite

\* A set of numbers has a least one; the proofs by induction below pick a least counterexample.
LEMMA LeastNat ==
  ASSUME NEW T \in SUBSET Nat, T # {}
  PROVE  \E n \in T : \A m \in T : n <= m
<1> DEFINE R == OpToRel(<, Nat)
<1>1. \E x \in T : \A y \in T : ~(<<y, x>> \in R)
  BY NatLessThanWellFounded, WFMin, Zenon
<1>2. \A x, y \in Nat : (<<y, x>> \in R) <=> y < x
  BY Zenon DEF OpToRel
<1> HIDE DEF R
<1>3. PICK x \in T : \A y \in T : ~(<<y, x>> \in R)
  BY <1>1
<1>4. \A y \in T : ~(y < x)
  BY <1>2, <1>3
<1>5. \A y \in T : x <= y
  BY <1>4
<1> QED BY <1>5

\* A finite set of numbers has a greatest one: by induction on its size.
LEMMA Greatest ==
  ASSUME NEW S \in SUBSET Nat, IsFiniteSet(S), S # {}
  PROVE  \E x \in S : \A y \in S : x >= y
<1> DEFINE Bad == {n \in Nat : \E A \in SUBSET Nat : IsFiniteSet(A) /\ A # {} /\ Cardinality(A) = n /\ ~ \E x \in A : \A y \in A : x >= y}
<1>1. Bad = {}
  <2> SUFFICES ASSUME Bad # {} PROVE FALSE
    OBVIOUS
  <2>1. PICK n \in Bad : \A m \in Bad : n <= m
    <3>1. Bad \in SUBSET Nat
      OBVIOUS
    <3> HIDE DEF Bad
    <3> QED BY <3>1, LeastNat
  <2>2. PICK A \in SUBSET Nat : IsFiniteSet(A) /\ A # {} /\ Cardinality(A) = n /\ ~ \E x \in A : \A y \in A : x >= y
    BY <2>1
  <2>3. PICK a \in A : TRUE
    BY <2>2
  <2>4. IsFiniteSet(A \ {a}) /\ Cardinality(A \ {a}) = n - 1 /\ n \in Nat
    BY <2>2, <2>3, FS_RemoveElement, FS_CardinalityType
  <2>5. A \ {a} # {}
    BY <2>2, <2>3
  <2>6. n - 1 \in Nat
    BY <2>4, FS_CardinalityType
  <2>7. n - 1 \notin Bad
    BY <2>1, <2>4, <2>6
  <2>8. \E x \in A \ {a} : \A y \in A \ {a} : x >= y
    BY <2>4, <2>5, <2>6, <2>7
  <2> QED BY <2>2, <2>3, <2>8
<1>2. Cardinality(S) \in Nat
  BY FS_CardinalityType
<1>3. \E x \in S : \A y \in S : x >= y
  BY <1>1, <1>2
<1> QED BY <1>3

LEMMA FiniteMax ==
  ASSUME NEW S \in SUBSET Nat, IsFiniteSet(S), S # {}
  PROVE  Coll!Max(S) \in S /\ \A y \in S : y <= Coll!Max(S)
BY Greatest DEF Coll!Max

LEMMA RecMax ==
  ASSUME NEW S \in SUBSET Nat, IsFiniteSet(S), S # {}
  PROVE  Rec!Max(S) \in S /\ \A y \in S : y <= Rec!Max(S)
BY Greatest DEF Rec!Max

\* One more than the greatest is past all of them.
LEMMA NextPosition ==
  ASSUME NEW S \in SUBSET Nat, IsFiniteSet(S), NEW pos, pos = IF S = {} THEN 0 ELSE Coll!Max(S) + 1
  PROVE  pos \in Nat /\ \A y \in S : y < pos
<1>1. CASE S = {}
  BY <1>1
<1>2. CASE S # {}
  <2>1. PICK m \in Nat : m = Coll!Max(S) /\ \A y \in S : y <= m
    BY <1>2, FiniteMax
  <2>2. pos = m + 1
    BY <1>2, <2>1
  <2>3. \A y \in S : y \in Nat /\ y <= m
    BY <2>1
  <2> QED BY <2>2, <2>3
<1> QED BY <1>1, <1>2

-----------------------------------------------------------------------------
(* Collections: reports. *)

ReportSteps == {"reportInsert", "reportStore", "reportUpdate", "reportDelete", "reorder"}
OnReport(p) == listReq[p].step \in ReportSteps
NewReport(p) == listReq[p].step \in {"reportInsert", "reportStore"}
Reordering(p) == listReq[p].step = "reorder"

\* An accepted order names reports of its owner, each once; one may be gone by now.
OrderOK(s, u) ==
  /\ DOMAIN s \in SUBSET (Nat \ {0})
  /\ \A i \in DOMAIN s : s[i] \in ReportIds /\ s[i] \in given
  /\ \A i, j \in DOMAIN s : s[i] = s[j] => i = j
  /\ \A i \in DOMAIN s : reports[s[i]] # None => reports[s[i]].owner = u

ReportTypes ==
  /\ reports \in [ReportIds -> Coll!Report \cup {None}] /\ DOMAIN listReq = Procs
  /\ \A x \in ReportIds : reports[x] # None => x \in given
  /\ \A p \in Procs : OnReport(p) /\ ~Reordering(p) => listReq[p].id \in ReportIds /\ listReq[p].id \in given
  /\ \A p \in Procs : listReq[p].step \in {"reportInsert", "reportStore", "reportUpdate"} => listReq[p].report \in Coll!Report
  /\ \A p \in Procs : listReq[p].step = "reportStore" => \A e \in listReq[p].seen : e[2] < listReq[p].report.position
  /\ \A p \in Procs : Reordering(p) => OrderOK(listReq[p].order, listReq[p].owner)

\* A new report has an id of its own until it is stored, and no order names it.
ReportAlone ==
  \A p \in Procs : NewReport(p) =>
    /\ reports[listReq[p].id] = None
    /\ \A q \in Procs : NewReport(q) /\ q # p => listReq[q].id # listReq[p].id
    /\ \A q \in Procs : Reordering(q) => \A i \in DOMAIN listReq[q].order : listReq[q].order[i] # listReq[p].id

\* The reports of an account and those on their way to it.
ReportsOf(u) == {x \in ReportIds : reports[x] # None /\ reports[x].owner = u}
NewReports(u) == {p \in Procs : NewReport(p) /\ listReq[p].report.owner = u}
ReportQuota ==
  \A u \in Accounts : Cardinality(ReportsOf(u)) + Cardinality(NewReports(u)) <= MaxReportsPerUser + Cardinality(Procs) - 1

\* What was put in order exists, belongs to one account and is stored in this order.
InOrder(e) ==
  /\ e[1] \in ReportIds /\ e[2] \in ReportIds /\ reports[e[1]] # None /\ reports[e[2]] # None
  /\ reports[e[1]].owner = reports[e[2]].owner /\ reports[e[1]].position < reports[e[2]].position

ReportsInv == ReportTypes /\ ReportAlone /\ ReportQuota /\ \A e \in ordered : InOrder(e)

LEMMA ReportSets ==
  /\ \A u : IsFiniteSet(ReportsOf(u)) /\ Cardinality(ReportsOf(u)) \in Nat
  /\ \A u : /\ IsFiniteSet(NewReports(u)) /\ Cardinality(NewReports(u)) \in Nat
            /\ Cardinality(NewReports(u)) <= Cardinality(Procs)
  /\ Cardinality(Procs) \in Nat
<1>1. \A u : ReportsOf(u) \subseteq ReportIds /\ NewReports(u) \subseteq Procs
  BY DEF ReportsOf, NewReports
<1>2. IsFiniteSet(ReportIds) /\ IsFiniteSet(Procs)
  BY CollectionsAssumption
<1>3. \A u : IsFiniteSet(ReportsOf(u)) /\ Cardinality(ReportsOf(u)) \in Nat
  BY <1>1, <1>2, FS_Subset, FS_CardinalityType
<1>4. \A u : /\ IsFiniteSet(NewReports(u)) /\ Cardinality(NewReports(u)) \in Nat
             /\ Cardinality(NewReports(u)) <= Cardinality(Procs)
  BY <1>1, <1>2, FS_Subset, FS_CardinalityType
<1>5. Cardinality(Procs) \in Nat
  BY <1>2, FS_CardinalityType
<1> QED BY <1>3, <1>4, <1>5

\* A step that is not about reports, or ends a request, keeps the invariant.
LEMMA ReportGivesUp ==
  ASSUME ReportsInv, NEW p \in Procs, NEW r, listReq' = [listReq EXCEPT ![p] = r], r.step \notin ReportSteps,
         UNCHANGED <<reports, ordered>>, given \subseteq given'
  PROVE  ReportsInv'
<1>1. /\ DOMAIN listReq' = Procs /\ listReq'[p] = r
      /\ \A q \in Procs : q # p => listReq'[q] = listReq[q]
  BY OneMoves DEF ReportsInv, ReportTypes
<1>2. \A q \in Procs : OnReport(q)' => q # p /\ listReq'[q] = listReq[q]
  BY <1>1 DEF OnReport
<1>3. \A q \in Procs : /\ NewReport(q)' => NewReport(q) /\ OnReport(q)'
                       /\ Reordering(q)' => Reordering(q) /\ OnReport(q)'
                       /\ OnReport(q)' => OnReport(q)
  BY <1>2 DEF OnReport, NewReport, Reordering, ReportSteps
<1>4. ReportTypes'
  <2>1. Coll!Report' = Coll!Report
    BY DEF Coll!Report
  <2>2. \A q \in Procs : listReq'[q].step \in {"reportInsert", "reportStore", "reportUpdate"} => OnReport(q)'
    BY DEF OnReport, ReportSteps
  <2>3. \A q \in Procs : Reordering(q)' => OrderOK(listReq[q].order, listReq[q].owner)'
    BY <1>2, <1>3 DEF ReportsInv, ReportTypes, OrderOK
  <2>4. \A q \in Procs : OnReport(q)' /\ ~Reordering(q)' => OnReport(q) /\ ~Reordering(q)
    BY <1>2, <1>3 DEF Reordering
  <2>5. \A q \in Procs : Reordering(q)' => OrderOK(listReq[q].order, listReq[q].owner)' /\ listReq'[q] = listReq[q]
    BY <1>2, <1>3, <2>3
  <2>6. \A q \in Procs : Reordering(q)' => OrderOK(listReq[q].order, listReq[q].owner)'
    BY <2>5
  <2>7. (\A q \in Procs : Reordering(q) => OrderOK(listReq[q].order, listReq[q].owner))'
    BY <2>5 DEF OrderOK
  <2> QED BY <1>1, <1>2, <2>1, <2>2, <2>4, <2>7 DEF ReportsInv, ReportTypes
<1>5. ReportAlone'
  BY <1>2, <1>3 DEF ReportsInv, ReportAlone
<1>6. ReportQuota'
  <2>1. \A u : ReportsOf(u)' = ReportsOf(u) /\ NewReports(u)' \subseteq NewReports(u)
    BY <1>2, <1>3 DEF ReportsOf, NewReports
  <2>2. \A u : Cardinality(NewReports(u)') <= Cardinality(NewReports(u)) /\ Cardinality(NewReports(u)') \in Nat
    BY <2>1, ReportSets, FS_Subset, FS_CardinalityType
  <2> QED BY <2>1, <2>2, ReportSets, CollectionsAssumption DEF ReportsInv, ReportQuota
<1>7. \A e \in ordered' : InOrder(e)'
  BY DEF ReportsInv, InOrder
<1> QED BY <1>4, <1>5, <1>6, <1>7 DEF ReportsInv

\* A request to store a new report begins: its id is new, the quota had room.
LEMMA ReportInsertBegins ==
  ASSUME ReportsInv, NEW p \in Procs, Coll!Idle(p), NEW r, r.step = "reportInsert", NEW u \in Accounts,
         NEW id \in ReportIds, id \notin given, r.id = id, r.report \in Coll!Report, r.report.owner = u,
         Cardinality(ReportsOf(u)) < MaxReportsPerUser,
         listReq' = [listReq EXCEPT ![p] = r], UNCHANGED <<reports, ordered>>, given' = given \cup {id}
  PROVE  ReportsInv'
<1>1. /\ DOMAIN listReq' = Procs /\ listReq'[p] = r
      /\ \A q \in Procs : q # p => listReq'[q] = listReq[q]
  BY OneMoves DEF ReportsInv, ReportTypes
<1>2. listReq[p].step = "idle"
  BY DEF Coll!Idle, Coll!NoRequest
<1>3. /\ ~OnReport(p) /\ ~NewReport(p) /\ ~Reordering(p) /\ OnReport(p)' /\ NewReport(p)' /\ ~Reordering(p)'
      /\ \A q \in Procs : q # p => /\ OnReport(q)' = OnReport(q) /\ NewReport(q)' = NewReport(q)
                                   /\ Reordering(q)' = Reordering(q) /\ listReq'[q] = listReq[q]
  BY <1>1, <1>2 DEF OnReport, NewReport, Reordering, ReportSteps
<1>4. ReportTypes'
  <2>1. Coll!Report' = Coll!Report
    BY DEF Coll!Report
  <2>2. \A q \in Procs : Reordering(q)' => Reordering(q) /\ q # p /\ listReq'[q] = listReq[q]
    BY <1>3
  <2>3. (\A q \in Procs : Reordering(q) => OrderOK(listReq[q].order, listReq[q].owner))'
    BY <2>2 DEF ReportsInv, ReportTypes, OrderOK
  <2> QED BY <1>1, <1>3, <2>1, <2>3 DEF ReportsInv, ReportTypes
<1>5. reports[id] = None
  BY DEF ReportsInv, ReportTypes
<1>6. ReportAlone'
  <2>1. \A q \in Procs : NewReport(q) => listReq[q].id # id
    BY DEF ReportsInv, ReportTypes, NewReport, OnReport, Reordering, ReportSteps
  <2>2. \A q \in Procs : Reordering(q) => \A i \in DOMAIN listReq[q].order : listReq[q].order[i] # id
    BY DEF ReportsInv, ReportTypes, OrderOK
  <2> QED BY <1>1, <1>3, <1>5, <2>1, <2>2 DEF ReportsInv, ReportAlone
<1>7. ReportQuota'
  <2> SUFFICES ASSUME NEW v \in Accounts
               PROVE  Cardinality(ReportsOf(v)') + Cardinality(NewReports(v)') <= MaxReportsPerUser + Cardinality(Procs) - 1
    BY DEF ReportQuota
  <2>1. ReportsOf(v)' = ReportsOf(v)
    BY DEF ReportsOf
  <2>2. CASE v = u
    <3>1. NewReports(v)' \subseteq Procs
      BY DEF NewReports
    <3>2. Cardinality(NewReports(v)') <= Cardinality(Procs) /\ Cardinality(NewReports(v)') \in Nat
      BY <3>1, CollectionsAssumption, FS_Subset, FS_CardinalityType
    <3> QED BY <2>1, <2>2, <3>2, ReportSets, CollectionsAssumption
  <2>3. CASE v # u
    <3>1. NewReports(v)' = NewReports(v)
      BY <1>1, <1>3, <2>3 DEF NewReports
    <3> QED BY <2>1, <3>1 DEF ReportsInv, ReportQuota
  <2> QED BY <2>2, <2>3
<1>8. \A e \in ordered' : InOrder(e)'
  BY DEF ReportsInv, InOrder
<1> QED BY <1>4, <1>6, <1>7, <1>8 DEF ReportsInv

\* A request to change, delete or reorder begins; the reports it names exist.
LEMMA ReportChangeBegins ==
  ASSUME ReportsInv, NEW p \in Procs, Coll!Idle(p), NEW r, r.step \in ReportSteps \ {"reportInsert", "reportStore"},
         r.step # "reorder" => r.id \in ReportIds /\ reports[r.id] # None,
         r.step = "reportUpdate" => r.report \in Coll!Report,
         r.step = "reorder" => /\ OrderOK(r.order, r.owner) /\ \A i \in DOMAIN r.order : reports[r.order[i]] # None,
         listReq' = [listReq EXCEPT ![p] = r], UNCHANGED <<reports, ordered>>, given \subseteq given'
  PROVE  ReportsInv'
<1>1. /\ DOMAIN listReq' = Procs /\ listReq'[p] = r
      /\ \A q \in Procs : q # p => listReq'[q] = listReq[q]
  BY OneMoves DEF ReportsInv, ReportTypes
<1>2. listReq[p].step = "idle"
  BY DEF Coll!Idle, Coll!NoRequest
<1>3. /\ ~OnReport(p) /\ ~NewReport(p) /\ ~Reordering(p) /\ OnReport(p)' /\ ~NewReport(p)'
      /\ \A q \in Procs : q # p => /\ OnReport(q)' = OnReport(q) /\ NewReport(q)' = NewReport(q)
                                   /\ Reordering(q)' = Reordering(q) /\ listReq'[q] = listReq[q]
  BY <1>1, <1>2 DEF OnReport, NewReport, Reordering, ReportSteps
<1>4. ReportTypes'
  <2>1. Coll!Report' = Coll!Report
    BY DEF Coll!Report
  <2>2. (\A q \in Procs : Reordering(q) => OrderOK(listReq[q].order, listReq[q].owner))'
    <3> SUFFICES ASSUME NEW q \in Procs, Reordering(q)' PROVE OrderOK(listReq[q].order, listReq[q].owner)'
      OBVIOUS
    <3>1. CASE q = p
      <4>1. r.step = "reorder" /\ listReq'[q] = r
        BY <1>1, <3>1 DEF Reordering
      <4> QED BY <4>1 DEF OrderOK
    <3>2. CASE q # p
      <4>1. OrderOK(listReq[q].order, listReq[q].owner) /\ listReq'[q] = listReq[q]
        BY <1>3, <3>2 DEF ReportsInv, ReportTypes
      <4> QED BY <4>1 DEF OrderOK
    <3> QED BY <3>1, <3>2
  <2>3. r.step # "reorder" => r.id \in given'
    BY DEF ReportsInv, ReportTypes
  <2>4. \A q \in Procs : OnReport(q)' /\ ~Reordering(q)' => listReq'[q].id \in ReportIds /\ listReq'[q].id \in given'
    BY <1>1, <1>3, <2>3 DEF ReportsInv, ReportTypes, Reordering
  <2>5. \A q \in Procs : listReq'[q].step \in {"reportInsert", "reportStore", "reportUpdate"} => listReq'[q].report \in Coll!Report
    BY <1>1 DEF ReportsInv, ReportTypes
  <2>7. \A q \in Procs : listReq'[q].step = "reportStore" =>
          \A e \in listReq'[q].seen : e[2] < listReq'[q].report.position
    BY <1>1 DEF ReportsInv, ReportTypes
  <2>6. reports' \in [ReportIds -> Coll!Report \cup {None}] /\ \A x \in ReportIds : reports'[x] # None => x \in given'
    BY DEF ReportsInv, ReportTypes
  <2> QED BY <1>1, <2>1, <2>2, <2>4, <2>5, <2>6, <2>7 DEF ReportTypes
<1>5. ReportAlone'
  <2> SUFFICES ASSUME NEW q \in Procs, NewReport(q)'
               PROVE  /\ reports'[listReq'[q].id] = None
                      /\ \A o \in Procs : NewReport(o)' /\ o # q => listReq'[o].id # listReq'[q].id
                      /\ \A o \in Procs : Reordering(o)' => \A i \in DOMAIN listReq'[o].order : listReq'[o].order[i] # listReq'[q].id
    BY DEF ReportAlone
  <2>1. NewReport(q) /\ q # p /\ listReq'[q] = listReq[q] /\ reports[listReq[q].id] = None
    BY <1>3 DEF ReportsInv, ReportAlone
  <2>2. ASSUME NEW o \in Procs, Reordering(o)' PROVE \A i \in DOMAIN listReq'[o].order : listReq'[o].order[i] # listReq'[q].id
    <3>1. CASE o = p
      BY <1>1, <2>1, <2>2, <3>1 DEF Reordering
    <3>2. CASE o # p
      BY <1>3, <2>1, <2>2, <3>2 DEF ReportsInv, ReportAlone
    <3> QED BY <3>1, <3>2
  <2> QED BY <1>3, <2>1, <2>2 DEF ReportsInv, ReportAlone
<1>6. ReportQuota'
  <2>1. \A u : ReportsOf(u)' = ReportsOf(u) /\ NewReports(u)' = NewReports(u)
    BY <1>3 DEF ReportsOf, NewReports
  <2> QED BY <2>1 DEF ReportsInv, ReportQuota
<1>7. \A e \in ordered' : InOrder(e)'
  BY DEF ReportsInv, InOrder
<1> QED BY <1>4, <1>5, <1>6, <1>7 DEF ReportsInv

\* What a write to the reports keeps, whichever it is: it ends its request, no report changes
\* hands, and a report appears only from a request that held its id.
LEMMA ReportWritten ==
  ASSUME ReportsInv, NEW p \in Procs, OnReport(p),
         reports' \in [ReportIds -> Coll!Report \cup {None}],
         \A x \in ReportIds : reports'[x] # None => /\ reports[x] # None \/ (NewReport(p) /\ x = listReq[p].id)
                                                    /\ reports[x] # None => reports'[x].owner = reports[x].owner,
         listReq' = [listReq EXCEPT ![p] = Coll!NoRequest], UNCHANGED given
  PROVE  ReportTypes' /\ ReportAlone'
<1>1. /\ DOMAIN listReq' = Procs /\ listReq'[p] = Coll!NoRequest
      /\ \A q \in Procs : q # p => listReq'[q] = listReq[q]
  BY OneMoves DEF ReportsInv, ReportTypes
<1>2. \A q \in Procs : OnReport(q)' => q # p /\ listReq'[q] = listReq[q]
  BY <1>1 DEF OnReport, Coll!NoRequest, ReportSteps
<1>3. \A q \in Procs : /\ NewReport(q)' => NewReport(q) /\ OnReport(q)'
                       /\ Reordering(q)' => Reordering(q) /\ OnReport(q)'
                       /\ OnReport(q)' => OnReport(q)
  BY <1>2 DEF OnReport, NewReport, Reordering, ReportSteps
<1>a. NewReport(p) => listReq[p].id \in given
  BY DEF ReportsInv, ReportTypes, NewReport, Reordering
<1>4. ReportTypes'
  <2>1. Coll!Report' = Coll!Report
    BY DEF Coll!Report
  <2>2. \A q \in Procs : listReq'[q].step \in {"reportInsert", "reportStore", "reportUpdate"} => OnReport(q)'
    BY DEF OnReport, ReportSteps
  <2>3. (\A q \in Procs : Reordering(q) => OrderOK(listReq[q].order, listReq[q].owner))'
    <3> SUFFICES ASSUME NEW q \in Procs, Reordering(q)' PROVE OrderOK(listReq[q].order, listReq[q].owner)'
      OBVIOUS
    <3>1. Reordering(q) /\ listReq'[q] = listReq[q] /\ OrderOK(listReq[q].order, listReq[q].owner)
      BY <1>2, <1>3 DEF ReportsInv, ReportTypes
    <3>2. NewReport(p) => \A i \in DOMAIN listReq[q].order : listReq[q].order[i] # listReq[p].id
      BY <3>1 DEF ReportsInv, ReportAlone
    <3> QED BY <3>1, <3>2 DEF OrderOK
  <2>4. \A q \in Procs : OnReport(q)' /\ ~Reordering(q)' => OnReport(q) /\ ~Reordering(q)
    BY <1>2, <1>3 DEF Reordering
  <2>5. \A x \in ReportIds : reports'[x] # None => x \in given
    BY <1>a DEF ReportsInv, ReportTypes
  <2> QED BY <1>1, <1>2, <2>1, <2>2, <2>3, <2>4, <2>5 DEF ReportsInv, ReportTypes
<1>5. ReportAlone'
  <2> SUFFICES ASSUME NEW q \in Procs, NewReport(q)'
               PROVE  /\ reports'[listReq'[q].id] = None
                      /\ \A o \in Procs : NewReport(o)' /\ o # q => listReq'[o].id # listReq'[q].id
                      /\ \A o \in Procs : Reordering(o)' => \A i \in DOMAIN listReq'[o].order : listReq'[o].order[i] # listReq'[q].id
    BY DEF ReportAlone
  <2>1. NewReport(q) /\ q # p /\ listReq'[q] = listReq[q] /\ reports[listReq[q].id] = None /\ listReq[q].id \in ReportIds
    BY <1>2, <1>3 DEF ReportsInv, ReportAlone, ReportTypes, NewReport, OnReport, Reordering, ReportSteps
  <2>2. NewReport(p) => listReq[p].id # listReq[q].id
    BY <2>1 DEF ReportsInv, ReportAlone
  <2>3. \A o \in Procs : Reordering(o)' => \A i \in DOMAIN listReq'[o].order : listReq'[o].order[i] # listReq'[q].id
    BY <1>2, <1>3, <2>1 DEF ReportsInv, ReportAlone
  <2> QED BY <1>2, <1>3, <2>1, <2>2, <2>3 DEF ReportsInv, ReportAlone
<1> QED BY <1>4, <1>5

\* A write that stores no new report leaves room in the quota.
LEMMA NoNewReport ==
  ASSUME ReportsInv, NEW p \in Procs, OnReport(p), ~NewReport(p),
         \A x \in ReportIds : reports'[x] # None => reports[x] # None /\ reports'[x].owner = reports[x].owner,
         listReq' = [listReq EXCEPT ![p] = Coll!NoRequest]
  PROVE  ReportQuota'
<1>1. /\ DOMAIN listReq' = Procs /\ listReq'[p] = Coll!NoRequest
      /\ \A q \in Procs : q # p => listReq'[q] = listReq[q]
  BY OneMoves DEF ReportsInv, ReportTypes
<1>2. \A u : ReportsOf(u)' \subseteq ReportsOf(u)
  BY DEF ReportsOf
<1>3. \A u : NewReports(u)' = NewReports(u)
  BY <1>1 DEF NewReports, NewReport, Coll!NoRequest
<1>4. \A u : Cardinality(ReportsOf(u)') <= Cardinality(ReportsOf(u)) /\ Cardinality(ReportsOf(u)') \in Nat
  BY <1>2, ReportSets, FS_Subset, FS_CardinalityType
<1> QED BY <1>3, <1>4, ReportSets, CollectionsAssumption DEF ReportsInv, ReportQuota

\* The statement finds a place behind all of its owner's reports it sees.
LEMMA ReportPlaced ==
  ASSUME ReportsInv, NEW p \in Procs, listReq[p].step = "reportInsert", NEW pos, NEW r,
         pos = LET taken == {reports[x].position : x \in ReportsOf(listReq[p].report.owner)}
               IN IF taken = {} THEN 0 ELSE Coll!Max(taken) + 1,
         r.step = "reportStore", r.id = listReq[p].id,
         r.seen = {<<x, reports[x].position>> : x \in ReportsOf(listReq[p].report.owner)},
         r.report = [listReq[p].report EXCEPT !.position = pos],
         listReq' = [listReq EXCEPT ![p] = r], UNCHANGED <<reports, ordered, given>>
  PROVE  ReportsInv'
<1> DEFINE w == listReq[p].report
           u == w.owner
           v == [w EXCEPT !.position = pos]
           taken == {reports[x].position : x \in ReportsOf(u)}
<1>a. /\ listReq[p].id \in ReportIds /\ listReq[p].id \in given /\ w \in Coll!Report
      /\ OnReport(p) /\ NewReport(p) /\ ~Reordering(p)
  BY DEF ReportsInv, ReportTypes, NewReport, OnReport, Reordering, ReportSteps
<1>0. reports \in [ReportIds -> Coll!Report \cup {None}] /\ DOMAIN listReq = Procs
  BY DEF ReportsInv, ReportTypes
<1>r. r.report = v /\ r.seen = {<<x, reports[x].position>> : x \in ReportsOf(u)}
  OBVIOUS
<1>p. pos = IF taken = {} THEN 0 ELSE Coll!Max(taken) + 1
  OBVIOUS
<1>s. taken \in SUBSET Nat /\ IsFiniteSet(taken)
  <2>1. taken \in SUBSET Nat
    BY <1>0 DEF ReportsOf, Coll!Report
  <2>2. IsFiniteSet(ReportsOf(u))
    BY ReportSets
  <2> DEFINE f == [x \in ReportsOf(u) |-> reports[x].position]
  <2>3. f \in Surjection(ReportsOf(u), taken)
    BY DEF Surjection
  <2> HIDE DEF f, taken, u
  <2>4. IsFiniteSet(taken)
    BY <2>2, <2>3, FS_Surjection DEF ExistsSurjection
  <2> QED BY <2>1, <2>4
<1>m. pos \in Nat /\ \A x \in ReportsOf(u) : reports[x].position < pos
  <2>1. \A x \in ReportsOf(u) : reports[x].position \in taken
    OBVIOUS
  <2> HIDE DEF taken
  <2> QED BY <1>p, <1>s, <2>1, NextPosition
<1>u. u = w.owner /\ \A x : p \in NewReports(x) <=> x = u
  BY <1>a DEF NewReports
<1>w. w = listReq[p].report
  OBVIOUS
<1> HIDE DEF w, u, v, taken
<1>v. v \in Coll!Report /\ v.owner = u /\ v.position = pos
  BY <1>a, <1>m, <1>u DEF Coll!Report, v
<1>1. /\ DOMAIN listReq' = Procs /\ listReq'[p] = r
      /\ \A q \in Procs : q # p => listReq'[q] = listReq[q]
  BY <1>0, OneMoves
<1>3. /\ OnReport(p)' /\ NewReport(p)' /\ ~Reordering(p)'
      /\ \A q \in Procs : q # p => /\ OnReport(q)' = OnReport(q) /\ NewReport(q)' = NewReport(q)
                                   /\ Reordering(q)' = Reordering(q)
  BY <1>1 DEF OnReport, NewReport, Reordering, ReportSteps
<1>4. \A e \in r.seen : e[2] < r.report.position
  <2> SUFFICES ASSUME NEW e \in r.seen PROVE e[2] < r.report.position
    OBVIOUS
  <2>1. PICK x \in ReportsOf(u) : e = <<x, reports[x].position>>
    BY <1>r
  <2>2. e[2] = reports[x].position
    BY <2>1
  <2>3. r.report.position = pos
    BY <1>r, <1>v
  <2> QED BY <1>m, <2>1, <2>2, <2>3
<1>5. ReportTypes'
  <2>1. Coll!Report' = Coll!Report
    BY DEF Coll!Report
  <2>2. \A q \in Procs : Reordering(q)' => Reordering(q) /\ q # p /\ listReq'[q] = listReq[q]
    BY <1>1, <1>3
  <2>3. (\A q \in Procs : Reordering(q) => OrderOK(listReq[q].order, listReq[q].owner))'
    BY <2>2 DEF ReportsInv, ReportTypes, OrderOK
  <2>4. \A q \in Procs : OnReport(q)' /\ ~Reordering(q)' => listReq'[q].id \in ReportIds /\ listReq'[q].id \in given'
    BY <1>1, <1>3, <1>a DEF ReportsInv, ReportTypes
  <2>5. \A q \in Procs : listReq'[q].step \in {"reportInsert", "reportStore", "reportUpdate"} => listReq'[q].report \in Coll!Report
    BY <1>1, <1>r, <1>v DEF ReportsInv, ReportTypes
  <2>6. \A q \in Procs : listReq'[q].step = "reportStore" =>
          \A e \in listReq'[q].seen : e[2] < listReq'[q].report.position
    BY <1>1, <1>4 DEF ReportsInv, ReportTypes
  <2>7. reports' \in [ReportIds -> Coll!Report \cup {None}] /\ \A x \in ReportIds : reports'[x] # None => x \in given'
    BY DEF ReportsInv, ReportTypes
  <2> QED BY <1>1, <2>1, <2>3, <2>4, <2>5, <2>6, <2>7 DEF ReportTypes
<1>6. ReportAlone'
  <2>1. \A q \in Procs : listReq'[q].id = listReq[q].id
    BY <1>1
  <2>2. \A q \in Procs : /\ NewReport(q)' = NewReport(q) /\ Reordering(q)' = Reordering(q)
                         /\ Reordering(q) => listReq'[q] = listReq[q]
    <3> SUFFICES ASSUME NEW q \in Procs
                 PROVE  /\ NewReport(q)' = NewReport(q) /\ Reordering(q)' = Reordering(q)
                        /\ Reordering(q) => listReq'[q] = listReq[q]
      OBVIOUS
    <3>1. CASE q = p
      <4>1. ~Reordering(q) /\ ~Reordering(q)' /\ NewReport(q)' = NewReport(q)
        BY <1>3, <1>a, <3>1, Zenon
      <4> QED BY <4>1 DEF Reordering
    <3>2. CASE q # p
      BY <1>1, <1>3, <3>2, Zenon
    <3> QED BY <3>1, <3>2
  <2> QED BY <2>1, <2>2 DEF ReportsInv, ReportAlone
<1>7. ReportQuota'
  <2>1. \A x : ReportsOf(x)' = ReportsOf(x) /\ NewReports(x)' = NewReports(x)
    BY <1>1, <1>3, <1>a, <1>r, <1>u, <1>v, <1>w DEF ReportsOf, NewReports
  <2> QED BY <2>1 DEF ReportsInv, ReportQuota
<1>8. \A e \in ordered' : InOrder(e)'
  BY DEF ReportsInv, InOrder
<1> QED BY <1>5, <1>6, <1>7, <1>8 DEF ReportsInv

\* The new report is stored behind the reports its statement saw that have kept their place.
LEMMA ReportStored ==
  ASSUME ReportsInv, NEW p \in Procs, listReq[p].step = "reportStore",
         reports' = [reports EXCEPT ![listReq[p].id] = listReq[p].report],
         ordered' = ordered \cup ({x \in ReportsOf(listReq[p].report.owner) : <<x, reports[x].position>> \in listReq[p].seen}
                                   \X {listReq[p].id}),
         listReq' = [listReq EXCEPT ![p] = Coll!NoRequest], UNCHANGED given
  PROVE  ReportsInv'
<1> DEFINE id == listReq[p].id
           v == listReq[p].report
           u == v.owner
           before == {x \in ReportsOf(u) : <<x, reports[x].position>> \in listReq[p].seen}
<1>a. id \in ReportIds /\ id \in given /\ v \in Coll!Report /\ reports[id] = None /\ OnReport(p) /\ NewReport(p)
  BY DEF ReportsInv, ReportTypes, ReportAlone, NewReport, OnReport, Reordering, ReportSteps
<1>0. reports \in [ReportIds -> Coll!Report \cup {None}] /\ DOMAIN listReq = Procs
  BY DEF ReportsInv, ReportTypes
<1>r. reports' = [reports EXCEPT ![id] = v] /\ ordered' = ordered \cup (before \X {id})
  OBVIOUS
<1>m. \A x \in before : x \in ReportsOf(u) /\ reports[x].position < v.position
  BY DEF ReportsInv, ReportTypes
<1>u. u = v.owner
  OBVIOUS
<1>q. p \in NewReports(u) /\ \A x : (p \in NewReports(x)) => x = u
  BY <1>a DEF NewReports
<1> HIDE DEF id, v, u, before
<1>v. v \in Coll!Report /\ v.owner = u /\ v # None
  BY <1>a, <1>u, CollectionsAssumption
<1>1. /\ DOMAIN listReq' = Procs /\ listReq'[p] = Coll!NoRequest
      /\ \A q \in Procs : q # p => listReq'[q] = listReq[q]
  BY <1>0, OneMoves
<1>2. /\ reports' \in [ReportIds -> Coll!Report \cup {None}] /\ reports'[id] = v
      /\ \A x \in ReportIds : x # id => reports'[x] = reports[x]
  BY <1>0, <1>a, <1>r, <1>v, ZenonT(60)
<1>3. ReportTypes' /\ ReportAlone'
  <2>1. \A x \in ReportIds : reports'[x] # None => /\ reports[x] # None \/ (NewReport(p) /\ x = listReq[p].id)
                                                   /\ reports[x] # None => reports'[x].owner = reports[x].owner
    BY <1>2, <1>a DEF id
  <2> QED BY <1>2, <1>a, <2>1, ReportWritten
<1>4. ReportQuota'
  <2> SUFFICES ASSUME NEW a \in Accounts
               PROVE  Cardinality(ReportsOf(a)') + Cardinality(NewReports(a)') <= MaxReportsPerUser + Cardinality(Procs) - 1
    BY DEF ReportQuota
  <2>0. Cardinality(ReportsOf(a)) + Cardinality(NewReports(a)) <= MaxReportsPerUser + Cardinality(Procs) - 1
    BY DEF ReportsInv, ReportQuota
  <2>1. NewReports(a)' = NewReports(a) \ {p}
    BY <1>1 DEF NewReports, NewReport, Coll!NoRequest
  <2>2. CASE a = u
    <3>1. ReportsOf(a)' = ReportsOf(a) \cup {id} /\ id \notin ReportsOf(a)
      BY <1>2, <1>a, <1>v, <2>2, ZenonT(60) DEF ReportsOf
    <3>2. Cardinality(ReportsOf(a)') = Cardinality(ReportsOf(a)) + 1
      BY <3>1, ReportSets, FS_AddElement
    <3>3. Cardinality(NewReports(a)') = Cardinality(NewReports(a)) - 1
      BY <1>q, <2>1, <2>2, ReportSets, FS_RemoveElement
    <3> QED BY <2>0, <3>2, <3>3, ReportSets, CollectionsAssumption
  <2>3. CASE a # u
    <3>1. ReportsOf(a)' = ReportsOf(a)
      BY <1>2, <1>a, <1>v, <2>3 DEF ReportsOf
    <3>2. NewReports(a)' = NewReports(a)
      BY <1>q, <2>1, <2>3
    <3> QED BY <2>0, <3>1, <3>2
  <2> QED BY <2>2, <2>3
<1>5. \A e \in ordered' : InOrder(e)'
  <2> SUFFICES ASSUME NEW e \in ordered' PROVE InOrder(e)'
    OBVIOUS
  <2>1. CASE e \in ordered
    <3>1. InOrder(e)
      BY <2>1 DEF ReportsInv
    <3>2. e[1] # id /\ e[2] # id
      BY <3>1, <1>a DEF InOrder
    <3> QED BY <1>2, <3>1, <3>2 DEF InOrder
  <2>2. CASE e \in before \X {id}
    <3>1. e[1] \in before /\ e[1] \in ReportsOf(u) /\ e[2] = id
      BY <1>m, <2>2
    <3>2. e[1] \in ReportIds /\ reports[e[1]] # None /\ reports[e[1]].owner = u /\ e[1] # id
      BY <3>1, <1>a DEF ReportsOf
    <3>3. reports[e[1]].position < v.position
      BY <1>m, <3>1
    <3> QED BY <1>2, <1>a, <1>v, <3>1, <3>2, <3>3, ZenonT(60) DEF InOrder
  <2> QED BY <1>r, <2>1, <2>2
<1> QED BY <1>3, <1>4, <1>5 DEF ReportsInv

\* Name and definition change, the place and the owner stay.
LEMMA ReportRenamed ==
  ASSUME ReportsInv, NEW p \in Procs, listReq[p].step = "reportUpdate", reports[listReq[p].id] # None,
         reports' = [reports EXCEPT ![listReq[p].id].definition = listReq[p].report.definition],
         listReq' = [listReq EXCEPT ![p] = Coll!NoRequest], UNCHANGED <<given, ordered>>
  PROVE  ReportsInv'
<1> DEFINE id == listReq[p].id
           old == reports[id]
           d == listReq[p].report.definition
           v == [old EXCEPT !.definition = d]
<1>a. OnReport(p) /\ ~NewReport(p) /\ ~Reordering(p)
  BY DEF OnReport, NewReport, Reordering, ReportSteps
<1>0. reports \in [ReportIds -> Coll!Report \cup {None}] /\ id \in ReportIds /\ d \in Definitions
  BY <1>a DEF ReportsInv, ReportTypes, Coll!Report
<1>b. old \in Coll!Report
  BY <1>0
<1>r. reports' = [reports EXCEPT ![id] = v]
  OBVIOUS
<1> HIDE DEF id, old, d, v
<1>v. v \in Coll!Report /\ v.owner = old.owner /\ v.position = old.position
  BY <1>0, <1>b DEF Coll!Report, v
<1>2. /\ reports' \in [ReportIds -> Coll!Report \cup {None}]
      /\ \A x \in ReportIds : reports'[x] # None => /\ reports[x] # None /\ reports'[x].owner = reports[x].owner
                                                    /\ reports'[x].position = reports[x].position
      /\ \A x \in ReportIds : reports[x] # None => reports'[x] # None
  <2>1. reports' \in [ReportIds -> Coll!Report \cup {None}] /\ reports'[id] = v
        /\ \A x \in ReportIds : x # id => reports'[x] = reports[x]
    BY <1>0, <1>r, <1>v
  <2>2. reports[id] = old /\ old # None /\ v # None
    BY <1>v, CollectionsAssumption DEF id, old
  <2> QED BY <1>v, <2>1, <2>2
<1>3. ReportTypes' /\ ReportAlone'
  BY <1>2, <1>a, ReportWritten
<1>4. ReportQuota'
  BY <1>2, <1>a, NoNewReport
<1>5. \A e \in ordered' : InOrder(e)'
  BY <1>2 DEF ReportsInv, InOrder
<1> QED BY <1>3, <1>4, <1>5 DEF ReportsInv

LEMMA ReportGone ==
  ASSUME ReportsInv, NEW p \in Procs, listReq[p].step = "reportDelete",
         reports' = [reports EXCEPT ![listReq[p].id] = None],
         ordered' = {e \in ordered : listReq[p].id \notin {e[1], e[2]}},
         listReq' = [listReq EXCEPT ![p] = Coll!NoRequest], UNCHANGED given
  PROVE  ReportsInv'
<1> DEFINE id == listReq[p].id
<1>a. OnReport(p) /\ ~NewReport(p) /\ ~Reordering(p)
  BY DEF OnReport, NewReport, Reordering, ReportSteps
<1>0. reports \in [ReportIds -> Coll!Report \cup {None}] /\ id \in ReportIds
  BY <1>a DEF ReportsInv, ReportTypes
<1>2. /\ reports' \in [ReportIds -> Coll!Report \cup {None}]
      /\ \A x \in ReportIds : reports'[x] = IF x = id THEN None ELSE reports[x]
  BY <1>0
<1>3. ReportTypes' /\ ReportAlone'
  BY <1>2, <1>a, ReportWritten
<1>4. ReportQuota'
  BY <1>2, <1>a, NoNewReport
<1>5. \A e \in ordered' : InOrder(e)'
  BY <1>2 DEF ReportsInv, InOrder
<1> QED BY <1>3, <1>4, <1>5 DEF ReportsInv

\* The accepted order is stored: reports of other accounts keep theirs, a report that is
\* not named by the order is ordered against none of its owner's.
LEMMA ReportsReordered ==
  ASSUME ReportsInv, NEW p \in Procs, Reordering(p), Coll!SetPositions(p)
  PROVE  ReportsInv'
<1> DEFINE s == listReq[p].order
           u == listReq[p].owner
           at(x) == CHOOSE i \in DOMAIN s : s[i] = x
<1>a. OnReport(p) /\ ~NewReport(p) /\ OrderOK(s, u)
  BY DEF OnReport, NewReport, Reordering, ReportSteps, ReportsInv, ReportTypes
<1>0. reports \in [ReportIds -> Coll!Report \cup {None}]
  BY DEF ReportsInv, ReportTypes
<1>r. /\ reports' = [x \in ReportIds |->
                       IF reports[x] # None /\ reports[x].owner = u /\ x \in Coll!Range(s)
                       THEN [reports[x] EXCEPT !.position = at(x) - 1] ELSE reports[x]]
      /\ ordered' = {e \in ordered : reports[e[1]].owner # u}
                      \cup {e \in Coll!Range(s) \X Coll!Range(s) : reports[e[1]] # None /\ reports[e[2]] # None
                                                                    /\ at(e[1]) < at(e[2])}
      /\ listReq' = [listReq EXCEPT ![p] = Coll!NoRequest] /\ UNCHANGED given
  BY Zenon DEF Coll!SetPositions, Coll!Answer, Coll!Go
<1>b. \A x \in Coll!Range(s) : at(x) \in DOMAIN s /\ s[at(x)] = x
  BY DEF Coll!Range
<1> HIDE DEF s, u, at
<1>c. \A x \in Coll!Range(s) : x \in ReportIds /\ at(x) \in Nat \ {0} /\ (reports[x] # None => reports[x].owner = u)
  BY <1>a, <1>b DEF OrderOK
<1>2. \A x \in ReportIds :
        reports'[x] = IF reports[x] # None /\ reports[x].owner = u /\ x \in Coll!Range(s)
                      THEN [reports[x] EXCEPT !.position = at(x) - 1] ELSE reports[x]
  BY <1>r
<1>3. ASSUME NEW x \in ReportIds, reports[x] # None
      PROVE  /\ reports'[x] # None /\ reports'[x] \in Coll!Report /\ reports'[x].owner = reports[x].owner
             /\ reports'[x].position = IF x \in Coll!Range(s) THEN at(x) - 1 ELSE reports[x].position
  <2> DEFINE w == reports[x]
             v == [w EXCEPT !.position = at(x) - 1]
  <2>1. w \in Coll!Report
    BY <1>0, <1>3
  <2>2. reports'[x] = IF x \in Coll!Range(s) THEN v ELSE w
    BY <1>2, <1>3, <1>c
  <2> HIDE DEF w, v
  <2>3. x \in Coll!Range(s) => v \in Coll!Report /\ v.owner = w.owner /\ v.position = at(x) - 1
    BY <1>c, <2>1 DEF v, Coll!Report
  <2>4. reports'[x] \in Coll!Report /\ reports'[x].owner = w.owner
        /\ reports'[x].position = IF x \in Coll!Range(s) THEN at(x) - 1 ELSE w.position
    BY <2>1, <2>2, <2>3
  <2> QED BY <2>4, CollectionsAssumption DEF w
<1>4. \A x \in ReportIds : reports[x] = None => reports'[x] = None
  BY <1>2
<1>5. reports' \in [ReportIds -> Coll!Report \cup {None}]
  BY <1>r, <1>2, <1>3, <1>4
<1>6. ReportTypes' /\ ReportAlone'
  BY <1>3, <1>4, <1>5, <1>a, <1>r, ReportWritten
<1>7. ReportQuota'
  BY <1>3, <1>4, <1>a, <1>r, NoNewReport
<1>8. \A e \in ordered' : InOrder(e)'
  <2> SUFFICES ASSUME NEW e \in ordered' PROVE InOrder(e)'
    OBVIOUS
  <2>1. CASE e \in ordered /\ reports[e[1]].owner # u
    <3>1. InOrder(e)
      BY <2>1 DEF ReportsInv
    <3>2. e[1] \notin Coll!Range(s) /\ e[2] \notin Coll!Range(s)
      BY <1>c, <2>1, <3>1 DEF InOrder
    <3> QED BY <1>3, <3>1, <3>2 DEF InOrder
  <2>2. CASE /\ e \in Coll!Range(s) \X Coll!Range(s) /\ reports[e[1]] # None /\ reports[e[2]] # None
             /\ at(e[1]) < at(e[2])
    <3>1. e[1] \in Coll!Range(s) /\ e[2] \in Coll!Range(s)
      BY <2>2
    <3> DEFINE i == at(e[1])
               j == at(e[2])
    <3>2. i \in Nat \ {0} /\ j \in Nat \ {0} /\ i < j
      BY <1>c, <2>2, <3>1
    <3>3. /\ e[1] \in ReportIds /\ e[2] \in ReportIds
          /\ reports[e[1]].owner = reports[e[2]].owner
      BY <1>c, <2>2, <3>1
    <3>4. reports'[e[1]].position = i - 1 /\ reports'[e[2]].position = j - 1
      BY <1>3, <2>2, <3>1, <3>3
    <3> HIDE DEF i, j
    <3>5. i - 1 < j - 1
      BY <3>2
    <3> QED BY <1>3, <2>2, <3>3, <3>4, <3>5 DEF InOrder
  <2> QED BY <1>r, <2>1, <2>2
<1> QED BY <1>6, <1>7, <1>8 DEF ReportsInv

LEMMA ReportRequestKeeps ==
  ASSUME ReportsInv, NEW p \in Procs, Coll!ReportRequest(p)
  PROVE  ReportsInv'
<1>0. UNCHANGED <<reports, ordered>> /\ reports \in [ReportIds -> Coll!Report \cup {None}]
  BY DEF Coll!ReportRequest, Coll!stored, ReportsInv, ReportTypes
<1>b. \A r : Coll!Begin(p, r) => /\ Coll!Idle(p) /\ listReq' = [listReq EXCEPT ![p] = r]
                                 /\ given' = given \cup ({r.id} \ {None})
  BY DEF Coll!Begin
<1>1. ASSUME Coll!CreateCustomReport(p) PROVE ReportsInv'
  <2>1. PICK u \in Accounts, id \in ReportIds, d \in Definitions : Coll!CreateReport(p, u, id, d)
    BY <1>1 DEF Coll!CreateCustomReport
  <2> DEFINE w == [owner |-> u, definition |-> d, position |-> 0]
             r == [step |-> "reportInsert", id |-> id, token |-> None, report |-> w]
  <2>2. id \notin given /\ Cardinality(ReportsOf(u)) < MaxReportsPerUser /\ Coll!Begin(p, r)
    BY <2>1, CollCardinality DEF Coll!CreateReport, Coll!Fresh, Coll!CountByUserID, Coll!reportsOf, ReportsOf
  <2>3. w \in Coll!Report /\ w.owner = u
    BY DEF Coll!Report
  <2> HIDE DEF w
  <2>4. r.step = "reportInsert" /\ r.id = id /\ r.report = w
    OBVIOUS
  <2> HIDE DEF r
  <2>5. given' = given \cup {id}
    BY <1>b, <2>2, <2>4, CollectionsAssumption
  <2> QED BY <1>0, <1>b, <2>2, <2>3, <2>4, <2>5, ReportInsertBegins
<1>2. ASSUME Coll!UpdateCustomReport(p) PROVE ReportsInv'
  <2>1. PICK u \in Accounts, id \in ReportIds, d \in Definitions : Coll!UpdateReport(p, u, id, d)
    BY <1>2 DEF Coll!UpdateCustomReport
  <2> DEFINE o == reports[id]
             w == [o EXCEPT !.definition = d]
             r == [step |-> "reportUpdate", id |-> id, token |-> None, report |-> w]
  <2>2. reports[id] # None /\ Coll!Begin(p, r)
    BY <2>1 DEF Coll!UpdateReport, Coll!GetReport
  <2>3. o \in Coll!Report
    BY <1>0, <2>2
  <2> HIDE DEF o
  <2>4. w \in Coll!Report
    BY <2>3 DEF Coll!Report
  <2> HIDE DEF w
  <2>5. r.step = "reportUpdate" /\ r.id = id /\ r.report = w
    OBVIOUS
  <2> HIDE DEF r
  <2>6. r.step \in ReportSteps \ {"reportInsert", "reportStore"} /\ r.step # "reorder"
    BY <2>5 DEF ReportSteps
  <2> QED BY <1>0, <1>b, <2>2, <2>4, <2>5, <2>6, ReportChangeBegins
<1>3. ASSUME Coll!DeleteCustomReport(p) PROVE ReportsInv'
  <2>1. PICK u \in Accounts, id \in ReportIds : Coll!DeleteReport(p, u, id)
    BY <1>3 DEF Coll!DeleteCustomReport
  <2> DEFINE r == [step |-> "reportDelete", id |-> id, token |-> None]
  <2>2. reports[id] # None /\ Coll!Begin(p, r)
    BY <2>1 DEF Coll!DeleteReport, Coll!GetReport
  <2>5. r.step = "reportDelete" /\ r.id = id
    OBVIOUS
  <2> HIDE DEF r
  <2>6. r.step \in ReportSteps \ {"reportInsert", "reportStore"} /\ r.step # "reorder" /\ r.step # "reportUpdate"
    BY <2>5 DEF ReportSteps
  <2> QED BY <1>0, <1>b, <2>2, <2>5, <2>6, ReportChangeBegins
<1>4. ASSUME Coll!ReorderCustomReports(p) PROVE ReportsInv'
  <2>1. PICK u \in Accounts : \E ids \in [1 .. Coll!CountByUserID(u) -> Coll!reportsOf(u)] : Coll!Reorder(p, u, ids)
    BY <1>4 DEF Coll!ReorderCustomReports
  <2>2. PICK ids \in [1 .. Coll!CountByUserID(u) -> Coll!reportsOf(u)] : Coll!Reorder(p, u, ids)
    BY <2>1
  <2> DEFINE r == [step |-> "reorder", id |-> None, token |-> None, order |-> ids, owner |-> u]
  <2>3. Coll!Begin(p, r)
    BY <2>2 DEF Coll!Reorder
  <2>4. r.step = "reorder" /\ r.order = ids /\ r.owner = u
    OBVIOUS
  <2> HIDE DEF r
  <2> DEFINE D == 1 .. Cardinality(ReportsOf(u))
  <2>5. ids \in [D -> ReportsOf(u)] /\ \A i, j \in D : i # j => ids[i] # ids[j]
    <3>1. ids \in [D -> ReportsOf(u)] /\ {ids[i] : i \in DOMAIN ids} = ReportsOf(u)
      BY <2>2, CollCardinality DEF Coll!Reorder, Coll!Range, Coll!CountByUserID, Coll!reportsOf, ReportsOf
    <3>2. IsFiniteSet(ReportsOf(u)) /\ Cardinality(ReportsOf(u)) \in Nat
      BY ReportSets
    <3>3. IsFiniteSet(D) /\ Cardinality(D) = Cardinality(ReportsOf(u))
      BY <3>2, FS_Interval
    <3> HIDE DEF D
    <3>4. ids \in Surjection(D, ReportsOf(u))
      BY <3>1 DEF Surjection
    <3>5. ids \in Injection(D, ReportsOf(u))
      BY <3>3, <3>4, FS_Surjection
    <3> QED BY <3>1, <3>5 DEF Injection, IsInjective
  <2>6. D \in SUBSET (Nat \ {0})
    BY ReportSets
  <2> HIDE DEF D
  <2>7. OrderOK(ids, u) /\ \A i \in DOMAIN ids : reports[ids[i]] # None
    BY <2>5, <2>6 DEF OrderOK, ReportsOf, ReportsInv, ReportTypes
  <2>8. r.step \in ReportSteps \ {"reportInsert", "reportStore"} /\ r.step # "reportUpdate"
    BY <2>4 DEF ReportSteps
  <2> QED BY <1>0, <1>b, <2>3, <2>4, <2>7, <2>8, ReportChangeBegins
<1> QED BY <1>1, <1>2, <1>3, <1>4 DEF Coll!ReportRequest

LEMMA ReportWriteKeeps ==
  ASSUME ReportsInv, NEW p \in Procs, Coll!ReportWrite(p)
  PROVE  ReportsInv'
<1>0. Coll!NoRequest.step \notin ReportSteps
  BY DEF Coll!NoRequest, ReportSteps
<1>1. CASE Coll!Refuse(p)
  <2>1. listReq' = [listReq EXCEPT ![p] = Coll!NoRequest] /\ UNCHANGED <<reports, ordered, given>>
    BY <1>1 DEF Coll!Refuse, Coll!Answer, Coll!Go, Coll!stored
  <2> QED BY <1>0, <2>1, ReportGivesUp
<1>2. CASE listReq[p].step = "reportInsert" /\ Coll!reportInsert(p)
  <2> DEFINE u == listReq[p].report.owner
             taken == {reports[x].position : x \in ReportsOf(u)}
             pos == IF taken = {} THEN 0 ELSE Coll!Max(taken) + 1
             seen == {<<x, reports[x].position>> : x \in ReportsOf(u)}
             v == [listReq[p].report EXCEPT !.position = pos]
             r == [step |-> "reportStore", id |-> listReq[p].id, token |-> None, seen |-> seen, report |-> v]
  <2>1. listReq' = [listReq EXCEPT ![p] = r] /\ UNCHANGED <<reports, ordered, given>>
    BY <1>2, Zenon DEF Coll!reportInsert, Coll!Go, Coll!stored, Coll!placed, Coll!reportsOf, ReportsOf
  <2>2. pos = LET T == {reports[x].position : x \in ReportsOf(listReq[p].report.owner)}
              IN IF T = {} THEN 0 ELSE Coll!Max(T) + 1
    OBVIOUS
  <2>3. v = [listReq[p].report EXCEPT !.position = pos] /\ seen = {<<x, reports[x].position>> : x \in ReportsOf(listReq[p].report.owner)}
    OBVIOUS
  <2> HIDE DEF pos, v, seen
  <2>4. r.step = "reportStore" /\ r.id = listReq[p].id /\ r.seen = seen /\ r.report = v
    OBVIOUS
  <2> HIDE DEF r
  <2> QED BY <1>2, <2>1, <2>2, <2>3, <2>4, ReportPlaced
<1>8. CASE listReq[p].step = "reportStore" /\ Coll!reportStore(p)
  <2>1. /\ reports' = [reports EXCEPT ![listReq[p].id] = listReq[p].report]
        /\ ordered' = ordered \cup ({x \in ReportsOf(listReq[p].report.owner) : <<x, reports[x].position>> \in listReq[p].seen}
                                     \X {listReq[p].id})
        /\ listReq' = [listReq EXCEPT ![p] = Coll!NoRequest] /\ UNCHANGED given
    BY <1>8, Zenon DEF Coll!reportStore, Coll!Answer, Coll!Go, Coll!reportsOf, ReportsOf
  <2> QED BY <1>8, <2>1, ReportStored
<1>3. CASE listReq[p].step = "reportUpdate" /\ Coll!reportUpdate(p) /\ reports[listReq[p].id] # None
  <2>1. /\ reports' = [reports EXCEPT ![listReq[p].id].definition = listReq[p].report.definition]
        /\ listReq' = [listReq EXCEPT ![p] = Coll!NoRequest] /\ UNCHANGED <<given, ordered>>
    BY <1>3, Zenon DEF Coll!reportUpdate, Coll!Answer, Coll!Go
  <2> QED BY <1>3, <2>1, ReportRenamed
<1>4. CASE listReq[p].step = "reportDelete" /\ Coll!reportDelete(p) /\ reports[listReq[p].id] # None
  <2>1. /\ reports' = [reports EXCEPT ![listReq[p].id] = None]
        /\ ordered' = {e \in ordered : listReq[p].id \notin {e[1], e[2]}}
        /\ listReq' = [listReq EXCEPT ![p] = Coll!NoRequest] /\ UNCHANGED given
    BY <1>4, Zenon DEF Coll!reportDelete, Coll!Answer, Coll!Go
  <2> QED BY <1>4, <2>1, ReportGone
<1>5. CASE listReq[p].step = "reportUpdate" /\ Coll!reportUpdate(p) /\ reports[listReq[p].id] = None
  BY <1>1, <1>5 DEF Coll!reportUpdate
<1>6. CASE listReq[p].step = "reportDelete" /\ Coll!reportDelete(p) /\ reports[listReq[p].id] = None
  BY <1>1, <1>6 DEF Coll!reportDelete
<1>7. CASE listReq[p].step = "reorder" /\ Coll!SetPositions(p)
  BY <1>7, ReportsReordered DEF Reordering
<1> QED BY <1>1, <1>2, <1>3, <1>4, <1>5, <1>6, <1>7, <1>8, Zenon DEF Coll!ReportWrite

-----------------------------------------------------------------------------
(* Collections: files. *)

FileSteps == {"fileLock", "fileCount", "fileInsert"}
OnFile(p) == listReq[p].step \in FileSteps
Locking(p) == listReq[p].step \in {"fileCount", "fileInsert"}
FileJob == [step : FileSteps, id : FileIds, token : {None}, document : Documents]
FilesOf(d) == {x \in FileIds : files[x] = d}

FileTypes ==
  /\ documents \in SUBSET Documents /\ files \in [FileIds -> documents \cup {None}]
  /\ lock \in [Documents -> Procs \cup {None}] /\ DOMAIN listReq = Procs
  /\ \A p \in Procs : OnFile(p) => listReq[p] \in FileJob

\* From the count to the insert a request holds the lock of a document that exists.
LockHeld == \A p \in Procs : Locking(p) => lock[listReq[p].document] = p /\ listReq[p].document \in documents
FileQuota ==
  /\ \A d \in Documents : Cardinality(FilesOf(d)) <= MaxFilesPerSubject
  /\ \A p \in Procs : listReq[p].step = "fileInsert" => Cardinality(FilesOf(listReq[p].document)) < MaxFilesPerSubject

FilesInv == FileTypes /\ LockHeld /\ FileQuota

LEMMA FileSets == \A d : IsFiniteSet(FilesOf(d)) /\ Cardinality(FilesOf(d)) \in Nat
<1>1. \A d : FilesOf(d) \subseteq FileIds
  BY DEF FilesOf
<1> QED BY <1>1, CollectionsAssumption, FS_Subset, FS_CardinalityType

\* A step of a request that leaves documents, files and locks alone and does not lead behind
\* a lock keeps the invariant.
LEMMA FilesGiveUp ==
  ASSUME FilesInv, NEW p \in Procs, NEW r, listReq' = [listReq EXCEPT ![p] = r], r.step \notin {"fileCount", "fileInsert"},
         r.step = "fileLock" => r \in FileJob,
         UNCHANGED <<files, documents, lock>>
  PROVE  FilesInv'
<1>1. /\ DOMAIN listReq' = Procs /\ listReq'[p] = r
      /\ \A q \in Procs : q # p => listReq'[q] = listReq[q]
  BY OneMoves DEF FilesInv, FileTypes
<1>2. FileTypes'
  BY <1>1 DEF FilesInv, FileTypes, OnFile, FileSteps, FileJob
<1>3. LockHeld'
  BY <1>1 DEF FilesInv, LockHeld, Locking
<1>4. FileQuota'
  <2>1. \A d : FilesOf(d)' = FilesOf(d)
    BY DEF FilesOf
  <2>2. \A d : Cardinality(FilesOf(d))' = Cardinality(FilesOf(d))
    BY <2>1
  <2>3. \A q \in Procs : listReq'[q].step = "fileInsert" => listReq'[q] = listReq[q] /\ q # p
    BY <1>1
  <2> QED BY <2>2, <2>3 DEF FilesInv, FileQuota
<1> QED BY <1>2, <1>3, <1>4 DEF FilesInv

\* A request moves on while it holds, or takes, the lock of its document.
LEMMA FileMovesOn ==
  ASSUME FilesInv, NEW p \in Procs, NEW r \in FileJob, OnFile(p), r.step \in {"fileCount", "fileInsert"},
         r.document \in documents, r.document = listReq[p].document,
         lock[r.document] \in {None, p}, lock' = [lock EXCEPT ![r.document] = p],
         r.step = "fileInsert" => Cardinality(FilesOf(r.document)) < MaxFilesPerSubject,
         listReq' = [listReq EXCEPT ![p] = r], UNCHANGED <<files, documents>>
  PROVE  FilesInv'
<1>1. /\ DOMAIN listReq' = Procs /\ listReq'[p] = r
      /\ \A q \in Procs : q # p => listReq'[q] = listReq[q]
  BY OneMoves DEF FilesInv, FileTypes
<1>a. r.document \in Documents /\ lock \in [Documents -> Procs \cup {None}]
  BY DEF FileJob, FilesInv, FileTypes
<1>l. lock' \in [Documents -> Procs \cup {None}] /\ lock'[r.document] = p
      /\ \A d \in Documents : d # r.document => lock'[d] = lock[d]
  BY <1>a
<1>2. FileTypes'
  <2>1. FileJob' = FileJob
    BY DEF FileJob, FileSteps
  <2>2. \A q \in Procs : OnFile(q)' => listReq'[q] \in FileJob
    BY <1>1 DEF FilesInv, FileTypes, OnFile
  <2> QED BY <1>1, <1>l, <2>1, <2>2 DEF FilesInv, FileTypes
<1>3. LockHeld'
  <2> SUFFICES ASSUME NEW q \in Procs, Locking(q)'
               PROVE  lock'[listReq'[q].document] = q /\ listReq'[q].document \in documents'
    BY DEF LockHeld
  <2>1. CASE q = p
    BY <1>1, <1>l, <2>1
  <2>2. CASE q # p
    <3>1. /\ listReq'[q] = listReq[q] /\ lock[listReq[q].document] = q /\ listReq[q].document \in documents
      BY <1>1, <2>2 DEF FilesInv, LockHeld, Locking
    <3>2. listReq[q].document # r.document
      BY <2>2, <3>1, CollectionsAssumption
    <3>3. listReq[q].document \in Documents
      BY <3>1 DEF FilesInv, FileTypes
    <3> QED BY <1>l, <3>1, <3>2, <3>3
  <2> QED BY <2>1, <2>2
<1>4. FileQuota'
  <2>1. \A d : FilesOf(d)' = FilesOf(d)
    BY DEF FilesOf
  <2>2. \A d : Cardinality(FilesOf(d)') = Cardinality(FilesOf(d))
    BY <2>1
  <2>3. \A d \in Documents : Cardinality(FilesOf(d)') <= MaxFilesPerSubject
    BY <2>2 DEF FilesInv, FileQuota
  <2>4. \A q \in Procs : listReq'[q].step = "fileInsert" => Cardinality(FilesOf(listReq'[q].document)) < MaxFilesPerSubject
    BY <1>1 DEF FilesInv, FileQuota
  <2>5. \A q \in Procs : FilesOf(listReq[q].document)' = FilesOf(listReq'[q].document)
    BY DEF FilesOf
  <2> QED BY <2>1, <2>3, <2>4, <2>5 DEF FileQuota
<1> QED BY <1>2, <1>3, <1>4 DEF FilesInv

\* A request that held the lock gives it back, having stored its file or not.
LEMMA FileUnlocks ==
  ASSUME FilesInv, NEW p \in Procs, Locking(p), NEW d, d = listReq[p].document, NEW x, x = listReq[p].id,
         lock' = [lock EXCEPT ![d] = None], UNCHANGED documents,
         files' = files \/ (listReq[p].step = "fileInsert" /\ files' = [files EXCEPT ![x] = d]),
         listReq' = [listReq EXCEPT ![p] = Coll!NoRequest]
  PROVE  FilesInv'
<1>a. /\ d \in Documents /\ d \in documents /\ x \in FileIds /\ lock[d] = p
      /\ lock \in [Documents -> Procs \cup {None}] /\ files \in [FileIds -> documents \cup {None}]
      /\ documents \in SUBSET Documents
  BY DEF FilesInv, FileTypes, LockHeld, Locking, OnFile, FileSteps, FileJob
<1>0. /\ lock' = [lock EXCEPT ![d] = None] /\ documents' = documents
      /\ files' = files \/ (listReq[p].step = "fileInsert" /\ files' = [files EXCEPT ![x] = d])
  OBVIOUS
<1>c. \A q \in Procs : Locking(q) /\ q # p => listReq[q].document # d
  BY <1>a DEF FilesInv, LockHeld
<1>q. /\ \A e \in Documents : Cardinality(FilesOf(e)) <= MaxFilesPerSubject
      /\ listReq[p].step = "fileInsert" => Cardinality(FilesOf(d)) < MaxFilesPerSubject
  BY DEF FilesInv, FileQuota
<1>1. /\ DOMAIN listReq' = Procs /\ listReq'[p] = Coll!NoRequest
      /\ \A q \in Procs : q # p => listReq'[q] = listReq[q]
  BY OneMoves DEF FilesInv, FileTypes
<1>2. \A q \in Procs : OnFile(q)' => q # p /\ listReq'[q] = listReq[q]
  BY <1>1 DEF OnFile, FileSteps, Coll!NoRequest
<1>l. lock' \in [Documents -> Procs \cup {None}] /\ \A e \in Documents : e # d => lock'[e] = lock[e]
  BY <1>0, <1>a
<1>f. files' \in [FileIds -> documents \cup {None}]
  BY <1>0, <1>a
<1>3. FileTypes'
  <2>1. FileJob' = FileJob
    BY DEF FileJob, FileSteps
  <2>2. \A q \in Procs : OnFile(q)' => listReq'[q] \in FileJob
    BY <1>2 DEF FilesInv, FileTypes, OnFile
  <2> QED BY <1>0, <1>1, <1>a, <1>f, <1>l, <2>1, <2>2 DEF FileTypes
<1>4. \A q \in Procs : Locking(q)' => /\ Locking(q) /\ q # p /\ listReq'[q] = listReq[q] /\ listReq[q].document # d
                                      /\ listReq[q].document \in documents
  BY <1>2, <1>c DEF OnFile, Locking, FileSteps, FilesInv, LockHeld
<1>5. LockHeld'
  BY <1>0, <1>4, <1>l, <1>a DEF FilesInv, LockHeld
<1>6. FileQuota'
  <2>1. \A e \in Documents : e # d => FilesOf(e)' \subseteq FilesOf(e)
    BY <1>0, <1>a DEF FilesOf
  <2>2. \A e \in Documents : e # d => Cardinality(FilesOf(e)') <= Cardinality(FilesOf(e)) /\ Cardinality(FilesOf(e)') \in Nat
    BY <2>1, FileSets, FS_Subset, FS_CardinalityType
  <2>3. Cardinality(FilesOf(d)') <= MaxFilesPerSubject
    <3>1. CASE files' = files
      BY <1>a, <1>q, <3>1 DEF FilesOf
    <3>2. CASE listReq[p].step = "fileInsert" /\ files' = [files EXCEPT ![x] = d]
      <4>1. FilesOf(d)' \subseteq FilesOf(d) \cup {x}
        BY <1>a, <3>2 DEF FilesOf
      <4>2. IsFiniteSet(FilesOf(d) \cup {x}) /\ Cardinality(FilesOf(d) \cup {x}) <= Cardinality(FilesOf(d)) + 1
            /\ Cardinality(FilesOf(d) \cup {x}) \in Nat
        <5>1. IsFiniteSet(FilesOf(d)) /\ Cardinality(FilesOf(d)) \in Nat
          BY FileSets
        <5>2. /\ IsFiniteSet(FilesOf(d) \cup {x})
              /\ Cardinality(FilesOf(d) \cup {x}) = IF x \in FilesOf(d) THEN Cardinality(FilesOf(d)) ELSE Cardinality(FilesOf(d)) + 1
          BY <5>1, FS_AddElement
        <5> QED BY <5>1, <5>2
      <4>3. Cardinality(FilesOf(d)') <= Cardinality(FilesOf(d) \cup {x}) /\ Cardinality(FilesOf(d)') \in Nat
        BY <4>1, <4>2, FS_Subset, FS_CardinalityType
      <4> QED BY <1>q, <3>2, <4>2, <4>3, FileSets, CollectionsAssumption
    <3> QED BY <1>0, <3>1, <3>2
  <2>4. \A e \in Documents : Cardinality(FilesOf(e)') <= MaxFilesPerSubject
    <3> SUFFICES ASSUME NEW e \in Documents, e # d PROVE Cardinality(FilesOf(e)') <= MaxFilesPerSubject
      BY <2>3
    <3>1. Cardinality(FilesOf(e)) <= MaxFilesPerSubject
      BY <1>q
    <3> QED BY <2>2, <3>1, FileSets, CollectionsAssumption
  <2>5. ASSUME NEW q \in Procs, listReq'[q].step = "fileInsert"
        PROVE  Cardinality(FilesOf(listReq[q].document)') < MaxFilesPerSubject
    <3> DEFINE e == listReq[q].document
    <3>1. e # d /\ e \in Documents /\ listReq'[q] = listReq[q]
      BY <1>4, <1>a, <2>5 DEF Locking
    <3>2. Cardinality(FilesOf(e)) < MaxFilesPerSubject
      BY <2>5, <3>1 DEF FilesInv, FileQuota
    <3>4. listReq'[q].document = e
      BY <3>1
    <3> HIDE DEF e
    <3>5. Cardinality(FilesOf(e)) \in Nat /\ Cardinality({y \in FileIds : files'[y] = e}) <= Cardinality(FilesOf(e))
          /\ Cardinality({y \in FileIds : files'[y] = e}) \in Nat
      BY <2>2, <3>1, FileSets DEF FilesOf
    <3>6. Cardinality({y \in FileIds : files'[y] = e}) < MaxFilesPerSubject
      BY <3>2, <3>5, CollectionsAssumption
    <3> QED BY <3>4, <3>6 DEF FilesOf
  <2> QED BY <2>4, <2>5 DEF FileQuota
<1> QED BY <1>3, <1>5, <1>6 DEF FilesInv

\* A file is deleted, or a document with its files: no request holds its lock.
LEMMA FilesRemoved ==
  ASSUME FilesInv, documents' \in SUBSET documents, UNCHANGED <<lock, listReq>>,
         files' \in [FileIds -> documents' \cup {None}], \A x \in FileIds : files'[x] \in {files[x], None},
         \A d \in documents \ documents' : lock[d] = None
  PROVE  FilesInv'
<1>1. FileTypes'
  <2>1. FileJob' = FileJob
    BY DEF FileJob, FileSteps
  <2> QED BY <2>1 DEF FilesInv, FileTypes, OnFile
<1>2. LockHeld'
  BY CollectionsAssumption DEF FilesInv, LockHeld, Locking
<1>3. \A d \in Documents : FilesOf(d)' \subseteq FilesOf(d)
  BY CollectionsAssumption DEF FilesOf
<1>4. \A d \in Documents : /\ Cardinality(FilesOf(d)') <= Cardinality(FilesOf(d)) /\ Cardinality(FilesOf(d)') \in Nat
                           /\ Cardinality(FilesOf(d)) \in Nat
  BY <1>3, FileSets, FS_Subset, FS_CardinalityType
<1>5. FileQuota'
  <2>1. \A d \in Documents : Cardinality(FilesOf(d)') <= MaxFilesPerSubject
    BY <1>4, CollectionsAssumption DEF FilesInv, FileQuota
  <2>2. ASSUME NEW q \in Procs, listReq[q].step = "fileInsert"
        PROVE  Cardinality(FilesOf(listReq[q].document)') < MaxFilesPerSubject
    <3>1. listReq[q].document \in Documents /\ Cardinality(FilesOf(listReq[q].document)) < MaxFilesPerSubject
      BY <2>2 DEF FilesInv, FileQuota, FileTypes, OnFile, FileSteps, FileJob
    <3> DEFINE d == listReq[q].document
    <3>2. d = listReq'[q].document
      OBVIOUS
    <3> HIDE DEF d
    <3>3. Cardinality({y \in FileIds : files'[y] = d}) <= Cardinality(FilesOf(d))
          /\ Cardinality({y \in FileIds : files'[y] = d}) \in Nat /\ Cardinality(FilesOf(d)) \in Nat
          /\ Cardinality(FilesOf(d)) < MaxFilesPerSubject
      BY <1>4, <3>1 DEF FilesOf, d
    <3>4. Cardinality({y \in FileIds : files'[y] = d}) < MaxFilesPerSubject
      BY <3>3, CollectionsAssumption
    <3> QED BY <3>2, <3>4 DEF FilesOf
  <2> QED BY <2>1, <2>2 DEF FileQuota
<1> QED BY <1>1, <1>2, <1>5 DEF FilesInv

LEMMA FileRequestKeeps ==
  ASSUME FilesInv, NEW p \in Procs, Coll!FileRequest(p)
  PROVE  FilesInv'
<1>1. ASSUME Coll!uploadDocumentFile(p) PROVE FilesInv'
  <2>1. PICK u \in Accounts, d \in Documents, x \in FileIds : Coll!Upload(p, u, d, x)
    BY <1>1 DEF Coll!uploadDocumentFile
  <2> DEFINE r == [step |-> "fileLock", id |-> x, token |-> None, document |-> d]
  <2>2. listReq' = [listReq EXCEPT ![p] = r] /\ UNCHANGED <<files, documents, lock>>
    BY <2>1 DEF Coll!Upload, Coll!Begin, Coll!stored
  <2>3. r.step = "fileLock" /\ r \in FileJob
    BY DEF FileJob, FileSteps
  <2> HIDE DEF r
  <2> QED BY <2>2, <2>3, FilesGiveUp
<1>2. ASSUME Coll!deleteDocumentFile(p) PROVE FilesInv'
  <2>1. PICK u \in Accounts, d \in Documents, x \in FileIds : Coll!DeleteFile(p, u, d, x)
    BY <1>2 DEF Coll!deleteDocumentFile
  <2>2. files' = [files EXCEPT ![x] = None] /\ UNCHANGED <<documents, lock, listReq>>
    BY <2>1 DEF Coll!DeleteFile
  <2>3. files \in [FileIds -> documents \cup {None}]
    BY DEF FilesInv, FileTypes
  <2>4. files' \in [FileIds -> documents' \cup {None}] /\ \A y \in FileIds : files'[y] \in {files[y], None}
    BY <2>2, <2>3
  <2>5. documents' = documents
    BY <2>2
  <2> QED BY <2>2, <2>4, <2>5, FilesRemoved
<1> QED BY <1>1, <1>2 DEF Coll!FileRequest

LEMMA DeleteDocumentKeeps ==
  ASSUME FilesInv, NEW d \in Documents, Coll!DeleteDocument(d)
  PROVE  FilesInv'
<1>1. /\ lock[d] = None /\ documents' = documents \ {d} /\ UNCHANGED <<lock, listReq>>
      /\ files' = [x \in FileIds |-> IF files[x] = d THEN None ELSE files[x]]
  BY DEF Coll!DeleteDocument
<1>2. files \in [FileIds -> documents \cup {None}]
  BY DEF FilesInv, FileTypes
<1>3. files' \in [FileIds -> documents' \cup {None}] /\ \A y \in FileIds : files'[y] \in {files[y], None}
  BY <1>1, <1>2
<1>4. documents' \in SUBSET documents /\ \A e \in documents \ documents' : lock[e] = None
  BY <1>1
<1> QED BY <1>1, <1>3, <1>4, FilesRemoved

LEMMA FileWriteKeeps ==
  ASSUME FilesInv, NEW p \in Procs, Coll!FileWrite(p)
  PROVE  FilesInv'
<1> DEFINE d == listReq[p].document
<1>0. /\ OnFile(p) => listReq[p] \in FileJob /\ d \in Documents
      /\ Locking(p) => lock[d] = p /\ d \in documents
      /\ lock \in [Documents -> Procs \cup {None}]
  BY DEF FilesInv, FileTypes, LockHeld, FileJob
<1>1. ASSUME listReq[p].step = "fileLock", Coll!fileLock(p) PROVE FilesInv'
  <2>1. CASE Coll!Refuse(p)
    <3>1. listReq' = [listReq EXCEPT ![p] = Coll!NoRequest] /\ UNCHANGED <<files, documents, lock>>
      BY <2>1 DEF Coll!Refuse, Coll!Answer, Coll!Go, Coll!stored
    <3>2. Coll!NoRequest.step = "idle"
      BY DEF Coll!NoRequest
    <3> QED BY <3>1, <3>2, FilesGiveUp
  <2>2. CASE d \in documents
    <3> DEFINE r == [listReq[p] EXCEPT !.step = "fileCount"]
    <3>1. /\ lock[d] = None /\ lock' = [lock EXCEPT ![d] = p]
          /\ listReq' = [listReq EXCEPT ![p] = r] /\ UNCHANGED <<files, documents>>
      BY <1>1, <2>2, Zenon DEF Coll!fileLock, Coll!Go
    <3>2. OnFile(p)
      BY <1>1 DEF OnFile, FileSteps
    <3>3. r \in FileJob /\ r.step = "fileCount" /\ r.document = d
      BY <1>0, <3>2 DEF FileJob, FileSteps
    <3> HIDE DEF r
    <3> QED BY <2>2, <3>1, <3>2, <3>3, FileMovesOn
  <2> QED BY <1>1, <2>1, <2>2 DEF Coll!fileLock
<1>2. ASSUME listReq[p].step = "fileCount", Coll!fileCount(p) PROVE FilesInv'
  <2>1. OnFile(p) /\ Locking(p)
    BY <1>2 DEF OnFile, FileSteps, Locking
  <2>2. CASE Cardinality(FilesOf(d)) >= MaxFilesPerSubject
    <3>1. /\ lock' = [lock EXCEPT ![d] = None] /\ UNCHANGED <<files, documents>>
          /\ listReq' = [listReq EXCEPT ![p] = Coll!NoRequest]
      BY <1>2, <2>2, CollCardinality DEF Coll!fileCount, Coll!Go, Coll!Answer, Coll!filesOf, FilesOf
    <3> QED BY <2>1, <3>1, FileUnlocks
  <2>3. CASE ~(Cardinality(FilesOf(d)) >= MaxFilesPerSubject)
    <3> DEFINE r == [listReq[p] EXCEPT !.step = "fileInsert"]
    <3>1. listReq' = [listReq EXCEPT ![p] = r] /\ UNCHANGED <<files, documents, lock>>
      BY <1>2, <2>3, CollCardinality DEF Coll!fileCount, Coll!Go, Coll!filesOf, FilesOf, Coll!stored
    <3>2. r \in FileJob /\ r.step = "fileInsert" /\ r.document = d
      BY <1>0, <2>1 DEF FileJob, FileSteps
    <3> HIDE DEF r
    <3>3. lock' = [lock EXCEPT ![d] = p]
      BY <1>0, <2>1, <3>1
    <3>4. Cardinality(FilesOf(d)) < MaxFilesPerSubject
      BY <2>3, FileSets, CollectionsAssumption
    <3> QED BY <1>0, <2>1, <3>1, <3>2, <3>3, <3>4, FileMovesOn
  <2> QED BY <2>2, <2>3
<1>3. ASSUME listReq[p].step = "fileInsert", Coll!fileInsert(p) PROVE FilesInv'
  <2>1. Locking(p)
    BY <1>3 DEF Locking
  <2>2. /\ lock' = [lock EXCEPT ![d] = None] /\ UNCHANGED documents
        /\ files' = [files EXCEPT ![listReq[p].id] = d] /\ listReq' = [listReq EXCEPT ![p] = Coll!NoRequest]
    BY <1>3 DEF Coll!fileInsert, Coll!Go, Coll!Answer
  <2> QED BY <1>3, <2>1, <2>2, FileUnlocks
<1> QED BY <1>1, <1>2, <1>3 DEF Coll!FileWrite

-----------------------------------------------------------------------------
(* Collections: the three together. *)

CollInv == RulesInv /\ ReportsInv /\ FilesInv

\* Nothing happens to a collection and its requests.
LEMMA TablesStay ==
  ASSUME UNCHANGED <<rules, revoked, stale, reports, ordered, listReq, given>>
  PROVE  (RulesInv => RulesInv') /\ (ReportsInv => ReportsInv')
<1>1. RulesInv => RulesInv'
  <2>1. /\ RuleTypes' = RuleTypes /\ InsertAlone' = InsertAlone /\ Provenance' = Provenance
    BY DEF RuleTypes, InsertAlone, Provenance, Inserting, Changing, OnRule, RuleSteps, RuleOK, Coll!Rule
  <2>2. TokensNameOne' = TokensNameOne /\ TokensNew' = TokensNew /\ RevokedInStale' = RevokedInStale
    BY DEF TokensNameOne, TokensNew, RevokedInStale, NewToken, Changing
  <2>3. RuleQuota' = RuleQuota
    BY DEF RuleQuota, RulesOf, NewRules, Inserting
  <2> QED BY <2>1, <2>2, <2>3 DEF RulesInv
<1>2. ReportsInv => ReportsInv'
  <2>1. ReportTypes' = ReportTypes /\ ReportAlone' = ReportAlone
    BY DEF ReportTypes, ReportAlone, OnReport, NewReport, Reordering, ReportSteps, OrderOK, Coll!Report
  <2>2. ReportQuota' = ReportQuota
    BY DEF ReportQuota, ReportsOf, NewReports, NewReport
  <2>3. \A e : InOrder(e)' = InOrder(e)
    BY DEF InOrder
  <2> QED BY <2>1, <2>2, <2>3 DEF ReportsInv
<1> QED BY <1>1, <1>2

LEMMA FilesStay ==
  ASSUME UNCHANGED <<files, documents, lock, listReq>>
  PROVE  FilesInv => FilesInv'
<1>1. FileTypes' = FileTypes /\ LockHeld' = LockHeld
  BY DEF FileTypes, LockHeld, OnFile, Locking, FileJob, FileSteps
<1>2. FileQuota' = FileQuota
  BY DEF FileQuota, FilesOf
<1> QED BY <1>1, <1>2 DEF FilesInv

\* A request of one kind leaves the tables of the other two alone, and is none of theirs
\* before or after.
LEMMA RuleStepIsForeign ==
  ASSUME CollInv, NEW p \in Procs, Coll!RuleRequest(p) \/ Coll!RuleWrite(p)
  PROVE  ReportsInv' /\ FilesInv'
<1>1. UNCHANGED <<reports, ordered, files, documents, lock>>
  BY DEF Coll!RuleRequest, Coll!RuleWrite, Coll!stored, Coll!ruleInsert, Coll!ruleUpdate, Coll!ruleDelete, Coll!Refuse
<1>2. \E r : /\ listReq' = [listReq EXCEPT ![p] = r] /\ r.step \in RuleSteps \cup {"idle"} /\ given \subseteq given'
  <2>1. ASSUME NEW r, Coll!Begin(p, r), r.step \in RuleSteps
        PROVE  \E q : listReq' = [listReq EXCEPT ![p] = q] /\ q.step \in RuleSteps \cup {"idle"} /\ given \subseteq given'
    BY <2>1 DEF Coll!Begin
  <2>2. ASSUME Coll!RuleWrite(p)
        PROVE  listReq' = [listReq EXCEPT ![p] = Coll!NoRequest] /\ given' = given
    BY <2>2 DEF Coll!RuleWrite, Coll!ruleInsert, Coll!ruleUpdate, Coll!ruleDelete, Coll!Refuse, Coll!Answer, Coll!Go
  <2>3. Coll!NoRequest.step = "idle"
    BY DEF Coll!NoRequest
  <2>4. \A x, w : Coll!Insertion(x, w).step \in RuleSteps /\ Coll!Change(x, w).step \in RuleSteps
    BY DEF Coll!Insertion, Coll!Change, RuleSteps
  <2>5. \A x : [step |-> "ruleDelete", id |-> x, token |-> None].step \in RuleSteps
    BY DEF RuleSteps
  <2>6. Coll!RuleRequest(p) => \E r : Coll!Begin(p, r) /\ r.step \in RuleSteps
    <3>1. Coll!CreateCustomCurrencyRule(p) => \E x, w : Coll!Begin(p, Coll!Insertion(x, w))
      BY Zenon DEF Coll!CreateCustomCurrencyRule, Coll!CreateRule
    <3>2. Coll!ImportSharedCustomCurrencyRule(p) => \E x, w : Coll!Begin(p, Coll!Insertion(x, w))
      BY Zenon DEF Coll!ImportSharedCustomCurrencyRule, Coll!ImportRule
    <3>3. Coll!UpdateCustomCurrencyRule(p) => \E x, w : Coll!Begin(p, Coll!Change(x, w))
      BY Zenon DEF Coll!UpdateCustomCurrencyRule, Coll!UpdateRule
    <3>4. Coll!SetCustomCurrencyRuleEnabled(p) => \E x, w : Coll!Begin(p, Coll!Change(x, w))
      BY Zenon DEF Coll!SetCustomCurrencyRuleEnabled, Coll!SetEnabled
    <3>5. Coll!SetCustomCurrencyRuleNotify(p) => \E x, w : Coll!Begin(p, Coll!Change(x, w))
      BY Zenon DEF Coll!SetCustomCurrencyRuleNotify, Coll!SetNotify
    <3>6. Coll!setCustomCurrencyShare(p) => \E x, w : Coll!Begin(p, Coll!Change(x, w))
      BY Zenon DEF Coll!setCustomCurrencyShare, Coll!SetShared
    <3>7. Coll!DeleteCustomCurrencyRule(p) => \E x : Coll!Begin(p, [step |-> "ruleDelete", id |-> x, token |-> None])
      BY Zenon DEF Coll!DeleteCustomCurrencyRule, Coll!DeleteRule
    <3> QED BY <2>4, <2>5, <3>1, <3>2, <3>3, <3>4, <3>5, <3>6, <3>7, Zenon DEF Coll!RuleRequest
  <2> QED BY <2>1, <2>2, <2>3, <2>6
<1>3. PICK r : listReq' = [listReq EXCEPT ![p] = r] /\ r.step \in RuleSteps \cup {"idle"} /\ given \subseteq given'
  BY <1>2
<1>4. r.step \notin ReportSteps /\ r.step \notin FileSteps
  BY <1>3 DEF RuleSteps, ReportSteps, FileSteps
<1>5. ReportsInv'
  BY <1>1, <1>3, <1>4, ReportGivesUp DEF CollInv
<1>6. FilesInv'
  BY <1>1, <1>3, <1>4, FilesGiveUp DEF CollInv, FileSteps
<1> QED BY <1>5, <1>6

LEMMA ReportStepIsForeign ==
  ASSUME CollInv, NEW p \in Procs, Coll!ReportRequest(p) \/ Coll!ReportWrite(p)
  PROVE  RulesInv' /\ FilesInv'
<1>1. UNCHANGED <<rules, revoked, stale, files, documents, lock>>
  BY DEF Coll!ReportRequest, Coll!ReportWrite, Coll!stored, Coll!reportInsert, Coll!reportStore, Coll!reportUpdate,
         Coll!reportDelete, Coll!SetPositions, Coll!Refuse
<1>2. \E r : /\ listReq' = [listReq EXCEPT ![p] = r] /\ r.step \in ReportSteps \cup {"idle"} /\ given \subseteq given'
  <2>1. ASSUME NEW r, Coll!Begin(p, r), r.step \in ReportSteps
        PROVE  \E q : listReq' = [listReq EXCEPT ![p] = q] /\ q.step \in ReportSteps \cup {"idle"} /\ given \subseteq given'
    BY <2>1 DEF Coll!Begin
  <2>2. ASSUME Coll!ReportWrite(p)
        PROVE  /\ \/ listReq' = [listReq EXCEPT ![p] = Coll!NoRequest]
                  \/ \E x, t, w : listReq' = [listReq EXCEPT ![p] =
                                       [step |-> "reportStore", id |-> x, token |-> None, seen |-> t, report |-> w]]
               /\ given' = given
    BY <2>2, Zenon DEF Coll!ReportWrite, Coll!reportInsert, Coll!reportStore, Coll!reportUpdate, Coll!reportDelete, Coll!SetPositions,
                Coll!Refuse, Coll!Answer, Coll!Go
  <2>3. Coll!NoRequest.step = "idle"
    BY DEF Coll!NoRequest
  <2>4. /\ \A x, w : [step |-> "reportInsert", id |-> x, token |-> None, report |-> w].step \in ReportSteps
        /\ \A x, w : [step |-> "reportUpdate", id |-> x, token |-> None, report |-> w].step \in ReportSteps
        /\ \A x : [step |-> "reportDelete", id |-> x, token |-> None].step \in ReportSteps
        /\ \A x, t, w : [step |-> "reportStore", id |-> x, token |-> None, seen |-> t, report |-> w].step \in ReportSteps
        /\ \A s, u : [step |-> "reorder", id |-> None, token |-> None, order |-> s, owner |-> u].step \in ReportSteps
    BY DEF ReportSteps
  <2>6. Coll!ReportRequest(p) => \E r : Coll!Begin(p, r) /\ r.step \in ReportSteps
    <3>1. Coll!CreateCustomReport(p) =>
            \E x, w : Coll!Begin(p, [step |-> "reportInsert", id |-> x, token |-> None, report |-> w])
      BY Zenon DEF Coll!CreateCustomReport, Coll!CreateReport
    <3>2. Coll!UpdateCustomReport(p) =>
            \E x, w : Coll!Begin(p, [step |-> "reportUpdate", id |-> x, token |-> None, report |-> w])
      BY Zenon DEF Coll!UpdateCustomReport, Coll!UpdateReport
    <3>3. Coll!DeleteCustomReport(p) => \E x : Coll!Begin(p, [step |-> "reportDelete", id |-> x, token |-> None])
      BY Zenon DEF Coll!DeleteCustomReport, Coll!DeleteReport
    <3>4. Coll!ReorderCustomReports(p) =>
            \E s, u : Coll!Begin(p, [step |-> "reorder", id |-> None, token |-> None, order |-> s, owner |-> u])
      BY Zenon DEF Coll!ReorderCustomReports, Coll!Reorder
    <3> QED BY <2>4, <3>1, <3>2, <3>3, <3>4, Zenon DEF Coll!ReportRequest
  <2> QED BY <2>1, <2>2, <2>3, <2>4, <2>6, ZenonT(60)
<1>3. PICK r : listReq' = [listReq EXCEPT ![p] = r] /\ r.step \in ReportSteps \cup {"idle"} /\ given \subseteq given'
  BY <1>2
<1>4. r.step \notin RuleSteps /\ r.step \notin FileSteps
  BY <1>3 DEF RuleSteps, ReportSteps, FileSteps
<1>5. RulesInv'
  BY <1>1, <1>3, <1>4, RuleGivesUp DEF CollInv
<1>6. FilesInv'
  BY <1>1, <1>3, <1>4, FilesGiveUp DEF CollInv, FileSteps
<1> QED BY <1>5, <1>6

LEMMA FileStepIsForeign ==
  ASSUME CollInv, NEW p \in Procs, Coll!FileRequest(p) \/ Coll!FileWrite(p)
  PROVE  RulesInv' /\ ReportsInv'
<1>1. UNCHANGED <<rules, revoked, stale, reports, ordered>> /\ given \subseteq given'
  BY DEF Coll!FileRequest, Coll!FileWrite, Coll!uploadDocumentFile, Coll!deleteDocumentFile, Coll!Upload, Coll!DeleteFile,
         Coll!Begin, Coll!stored, Coll!fileLock, Coll!fileCount, Coll!fileInsert, Coll!Refuse, Coll!Answer, Coll!Go
<1>2. \E r : /\ listReq' = [listReq EXCEPT ![p] = r] /\ r.step \in FileSteps \cup {"idle"}
             \/ UNCHANGED <<listReq, given>>
  <2>1. ASSUME Coll!FileRequest(p)
        PROVE  UNCHANGED <<listReq, given>> \/ \E x, d : listReq' = [listReq EXCEPT ![p] = [step |-> "fileLock", id |-> x, token |-> None, document |-> d]]
    BY <2>1, Zenon DEF Coll!FileRequest, Coll!uploadDocumentFile, Coll!deleteDocumentFile, Coll!Upload, Coll!DeleteFile, Coll!Begin
  <2>2. \A x, d : [step |-> "fileLock", id |-> x, token |-> None, document |-> d].step \in FileSteps
    BY DEF FileSteps
  <2>3. Coll!NoRequest.step = "idle"
    BY DEF Coll!NoRequest
  <2>4. ASSUME Coll!FileWrite(p)
        PROVE  \/ listReq' = [listReq EXCEPT ![p] = Coll!NoRequest]
               \/ listReq' = [listReq EXCEPT ![p] = [listReq[p] EXCEPT !.step = "fileCount"]]
               \/ listReq' = [listReq EXCEPT ![p] = [listReq[p] EXCEPT !.step = "fileInsert"]]
    BY <2>4 DEF Coll!FileWrite, Coll!fileLock, Coll!fileCount, Coll!fileInsert, Coll!Refuse, Coll!Answer, Coll!Go
  <2>5. Coll!FileWrite(p) => listReq[p] \in FileJob
    BY DEF Coll!FileWrite, CollInv, FilesInv, FileTypes, OnFile, FileSteps
  <2>6. Coll!FileWrite(p) => /\ [listReq[p] EXCEPT !.step = "fileCount"].step \in FileSteps
                             /\ [listReq[p] EXCEPT !.step = "fileInsert"].step \in FileSteps
    BY <2>5 DEF FileJob, FileSteps
  <2> QED BY <2>1, <2>2, <2>3, <2>4, <2>6, ZenonT(60)
<1>3. CASE UNCHANGED <<listReq, given>>
  BY <1>1, <1>3, TablesStay DEF CollInv
<1>4. CASE \E r : listReq' = [listReq EXCEPT ![p] = r] /\ r.step \in FileSteps \cup {"idle"}
  <2>1. PICK r : listReq' = [listReq EXCEPT ![p] = r] /\ r.step \in FileSteps \cup {"idle"}
    BY <1>4
  <2>2. r.step \notin RuleSteps /\ r.step \notin ReportSteps
    BY <2>1 DEF RuleSteps, ReportSteps, FileSteps
  <2>3. RulesInv'
    BY <1>1, <2>1, <2>2, RuleGivesUp DEF CollInv
  <2>4. ReportsInv'
    BY <1>1, <2>1, <2>2, ReportGivesUp DEF CollInv
  <2> QED BY <2>3, <2>4
<1> QED BY <1>2, <1>3, <1>4

LEMMA CollNextKeeps ==
  ASSUME CollInv, Coll!Next
  PROVE  CollInv'
<1>1. ASSUME NEW p \in Procs, Coll!RuleRequest(p) \/ Coll!RuleWrite(p) PROVE CollInv'
  BY <1>1, RuleStepIsForeign, RuleRequestKeeps, RuleWriteKeeps DEF CollInv
<1>2. ASSUME NEW p \in Procs, Coll!ReportRequest(p) \/ Coll!ReportWrite(p) PROVE CollInv'
  BY <1>2, ReportStepIsForeign, ReportRequestKeeps, ReportWriteKeeps DEF CollInv
<1>3. ASSUME NEW p \in Procs, Coll!FileRequest(p) \/ Coll!FileWrite(p) PROVE CollInv'
  BY <1>3, FileStepIsForeign, FileRequestKeeps, FileWriteKeeps DEF CollInv
<1>4. ASSUME NEW d \in Documents, Coll!DeleteDocument(d) PROVE CollInv'
  <2>1. UNCHANGED <<rules, revoked, stale, reports, ordered, listReq, given>>
    BY <1>4 DEF Coll!DeleteDocument
  <2> QED BY <1>4, <2>1, DeleteDocumentKeeps, TablesStay DEF CollInv
<1> QED BY <1>1, <1>2, <1>3, <1>4, Zenon DEF Coll!Next

LEMMA CollInitially == Coll!Init => CollInv
<1> SUFFICES ASSUME Coll!Init PROVE CollInv
  OBVIOUS
<1>1. /\ rules = [id \in RuleIds |-> None] /\ reports = [id \in ReportIds |-> None] /\ files = [x \in FileIds |-> None]
      /\ documents = Documents /\ lock = [d \in Documents |-> None] /\ listReq = [p \in Procs |-> Coll!NoRequest]
      /\ revoked = {} /\ stale = {} /\ ordered = {} /\ given = {}
  BY DEF Coll!Init
<1>2. DOMAIN listReq = Procs /\ \A p \in Procs : listReq[p].step = "idle"
  BY <1>1 DEF Coll!NoRequest
<1>3. \A p \in Procs : /\ ~Inserting(p) /\ ~Changing(p) /\ ~OnRule(p) /\ ~OnReport(p) /\ ~NewReport(p)
                       /\ ~Reordering(p) /\ ~OnFile(p) /\ ~Locking(p)
  BY <1>2 DEF Inserting, Changing, OnRule, OnReport, NewReport, Reordering, OnFile, Locking, RuleSteps, ReportSteps, FileSteps
<1>4. Cardinality(Procs) \in Nat /\ Cardinality(Procs) >= 1
  BY QuotaSets
<1>5. RulesInv
  <2>1. RuleTypes /\ InsertAlone /\ Provenance
    BY <1>1, <1>2, <1>3 DEF RuleTypes, InsertAlone, Provenance
  <2>2. TokensNameOne /\ TokensNew /\ RevokedInStale
    BY <1>1, <1>3 DEF TokensNameOne, TokensNew, RevokedInStale
  <2>3. \A u : RulesOf(u) = {} /\ NewRules(u) = {}
    BY <1>1, <1>3 DEF RulesOf, NewRules
  <2>4. RuleQuota
    <3>1. Cardinality({}) = 0
      BY FS_EmptySet
    <3>2. \A u : Cardinality(RulesOf(u)) = 0 /\ Cardinality(NewRules(u)) = 0
      BY <2>3, <3>1
    <3>3. 0 <= MaxRulesPerUser + Cardinality(Procs) - 1
      BY <1>4, CollectionsAssumption
    <3> QED BY <3>2, <3>3 DEF RuleQuota
  <2> QED BY <2>1, <2>2, <2>4 DEF RulesInv
<1>6. ReportsInv
  <2>1. ReportTypes /\ ReportAlone
    BY <1>1, <1>2, <1>3 DEF ReportTypes, ReportAlone, OnReport, ReportSteps
  <2>3. \A u : ReportsOf(u) = {} /\ NewReports(u) = {}
    BY <1>1, <1>3 DEF ReportsOf, NewReports
  <2>4. ReportQuota
    <3>1. Cardinality({}) = 0
      BY FS_EmptySet
    <3>2. \A u : Cardinality(ReportsOf(u)) = 0 /\ Cardinality(NewReports(u)) = 0
      BY <2>3, <3>1
    <3>3. 0 <= MaxReportsPerUser + Cardinality(Procs) - 1
      BY <1>4, CollectionsAssumption
    <3> QED BY <3>2, <3>3 DEF ReportQuota
  <2> QED BY <1>1, <2>1, <2>4 DEF ReportsInv
<1>7. FilesInv
  <2>1. FileTypes /\ LockHeld
    BY <1>1, <1>2, <1>3 DEF FileTypes, LockHeld
  <2>2. \A d \in Documents : FilesOf(d) = {}
    BY <1>1, CollectionsAssumption DEF FilesOf
  <2>3. FileQuota
    BY <1>2, <2>2, FS_EmptySet, CollectionsAssumption DEF FileQuota
  <2> QED BY <2>1, <2>3 DEF FilesInv
<1> QED BY <1>5, <1>6, <1>7 DEF CollInv

-----------------------------------------------------------------------------
(* Collections: the plain limits of an account whose creations never overlapped. *)

\* A is what is stored, B who is about to store one more, n the limit.
Plain(A, B, n) == /\ \A p, q \in B : p = q
                  /\ Cardinality(A) <= n
                  /\ B # {} => Cardinality(A) < n
\* What a step may do to them: take away, begin one when there is room, or store one.
Moves(A, B, A1, B1, n) ==
  \/ A1 \subseteq A /\ B1 \subseteq B
  \/ A1 = A /\ B = {} /\ (\E p : B1 = {p}) /\ Cardinality(A) < n
  \/ (\E p \in B : B1 = B \ {p}) /\ (\E x : A1 = A \cup {x})

LEMMA PlainMoves ==
  ASSUME NEW A, NEW B, NEW A1, NEW B1, NEW n \in Nat, IsFiniteSet(A), Plain(A, B, n), Moves(A, B, A1, B1, n)
  PROVE  Plain(A1, B1, n)
<1>0. Cardinality(A) \in Nat
  BY FS_CardinalityType
<1>1. CASE A1 \subseteq A /\ B1 \subseteq B
  <2>1. Cardinality(A1) <= Cardinality(A) /\ Cardinality(A1) \in Nat
    BY <1>1, FS_Subset, FS_CardinalityType
  <2> QED BY <1>0, <1>1, <2>1 DEF Plain
<1>2. CASE A1 = A /\ B = {} /\ (\E p : B1 = {p}) /\ Cardinality(A) < n
  BY <1>0, <1>2 DEF Plain
<1>3. CASE (\E p \in B : B1 = B \ {p}) /\ (\E x : A1 = A \cup {x})
  <2>1. PICK p \in B : B1 = B \ {p}
    BY <1>3
  <2>2. B1 = {} /\ Cardinality(A) < n
    BY <2>1 DEF Plain
  <2>3. PICK x : A1 = A \cup {x}
    BY <1>3
  <2>4. Cardinality(A1) = IF x \in A THEN Cardinality(A) ELSE Cardinality(A) + 1
    BY <2>3, FS_AddElement
  <2> QED BY <1>0, <2>2, <2>4 DEF Plain
<1> QED BY <1>1, <1>2, <1>3 DEF Moves

PlainInv == \A u \in Accounts \ overlapped : /\ Plain(RulesOf(u), NewRules(u), MaxRulesPerUser)
                                              /\ Plain(ReportsOf(u), NewReports(u), MaxReportsPerUser)

\* Every step of the collections moves each account's rules and reports in this way.
LEMMA PlainKeeps ==
  ASSUME PlainInv, overlapped \subseteq overlapped',
         \A u \in Accounts \ overlapped' :
           /\ Moves(RulesOf(u), NewRules(u), RulesOf(u)', NewRules(u)', MaxRulesPerUser)
           /\ Moves(ReportsOf(u), NewReports(u), ReportsOf(u)', NewReports(u)', MaxReportsPerUser)
  PROVE  PlainInv'
<1> SUFFICES ASSUME NEW u \in Accounts \ overlapped'
             PROVE  /\ Plain(RulesOf(u)', NewRules(u)', MaxRulesPerUser)
                    /\ Plain(ReportsOf(u)', NewReports(u)', MaxReportsPerUser)
  BY Zenon DEF PlainInv, Plain
<1>1. Plain(RulesOf(u), NewRules(u), MaxRulesPerUser) /\ Plain(ReportsOf(u), NewReports(u), MaxReportsPerUser)
  BY DEF PlainInv
<1>2. IsFiniteSet(RulesOf(u)) /\ IsFiniteSet(ReportsOf(u)) /\ MaxRulesPerUser \in Nat /\ MaxReportsPerUser \in Nat
  BY QuotaSets, ReportSets, CollectionsAssumption
<1> QED BY <1>1, <1>2, PlainMoves

\* A request begins: one that creates was counted in, and if another was already creating the
\* same kind for the account, the two overlap.
LEMMA PlainBegins ==
  ASSUME CollInv, PlainInv, NEW p \in Procs, NEW r, Coll!Begin(p, r), UNCHANGED <<rules, reports>>,
         r.step # "reportStore",
         r.step = "ruleInsert" => Cardinality(RulesOf(r.rule.owner)) < MaxRulesPerUser,
         r.step = "reportInsert" => Cardinality(ReportsOf(r.report.owner)) < MaxReportsPerUser
  PROVE  PlainInv'
<1>1. /\ listReq[p].step = "idle" /\ listReq' = [listReq EXCEPT ![p] = r]
      /\ overlapped' = overlapped \cup Coll!overlap(r)
  BY DEF Coll!Begin, Coll!Idle, Coll!NoRequest
<1>2. /\ DOMAIN listReq' = Procs /\ listReq'[p] = r
      /\ \A q \in Procs : q # p => listReq'[q] = listReq[q]
  BY <1>1, OneMoves DEF CollInv, RulesInv, RuleTypes
<1>3. \A u : RulesOf(u)' = RulesOf(u) /\ ReportsOf(u)' = ReportsOf(u)
  BY DEF RulesOf, ReportsOf
<1>4. ASSUME NEW u \in Accounts \ overlapped'
      PROVE  Moves(RulesOf(u), NewRules(u), RulesOf(u)', NewRules(u)', MaxRulesPerUser)
  <2>1. CASE r.step = "ruleInsert" /\ r.rule.owner = u
    <3>1. \A q \in Procs : u \notin Coll!ruleFor(r) \cap Coll!ruleFor(listReq[q])
      BY <1>1 DEF Coll!overlap
    <3>2. \A q \in Procs : ~(Inserting(q) /\ listReq[q].rule.owner = u)
      BY <2>1, <3>1 DEF Coll!ruleFor, Inserting
    <3>3. NewRules(u) = {} /\ NewRules(u)' = {p}
      BY <1>2, <2>1, <3>2 DEF NewRules, Inserting
    <3> QED BY <1>3, <2>1, <3>3 DEF Moves
  <2>2. CASE ~(r.step = "ruleInsert" /\ r.rule.owner = u)
    <3>1. NewRules(u)' \subseteq NewRules(u)
      BY <1>2, <2>2 DEF NewRules, Inserting
    <3> QED BY <1>3, <3>1 DEF Moves
  <2> QED BY <2>1, <2>2
<1>5. ASSUME NEW u \in Accounts \ overlapped'
      PROVE  Moves(ReportsOf(u), NewReports(u), ReportsOf(u)', NewReports(u)', MaxReportsPerUser)
  <2>1. CASE r.step = "reportInsert" /\ r.report.owner = u
    <3>1. \A q \in Procs : u \notin Coll!reportFor(r) \cap Coll!reportFor(listReq[q])
      BY <1>1 DEF Coll!overlap
    <3>2. \A q \in Procs : ~(NewReport(q) /\ listReq[q].report.owner = u)
      BY <2>1, <3>1 DEF Coll!reportFor, NewReport
    <3>3. NewReports(u) = {} /\ NewReports(u)' = {p}
      BY <1>2, <2>1, <3>2 DEF NewReports, NewReport
    <3> QED BY <1>3, <2>1, <3>3 DEF Moves
  <2>2. CASE ~(r.step = "reportInsert" /\ r.report.owner = u)
    <3>1. NewReports(u)' \subseteq NewReports(u)
      BY <1>2, <2>2 DEF NewReports, NewReport
    <3> QED BY <1>3, <3>1 DEF Moves
  <2> QED BY <2>1, <2>2
<1>6. overlapped \subseteq overlapped'
  BY <1>1
<1> QED BY <1>4, <1>5, <1>6, PlainKeeps, Zenon

\* A request moves on or ends: rules and reports are as before, or some of them are gone.
LEMMA PlainGoesOn ==
  ASSUME CollInv, PlainInv, NEW p \in Procs, NEW r, listReq' = [listReq EXCEPT ![p] = r], UNCHANGED overlapped,
         r.step # "ruleInsert", r.step \notin {"reportInsert", "reportStore"}
           \/ (NewReport(p) /\ r.report.owner = listReq[p].report.owner),
         \A x \in RuleIds : rules'[x] # None => rules[x] # None /\ rules'[x].owner = rules[x].owner,
         \A x \in ReportIds : reports'[x] # None => reports[x] # None /\ reports'[x].owner = reports[x].owner
  PROVE  PlainInv'
<1>2. /\ DOMAIN listReq' = Procs /\ listReq'[p] = r
      /\ \A q \in Procs : q # p => listReq'[q] = listReq[q]
  BY OneMoves DEF CollInv, RulesInv, RuleTypes
<1>3. \A u : RulesOf(u)' \subseteq RulesOf(u) /\ ReportsOf(u)' \subseteq ReportsOf(u)
  BY DEF RulesOf, ReportsOf
<1>4. \A u : NewRules(u)' \subseteq NewRules(u)
  BY <1>2 DEF NewRules, Inserting
<1>5. \A u : NewReports(u)' \subseteq NewReports(u)
  BY <1>2 DEF NewReports, NewReport
<1>6. \A u \in Accounts \ overlapped' :
        /\ Moves(RulesOf(u), NewRules(u), RulesOf(u)', NewRules(u)', MaxRulesPerUser)
        /\ Moves(ReportsOf(u), NewReports(u), ReportsOf(u)', NewReports(u)', MaxReportsPerUser)
  BY <1>3, <1>4, <1>5, Zenon DEF Moves
<1> QED BY <1>6, PlainKeeps, Zenon

LEMMA PlainRuleStored ==
  ASSUME CollInv, PlainInv, NEW p \in Procs, Inserting(p), UNCHANGED <<overlapped, reports>>,
         rules' = [rules EXCEPT ![listReq[p].id] = listReq[p].rule],
         listReq' = [listReq EXCEPT ![p] = Coll!NoRequest]
  PROVE  PlainInv'
<1> DEFINE id == listReq[p].id
           w == listReq[p].rule
<1>1. /\ DOMAIN listReq' = Procs /\ listReq'[p] = Coll!NoRequest
      /\ \A q \in Procs : q # p => listReq'[q] = listReq[q]
  BY OneMoves DEF CollInv, RulesInv, RuleTypes
<1>2. /\ id \in RuleIds /\ rules[id] = None /\ w # None /\ rules'[id] = w
      /\ \A x \in RuleIds : x # id => rules'[x] = rules[x]
  BY CollectionsAssumption DEF CollInv, RulesInv, RuleTypes, InsertAlone, OnRule, Inserting, RuleSteps, RuleOK
<1>3. \A u : NewRules(u)' = NewRules(u) \ {p}
  BY <1>1 DEF NewRules, Inserting, Coll!NoRequest
<1>4. \A u : ReportsOf(u)' = ReportsOf(u) /\ NewReports(u)' \subseteq NewReports(u)
  BY <1>1 DEF ReportsOf, NewReports, NewReport, Coll!NoRequest
<1>5. w.owner = listReq[p].rule.owner
  OBVIOUS
<1> HIDE DEF id, w
<1>6. ASSUME NEW u \in Accounts \ overlapped'
      PROVE  /\ Moves(RulesOf(u), NewRules(u), RulesOf(u)', NewRules(u)', MaxRulesPerUser)
             /\ Moves(ReportsOf(u), NewReports(u), ReportsOf(u)', NewReports(u)', MaxReportsPerUser)
  <2>1. CASE w.owner = u
    <3>1. RulesOf(u)' = RulesOf(u) \cup {id}
      BY <1>2, <2>1 DEF RulesOf
    <3>2. p \in NewRules(u)
      BY <1>5, <2>1 DEF NewRules
    <3> QED BY <1>3, <1>4, <3>1, <3>2, Zenon DEF Moves
  <2>2. CASE w.owner # u
    <3>1. RulesOf(u)' = RulesOf(u) /\ NewRules(u)' \subseteq NewRules(u)
      BY <1>2, <1>3, <2>2 DEF RulesOf
    <3> QED BY <1>4, <3>1 DEF Moves
  <2> QED BY <2>1, <2>2
<1> QED BY <1>6, PlainKeeps, Zenon

LEMMA PlainReportStored ==
  ASSUME CollInv, PlainInv, NEW p \in Procs, listReq[p].step = "reportStore", UNCHANGED <<overlapped, rules>>,
         reports' = [reports EXCEPT ![listReq[p].id] = listReq[p].report],
         listReq' = [listReq EXCEPT ![p] = Coll!NoRequest]
  PROVE  PlainInv'
<1> DEFINE id == listReq[p].id
           w == listReq[p].report
<1>0. NewReport(p) /\ OnReport(p) /\ ~Reordering(p)
  BY DEF NewReport, OnReport, Reordering, ReportSteps
<1>1. /\ DOMAIN listReq' = Procs /\ listReq'[p] = Coll!NoRequest
      /\ \A q \in Procs : q # p => listReq'[q] = listReq[q]
  BY OneMoves DEF CollInv, RulesInv, RuleTypes
<1>2. /\ id \in ReportIds /\ reports[id] = None /\ w # None /\ reports'[id] = w
      /\ \A x \in ReportIds : x # id => reports'[x] = reports[x]
  BY <1>0, CollectionsAssumption DEF CollInv, ReportsInv, ReportTypes, ReportAlone
<1>3. \A u : NewReports(u)' = NewReports(u) \ {p}
  BY <1>1 DEF NewReports, NewReport, Coll!NoRequest
<1>4. \A u : RulesOf(u)' = RulesOf(u) /\ NewRules(u)' \subseteq NewRules(u)
  BY <1>1 DEF RulesOf, NewRules, Inserting, Coll!NoRequest
<1>5. w.owner = listReq[p].report.owner
  OBVIOUS
<1> HIDE DEF id, w
<1>6. ASSUME NEW u \in Accounts \ overlapped'
      PROVE  /\ Moves(RulesOf(u), NewRules(u), RulesOf(u)', NewRules(u)', MaxRulesPerUser)
             /\ Moves(ReportsOf(u), NewReports(u), ReportsOf(u)', NewReports(u)', MaxReportsPerUser)
  <2>1. CASE w.owner = u
    <3>1. ReportsOf(u)' = ReportsOf(u) \cup {id}
      BY <1>2, <2>1 DEF ReportsOf
    <3>2. p \in NewReports(u)
      BY <1>0, <1>5, <2>1 DEF NewReports
    <3> QED BY <1>3, <1>4, <3>1, <3>2, Zenon DEF Moves
  <2>2. CASE w.owner # u
    <3>1. ReportsOf(u)' = ReportsOf(u) /\ NewReports(u)' \subseteq NewReports(u)
      BY <1>2, <1>3, <2>2 DEF ReportsOf
    <3> QED BY <1>4, <3>1 DEF Moves
  <2> QED BY <2>1, <2>2
<1> QED BY <1>6, PlainKeeps, Zenon

LEMMA PlainRuleStep ==
  ASSUME CollInv, PlainInv, NEW p \in Procs, Coll!RuleRequest(p) \/ Coll!RuleWrite(p)
  PROVE  PlainInv'
<1>n. Coll!NoRequest.step \notin {"ruleInsert", "reportInsert", "reportStore"}
  BY DEF Coll!NoRequest
<1>q. \A u : Coll!checkQuota(u) => Cardinality(RulesOf(u)) < MaxRulesPerUser
  BY CollCardinality DEF Coll!checkQuota, Coll!rulesOf, RulesOf
<1>1. ASSUME Coll!RuleRequest(p) PROVE PlainInv'
  <2>0. UNCHANGED <<rules, reports>>
    BY <1>1 DEF Coll!RuleRequest, Coll!stored
  <2>1. ASSUME NEW x, NEW u, NEW d, NEW from, Coll!checkQuota(u), Coll!Begin(p, Coll!Insertion(x, Coll!NewRule(u, d, from)))
        PROVE  PlainInv'
    <3> DEFINE r == Coll!Insertion(x, Coll!NewRule(u, d, from))
    <3>1. r.step = "ruleInsert" /\ r.rule.owner = u
      BY DEF Coll!Insertion, Coll!NewRule
    <3>2. Coll!Begin(p, r)
      BY <2>1
    <3> HIDE DEF r
    <3> QED BY <1>q, <2>0, <2>1, <3>1, <3>2, PlainBegins
  <2>2. ASSUME NEW x, NEW w, Coll!Begin(p, Coll!Change(x, w)) PROVE PlainInv'
    <3>1. Coll!Change(x, w).step = "ruleUpdate"
      BY DEF Coll!Change
    <3> QED BY <2>0, <2>2, <3>1, PlainBegins
  <2>3. ASSUME NEW x, Coll!Begin(p, [step |-> "ruleDelete", id |-> x, token |-> None]) PROVE PlainInv'
    <3> DEFINE r == [step |-> "ruleDelete", id |-> x, token |-> None]
    <3>1. r.step = "ruleDelete" /\ Coll!Begin(p, r)
      BY <2>3
    <3> HIDE DEF r
    <3> QED BY <2>0, <3>1, PlainBegins
  <2>4. Coll!CreateCustomCurrencyRule(p) \/ Coll!ImportSharedCustomCurrencyRule(p) =>
          \E x, u, d, from : Coll!checkQuota(u) /\ Coll!Begin(p, Coll!Insertion(x, Coll!NewRule(u, d, from)))
    BY Zenon DEF Coll!CreateCustomCurrencyRule, Coll!CreateRule, Coll!ImportSharedCustomCurrencyRule, Coll!ImportRule
  <2>5. Coll!UpdateCustomCurrencyRule(p) \/ Coll!SetCustomCurrencyRuleEnabled(p) \/ Coll!SetCustomCurrencyRuleNotify(p) =>
          \E x, w : Coll!Begin(p, Coll!Change(x, w))
    BY Zenon DEF Coll!UpdateCustomCurrencyRule, Coll!UpdateRule, Coll!SetCustomCurrencyRuleEnabled, Coll!SetEnabled,
                 Coll!SetCustomCurrencyRuleNotify, Coll!SetNotify
  <2>6. Coll!setCustomCurrencyShare(p) => \E x, w : Coll!Begin(p, Coll!Change(x, w))
    BY Zenon DEF Coll!setCustomCurrencyShare, Coll!SetShared
  <2>7. Coll!DeleteCustomCurrencyRule(p) => \E x : Coll!Begin(p, [step |-> "ruleDelete", id |-> x, token |-> None])
    BY Zenon DEF Coll!DeleteCustomCurrencyRule, Coll!DeleteRule
  <2> QED BY <1>1, <2>1, <2>2, <2>3, <2>4, <2>5, <2>6, <2>7, Zenon DEF Coll!RuleRequest
<1>2. ASSUME Coll!RuleWrite(p) PROVE PlainInv'
  <2>0. UNCHANGED <<reports, overlapped>> /\ listReq' = [listReq EXCEPT ![p] = Coll!NoRequest]
    BY <1>2 DEF Coll!RuleWrite, Coll!ruleInsert, Coll!ruleUpdate, Coll!ruleDelete, Coll!Refuse, Coll!Answer, Coll!Go, Coll!stored
  <2>1. CASE Coll!Refuse(p)
    <3>1. UNCHANGED rules
      BY <2>1 DEF Coll!Refuse, Coll!stored
    <3> QED BY <1>n, <2>0, <3>1, PlainGoesOn
  <2>2. CASE listReq[p].step = "ruleInsert" /\ Coll!ruleInsert(p)
    <3>1. Inserting(p) /\ rules' = [rules EXCEPT ![listReq[p].id] = listReq[p].rule]
      BY <2>2 DEF Inserting, Coll!ruleInsert
    <3> QED BY <2>0, <3>1, PlainRuleStored
  <2>3. CASE listReq[p].step = "ruleUpdate" /\ Coll!ruleUpdate(p) /\ rules[listReq[p].id] # None
    <3> DEFINE id == listReq[p].id
               old == rules[id]
               w == listReq[p].rule
               v == [w EXCEPT !.owner = old.owner, !.from = old.from]
    <3>1. rules' = [rules EXCEPT ![id] = v]
      BY <2>3, Zenon DEF Coll!ruleUpdate
    <3>2. w \in Coll!Rule /\ id \in RuleIds /\ rules \in [RuleIds -> Coll!Rule \cup {None}] /\ old # None
      BY <2>3 DEF CollInv, RulesInv, RuleTypes, Changing, OnRule, RuleSteps, RuleOK
    <3>o. old = rules[id]
      OBVIOUS
    <3> HIDE DEF id, old, w
    <3>3. v.owner = old.owner
      BY <3>2 DEF Coll!Rule
    <3> HIDE DEF v
    <3>4. \A x \in RuleIds : rules'[x] # None => rules[x] # None /\ rules'[x].owner = rules[x].owner
      BY <3>1, <3>2, <3>3, <3>o
    <3> QED BY <1>n, <2>0, <3>4, PlainGoesOn
  <2>4. CASE listReq[p].step = "ruleDelete" /\ Coll!ruleDelete(p) /\ rules[listReq[p].id] # None
    <3>1. rules' = [x \in RuleIds |-> IF x = listReq[p].id THEN None
                      ELSE IF rules[x] # None /\ rules[x].from = listReq[p].id
                           THEN [rules[x] EXCEPT !.from = None] ELSE rules[x]]
      BY <2>4, Zenon DEF Coll!ruleDelete
    <3>2. rules \in [RuleIds -> Coll!Rule \cup {None}]
      BY DEF CollInv, RulesInv, RuleTypes
    <3>3. ASSUME NEW x \in RuleIds, rules'[x] # None PROVE rules[x] # None /\ rules'[x].owner = rules[x].owner
      <4> DEFINE o == rules[x]
                 n == [o EXCEPT !.from = None]
      <4>1. rules'[x] = o \/ (o # None /\ rules'[x] = n)
        BY <3>1, <3>3
      <4>2. o # None => o \in Coll!Rule
        BY <3>2
      <4>3. o # None => n.owner = o.owner
        BY <4>2 DEF Coll!Rule
      <4> HIDE DEF n
      <4> QED BY <3>3, <4>1, <4>3
    <3> QED BY <1>n, <2>0, <3>3, PlainGoesOn
  <2>5. CASE listReq[p].step = "ruleUpdate" /\ Coll!ruleUpdate(p) /\ rules[listReq[p].id] = None
    BY <2>1, <2>5 DEF Coll!ruleUpdate
  <2>6. CASE listReq[p].step = "ruleDelete" /\ Coll!ruleDelete(p) /\ rules[listReq[p].id] = None
    BY <2>1, <2>6 DEF Coll!ruleDelete
  <2> QED BY <1>2, <2>1, <2>2, <2>3, <2>4, <2>5, <2>6, Zenon DEF Coll!RuleWrite
<1> QED BY <1>1, <1>2

LEMMA PlainReportStep ==
  ASSUME CollInv, PlainInv, NEW p \in Procs, Coll!ReportRequest(p) \/ Coll!ReportWrite(p)
  PROVE  PlainInv'
<1>n. Coll!NoRequest.step \notin {"ruleInsert", "reportInsert", "reportStore"}
  BY DEF Coll!NoRequest
<1>1. ASSUME Coll!ReportRequest(p) PROVE PlainInv'
  <2>0. UNCHANGED <<rules, reports>>
    BY <1>1 DEF Coll!ReportRequest, Coll!stored
  <2>1. ASSUME Coll!CreateCustomReport(p) PROVE PlainInv'
    <3>1. PICK u \in Accounts, id \in ReportIds, d \in Definitions : Coll!CreateReport(p, u, id, d)
      BY <2>1 DEF Coll!CreateCustomReport
    <3> DEFINE w == [owner |-> u, definition |-> d, position |-> 0]
               r == [step |-> "reportInsert", id |-> id, token |-> None, report |-> w]
    <3>2. Cardinality(ReportsOf(u)) < MaxReportsPerUser /\ Coll!Begin(p, r)
      BY <3>1, CollCardinality DEF Coll!CreateReport, Coll!CountByUserID, Coll!reportsOf, ReportsOf
    <3>3. r.step = "reportInsert" /\ r.report.owner = u
      OBVIOUS
    <3> HIDE DEF r
    <3> QED BY <2>0, <3>2, <3>3, PlainBegins
  <2>2. ASSUME NEW r, Coll!Begin(p, r), r.step \in {"reportUpdate", "reportDelete", "reorder"} PROVE PlainInv'
    BY <2>0, <2>2, PlainBegins
  <2>3. /\ \A x, w : [step |-> "reportUpdate", id |-> x, token |-> None, report |-> w].step = "reportUpdate"
        /\ \A x : [step |-> "reportDelete", id |-> x, token |-> None].step = "reportDelete"
        /\ \A s, u : [step |-> "reorder", id |-> None, token |-> None, order |-> s, owner |-> u].step = "reorder"
    OBVIOUS
  <2>4. Coll!UpdateCustomReport(p) =>
          \E x, w : Coll!Begin(p, [step |-> "reportUpdate", id |-> x, token |-> None, report |-> w])
    BY Zenon DEF Coll!UpdateCustomReport, Coll!UpdateReport
  <2>5. Coll!DeleteCustomReport(p) => \E x : Coll!Begin(p, [step |-> "reportDelete", id |-> x, token |-> None])
    BY Zenon DEF Coll!DeleteCustomReport, Coll!DeleteReport
  <2>6. Coll!ReorderCustomReports(p) =>
          \E s, u : Coll!Begin(p, [step |-> "reorder", id |-> None, token |-> None, order |-> s, owner |-> u])
    BY Zenon DEF Coll!ReorderCustomReports, Coll!Reorder
  <2> QED BY <1>1, <2>1, <2>2, <2>3, <2>4, <2>5, <2>6, ZenonT(60) DEF Coll!ReportRequest
<1>2. ASSUME Coll!ReportWrite(p) PROVE PlainInv'
  <2>0. UNCHANGED <<rules, overlapped>>
    BY <1>2 DEF Coll!ReportWrite, Coll!reportInsert, Coll!reportStore, Coll!reportUpdate, Coll!reportDelete,
                Coll!SetPositions, Coll!Refuse, Coll!Answer, Coll!Go, Coll!stored
  <2>r. reports \in [ReportIds -> Coll!Report \cup {None}]
    BY DEF CollInv, ReportsInv, ReportTypes
  <2>1. CASE Coll!Refuse(p)
    <3>1. UNCHANGED reports /\ listReq' = [listReq EXCEPT ![p] = Coll!NoRequest]
      BY <2>1 DEF Coll!Refuse, Coll!Answer, Coll!Go, Coll!stored
    <3> QED BY <1>n, <2>0, <3>1, PlainGoesOn
  <2>2. CASE listReq[p].step = "reportInsert" /\ Coll!reportInsert(p)
    <3>1. PICK s, pos : /\ UNCHANGED reports
                        /\ listReq' = [listReq EXCEPT ![p] =
                             [step |-> "reportStore", id |-> listReq[p].id, token |-> None, seen |-> s,
                              report |-> [listReq[p].report EXCEPT !.position = pos]]]
      BY <2>2, Zenon DEF Coll!reportInsert, Coll!Go, Coll!stored
    <3> DEFINE v == listReq[p].report
               w == [v EXCEPT !.position = pos]
               r == [step |-> "reportStore", id |-> listReq[p].id, token |-> None, seen |-> s, report |-> w]
    <3>2. v \in Coll!Report /\ NewReport(p)
      BY <2>2 DEF CollInv, ReportsInv, ReportTypes, NewReport
    <3>3. w.owner = v.owner
      BY <3>2 DEF Coll!Report
    <3> HIDE DEF w
    <3>4. r.step = "reportStore" /\ r.report.owner = listReq[p].report.owner
      BY <3>3
    <3>5. listReq' = [listReq EXCEPT ![p] = r]
      BY <3>1 DEF w
    <3> HIDE DEF r
    <3> QED BY <2>0, <3>1, <3>2, <3>4, <3>5, PlainGoesOn
  <2>3. CASE listReq[p].step = "reportStore" /\ Coll!reportStore(p)
    BY <2>0, <2>3, PlainReportStored DEF Coll!reportStore, Coll!Answer, Coll!Go
  <2>4. CASE listReq[p].step = "reportUpdate" /\ Coll!reportUpdate(p) /\ reports[listReq[p].id] # None
    <3> DEFINE id == listReq[p].id
               old == reports[id]
               v == [old EXCEPT !.definition = listReq[p].report.definition]
    <3>1. reports' = [reports EXCEPT ![id] = v] /\ listReq' = [listReq EXCEPT ![p] = Coll!NoRequest]
      BY <2>4, Zenon DEF Coll!reportUpdate, Coll!Answer, Coll!Go
    <3>2. id \in ReportIds /\ old # None
      BY <2>4 DEF CollInv, ReportsInv, ReportTypes, OnReport, Reordering, ReportSteps
    <3>3. v.owner = old.owner
      BY <2>r, <3>2 DEF Coll!Report
    <3> HIDE DEF v
    <3>4. \A x \in ReportIds : reports'[x] # None => reports[x] # None /\ reports'[x].owner = reports[x].owner
      BY <2>r, <3>1, <3>2, <3>3
    <3> QED BY <1>n, <2>0, <3>1, <3>4, PlainGoesOn
  <2>5. CASE listReq[p].step = "reportDelete" /\ Coll!reportDelete(p) /\ reports[listReq[p].id] # None
    <3>1. reports' = [reports EXCEPT ![listReq[p].id] = None] /\ listReq' = [listReq EXCEPT ![p] = Coll!NoRequest]
      BY <2>5, Zenon DEF Coll!reportDelete, Coll!Answer, Coll!Go
    <3>2. \A x \in ReportIds : reports'[x] # None => reports[x] # None /\ reports'[x].owner = reports[x].owner
      BY <2>r, <3>1
    <3> QED BY <1>n, <2>0, <3>1, <3>2, PlainGoesOn
  <2>6. CASE listReq[p].step = "reorder" /\ Coll!SetPositions(p)
    <3> DEFINE s == listReq[p].order
               u == listReq[p].owner
               at(x) == CHOOSE i \in DOMAIN s : s[i] = x
    <3>1. /\ reports' = [x \in ReportIds |->
                           IF reports[x] # None /\ reports[x].owner = u /\ x \in Coll!Range(s)
                           THEN [reports[x] EXCEPT !.position = at(x) - 1] ELSE reports[x]]
          /\ listReq' = [listReq EXCEPT ![p] = Coll!NoRequest]
      BY <2>6, Zenon DEF Coll!SetPositions, Coll!Answer, Coll!Go
    <3> HIDE DEF s, u, at
    <3>2. ASSUME NEW x \in ReportIds, reports'[x] # None PROVE reports[x] # None /\ reports'[x].owner = reports[x].owner
      <4> DEFINE o == reports[x]
                 n == [o EXCEPT !.position = at(x) - 1]
      <4>1. reports'[x] = o \/ (o # None /\ reports'[x] = n)
        BY <3>1, <3>2
      <4>2. o # None => o \in Coll!Report
        BY <2>r
      <4>3. o # None => n.owner = o.owner
        BY <4>2 DEF Coll!Report
      <4> HIDE DEF n
      <4> QED BY <3>2, <4>1, <4>3
    <3> QED BY <1>n, <2>0, <3>1, <3>2, PlainGoesOn
  <2>7. CASE listReq[p].step = "reportUpdate" /\ Coll!reportUpdate(p) /\ reports[listReq[p].id] = None
    BY <2>1, <2>7 DEF Coll!reportUpdate
  <2>8. CASE listReq[p].step = "reportDelete" /\ Coll!reportDelete(p) /\ reports[listReq[p].id] = None
    BY <2>1, <2>8 DEF Coll!reportDelete
  <2> QED BY <1>2, <2>1, <2>2, <2>3, <2>4, <2>5, <2>6, <2>7, <2>8, Zenon DEF Coll!ReportWrite
<1> QED BY <1>1, <1>2

LEMMA PlainStays ==
  ASSUME UNCHANGED <<rules, reports, listReq, overlapped>>
  PROVE  PlainInv => PlainInv'
<1>1. \A u : /\ RulesOf(u)' = RulesOf(u) /\ NewRules(u)' = NewRules(u)
             /\ ReportsOf(u)' = ReportsOf(u) /\ NewReports(u)' = NewReports(u)
  BY DEF RulesOf, NewRules, ReportsOf, NewReports, Inserting, NewReport
<1> QED BY <1>1 DEF PlainInv, Plain

LEMMA PlainFileStep ==
  ASSUME CollInv, PlainInv, NEW p \in Procs, Coll!FileRequest(p) \/ Coll!FileWrite(p)
  PROVE  PlainInv'
<1>0. UNCHANGED <<rules, reports>>
  BY DEF Coll!FileRequest, Coll!FileWrite, Coll!uploadDocumentFile, Coll!deleteDocumentFile, Coll!Upload, Coll!DeleteFile,
         Coll!stored, Coll!fileLock, Coll!fileCount, Coll!fileInsert, Coll!Refuse
<1>1. ASSUME Coll!uploadDocumentFile(p) PROVE PlainInv'
  <2>1. PICK x, d : Coll!Begin(p, [step |-> "fileLock", id |-> x, token |-> None, document |-> d])
    BY <1>1, Zenon DEF Coll!uploadDocumentFile, Coll!Upload
  <2> DEFINE r == [step |-> "fileLock", id |-> x, token |-> None, document |-> d]
  <2>2. r.step = "fileLock" /\ Coll!Begin(p, r)
    BY <2>1
  <2> HIDE DEF r
  <2> QED BY <1>0, <2>2, PlainBegins
<1>2. ASSUME Coll!deleteDocumentFile(p) PROVE PlainInv'
  BY <1>2, PlainStays DEF Coll!deleteDocumentFile, Coll!DeleteFile
<1>3. ASSUME Coll!FileWrite(p) PROVE PlainInv'
  <2>1. /\ UNCHANGED overlapped
        /\ \/ listReq' = [listReq EXCEPT ![p] = Coll!NoRequest]
           \/ listReq' = [listReq EXCEPT ![p] = [listReq[p] EXCEPT !.step = "fileCount"]]
           \/ listReq' = [listReq EXCEPT ![p] = [listReq[p] EXCEPT !.step = "fileInsert"]]
    BY <1>3 DEF Coll!FileWrite, Coll!fileLock, Coll!fileCount, Coll!fileInsert, Coll!Refuse, Coll!Answer, Coll!Go
  <2>2. listReq[p] \in FileJob
    BY <1>3 DEF Coll!FileWrite, CollInv, FilesInv, FileTypes, OnFile, FileSteps
  <2>3. /\ [listReq[p] EXCEPT !.step = "fileCount"].step = "fileCount"
        /\ [listReq[p] EXCEPT !.step = "fileInsert"].step = "fileInsert" /\ Coll!NoRequest.step = "idle"
    BY <2>2 DEF FileJob, Coll!NoRequest
  <2>4. ASSUME NEW r, listReq' = [listReq EXCEPT ![p] = r], r.step \in {"fileCount", "fileInsert", "idle"} PROVE PlainInv'
    BY <1>0, <2>1, <2>4, PlainGoesOn
  <2> QED BY <2>1, <2>3, <2>4
<1> QED BY <1>1, <1>2, <1>3 DEF Coll!FileRequest

LEMMA PlainNextKeeps ==
  ASSUME CollInv, PlainInv, Coll!Next
  PROVE  PlainInv'
<1>1. ASSUME NEW d \in Documents, Coll!DeleteDocument(d) PROVE PlainInv'
  BY <1>1, PlainStays DEF Coll!DeleteDocument
<1> QED BY <1>1, PlainRuleStep, PlainReportStep, PlainFileStep, Zenon DEF Coll!Next

LEMMA PlainInitially == Coll!Init => PlainInv
<1> SUFFICES ASSUME Coll!Init PROVE PlainInv
  OBVIOUS
<1>1. /\ rules = [id \in RuleIds |-> None] /\ reports = [id \in ReportIds |-> None]
      /\ listReq = [p \in Procs |-> Coll!NoRequest]
  BY DEF Coll!Init
<1>2. \A u : RulesOf(u) = {} /\ NewRules(u) = {} /\ ReportsOf(u) = {} /\ NewReports(u) = {}
  BY <1>1 DEF RulesOf, NewRules, ReportsOf, NewReports, Inserting, NewReport, Coll!NoRequest
<1>3. Cardinality({}) = 0 /\ MaxRulesPerUser \in Nat /\ MaxReportsPerUser \in Nat
  BY FS_EmptySet, CollectionsAssumption
<1> QED BY <1>2, <1>3 DEF PlainInv, Plain

\* What the collections promise.
CollectionsKept == /\ Coll!TypeOK /\ Coll!WithinLimits /\ Coll!RevokedStaysRevoked
                   /\ Coll!CopiesAreOwn /\ Coll!OrderKept

LEMMA CollInvSays ==
  ASSUME CollInv, PlainInv
  PROVE  CollectionsKept
<1>1. Coll!TypeOK
  BY DEF CollInv, RulesInv, RuleTypes, ReportsInv, ReportTypes, FilesInv, FileTypes, Coll!TypeOK
<1>2. Coll!WithinLimits
  <2>1. \A d \in Documents : Coll!Cardinality(Coll!filesOf(d)) <= MaxFilesPerSubject
    BY CollCardinality DEF CollInv, FilesInv, FileQuota, FilesOf, Coll!filesOf
  <2>2. ASSUME NEW u \in Accounts
        PROVE  Coll!Cardinality(Coll!rulesOf(u)) <= MaxRulesPerUser + Coll!Cardinality(Procs) - 1
    <3>1. Cardinality(RulesOf(u)) + Cardinality(NewRules(u)) <= MaxRulesPerUser + Cardinality(Procs) - 1
      BY DEF CollInv, RulesInv, RuleQuota
    <3>2. Cardinality(RulesOf(u)) <= MaxRulesPerUser + Cardinality(Procs) - 1
      BY <3>1, QuotaSets, CollectionsAssumption
    <3> QED BY <3>2, CollCardinality DEF RulesOf, Coll!rulesOf
  <2>3. ASSUME NEW u \in Accounts
        PROVE  Coll!CountByUserID(u) <= MaxReportsPerUser + Coll!Cardinality(Procs) - 1
    <3>1. Cardinality(ReportsOf(u)) + Cardinality(NewReports(u)) <= MaxReportsPerUser + Cardinality(Procs) - 1
      BY DEF CollInv, ReportsInv, ReportQuota
    <3>2. Cardinality(ReportsOf(u)) <= MaxReportsPerUser + Cardinality(Procs) - 1
      BY <3>1, ReportSets, CollectionsAssumption
    <3> QED BY <3>2, CollCardinality DEF ReportsOf, Coll!reportsOf, Coll!CountByUserID
  <2>4. ASSUME NEW u \in Accounts \ overlapped
        PROVE  Coll!Cardinality(Coll!rulesOf(u)) <= MaxRulesPerUser /\ Coll!CountByUserID(u) <= MaxReportsPerUser
    <3>1. Cardinality(RulesOf(u)) <= MaxRulesPerUser /\ Cardinality(ReportsOf(u)) <= MaxReportsPerUser
      BY DEF PlainInv, Plain
    <3> QED BY <3>1, CollCardinality DEF RulesOf, Coll!rulesOf, ReportsOf, Coll!reportsOf, Coll!CountByUserID
  <2> QED BY <2>1, <2>2, <2>3, <2>4, Zenon DEF Coll!WithinLimits
<1>3. Coll!RevokedStaysRevoked
  <2> SUFFICES ASSUME NEW t \in Tokens
               PROVE  /\ Coll!Cardinality({id \in RuleIds : rules[id] # None /\ rules[id].token = t}) <= 1
                      /\ t \in revoked => Coll!GetByShareToken(t) \subseteq stale
    BY DEF Coll!RevokedStaysRevoked
  <2> DEFINE S == {id \in RuleIds : rules[id] # None /\ rules[id].token = t}
  <2>1. \A x, y \in S : x = y
    BY CollectionsAssumption DEF CollInv, RulesInv, TokensNameOne
  <2>2. Coll!Cardinality(S) <= 1
    <3> HIDE DEF S
    <3>1. CASE S = {}
      BY <3>1, FS_EmptySet, CollCardinality
    <3>2. CASE S # {}
      <4>1. PICK x : S = {x}
        BY <2>1, <3>2
      <4>2. Cardinality({x}) = 1
        BY FS_Singleton
      <4> QED BY <4>1, <4>2, CollCardinality
    <3> QED BY <3>1, <3>2
  <2>3. t \in revoked => Coll!GetByShareToken(t) \subseteq stale
    BY DEF CollInv, RulesInv, RevokedInStale, Coll!GetByShareToken
  <2> QED BY <2>2, <2>3
<1>4. Coll!CopiesAreOwn
  BY DEF CollInv, RulesInv, RuleTypes, RuleOK, Provenance, Coll!CopiesAreOwn
<1>5. Coll!OrderKept
  BY DEF CollInv, ReportsInv, InOrder, Coll!OrderKept
<1> QED BY <1>1, <1>2, <1>3, <1>4, <1>5 DEF CollectionsKept

\* The limits hold (the plain ones of rules and reports for an account whose creations never
\* overlapped), a withdrawn token opens only a rule written from an old copy, a token opens one
\* rule, an imported rule belongs to who imported it and the reports keep their order, for every
\* number of requests served at once, every limit and every number of accounts, rules, reports,
\* tokens, documents and files.
LEMMA CollectionsSafe == LogbookSpec => [](part = "collections" => CollectionsKept)
<1> DEFINE L == part = "collections" => CollInv /\ PlainInv
<1>1. LogbookInit => L
  BY CollInitially, PlainInitially, Zenon DEF LogbookInit
<1>2. L /\ [LogbookNext]_allVars => L'
  <2>1. ASSUME L, UNCHANGED <<part, collVars>> PROVE L'
    <3>1. UNCHANGED <<rules, revoked, stale, reports, ordered, listReq, given, overlapped, files, documents, lock>>
      BY <2>1 DEF collVars
    <3>2. CollInv => CollInv'
      BY <3>1, TablesStay, FilesStay DEF CollInv
    <3>3. PlainInv => PlainInv'
      BY <3>1, PlainStays
    <3> QED BY <2>1, <3>2, <3>3
  <2>2. ASSUME L, part = "collections", Coll!Next PROVE L'
    BY <2>2, CollNextKeeps, PlainNextKeeps
  <2>3. UNCHANGED allVars => UNCHANGED <<part, collVars>>
    BY Zenon DEF allVars
  <2> HIDE DEF L
  <2> QED BY <2>1, <2>2, <2>3, Zenon DEF LogbookNext
<1>3. L => (part = "collections" => CollectionsKept)
  BY CollInvSays
<1> QED BY <1>1, <1>2, <1>3, PTL DEF LogbookSpec

-----------------------------------------------------------------------------
(* Records: rows, requests and the client. *)

CreateOps == {"aircraftCreate", "contactCreate", "credentialCreate", "licenseCreate", "ratingCreate"}
UpdateOps == {"aircraftUpdate", "rename", "crewRename", "credentialUpdate", "licenseUpdate", "ratingUpdate"}
DeleteOps == {"aircraftDelete", "contactDelete", "credentialDelete", "licenseDelete", "ratingDelete", "flightDelete", "wipe"}
OpIds(op) ==
  IF op \in {"aircraftCreate", "aircraftUpdate", "rename", "aircraftDelete"} THEN AircraftIds
  ELSE IF op \in {"contactCreate", "crewRename", "contactDelete"} THEN ContactIds
  ELSE IF op \in {"credentialCreate", "credentialUpdate", "credentialDelete"} THEN CredentialIds
  ELSE IF op \in {"licenseCreate", "licenseUpdate", "licenseDelete"} THEN LicenceIds
  ELSE IF op \in {"ratingCreate", "ratingUpdate", "ratingDelete"} THEN RatingIds
  ELSE FlightIds

RowOrNone == [Ids -> Rec!Row \cup {NoRow}]
Present(id) == rows[id] # NoRow
RowTypes ==
  /\ rows \in RowOrNone /\ mirror \in RowOrNone /\ live \in Keys \cup {NoRow}
  /\ clock \in 1 .. LastTime /\ rowServed \in 0 .. MaxRequests /\ DOMAIN rowReq = Procs
  /\ \A id \in Ids : Present(id) => rows[id].at <= clock
FeedTypes ==
  /\ mark \in [Rec!Collections -> Nat] /\ \A C \in Rec!Collections : mark[C] <= clock
  /\ feed \in [since : Nat, page : Nat \ {0}, seen : Nat, expired : BOOLEAN, reconcile : BOOLEAN]
  /\ feed.since <= feed.seen

\* A row that exists has no tombstone.
Tombs == /\ tomb \in [Ids -> Int] /\ \A id \in Ids : -1 <= tomb[id] /\ tomb[id] <= clock
         /\ \A id \in Ids : Present(id) => tomb[id] = 0
RatingsHeld == \A c \in RatingIds : Present(c) => Present(LicenceOf[c])

\* What a request carries: the copy it patched, and the row it will write.
PatchOK(r) == /\ r.seen \in Rec!Row
              /\ r.field = "key" => r.new.note = r.seen.note
              /\ r.field = "note" => r.new.key \in {r.seen.key, Canonical[r.seen.key]}
LoadedOK(r) == /\ r.id \in (AircraftIds \cup CredentialIds \cup LicenceIds \cup RatingIds) \cap Own
               /\ r.new \in Rec!Row /\ r.field \in {"key", "note"} /\ PatchOK(r)
               /\ r.field = "note" => r.new.key = r.seen.key
ReadyOK(r) ==
  /\ r.op \in CreateOps \cup UpdateOps \cup DeleteOps /\ r.id \in OpIds(r.op) /\ r.id \in Own
  /\ r.at \in Nat /\ 1 <= r.at /\ r.at <= clock
  /\ r.op \in CreateOps \cup UpdateOps => r.new \in Rec!Row
  /\ r.op \in UpdateOps => r.old \in Keys \cup {NoRow}
  /\ r.op = "rename" => r.old \in Keys /\ r.old # r.new.key
  /\ r.field \in {"key", "note"} => r.op \in UpdateOps /\ PatchOK(r)
Creating(p) == rowReq[p].step = "ready" /\ rowReq[p].op \in CreateOps
Requests ==
  /\ \A p \in Procs : rowReq[p].step \in {"idle", "loaded", "ready"}
  /\ \A p \in Procs : rowReq[p].step = "idle" => rowReq[p].id = NoRow
  /\ \A p \in Procs : rowReq[p].step = "loaded" => LoadedOK(rowReq[p])
  /\ \A p \in Procs : rowReq[p].step = "ready" => ReadyOK(rowReq[p])
  /\ \A p \in Procs : Creating(p) => /\ ~Present(rowReq[p].id) /\ tomb[rowReq[p].id] = 0
                                     /\ \A q \in Procs : q # p => rowReq[q].id # rowReq[p].id

\* The client: a row it lacks is listed by the next pull, a deletion it missed is on a page
\* it has not read, or the pass will be told that its watermark expired.
Lapsed == feed.expired \/ feed.since < clock - Retention
Gone == {id \in Own \ RatingIds : tomb[id] > 0 /\ tomb[id] > feed.since}
GonePlace(id) == Cardinality({x \in Gone : Rec!Earlier(x, id)})
PagesRead == (feed.page - 1) * PageSize
Ahead(id) == mark[Rec!Collection(id)] = 0 \/ rows[id].at > mark[Rec!Collection(id)]
RowReached(id) == Present(id) => Rec!Same(id) \/ id \in late \/ Ahead(id)
GoneReached(id) ==
  ~Present(id) => \/ mirror[id] = NoRow \/ id \in late \/ feed.reconcile \/ Lapsed
                  \/ tomb[id] > feed.since /\ GonePlace(id) >= PagesRead
Reached == \A id \in Own \ RatingIds : RowReached(id) /\ GoneReached(id)
SeenRead == Lapsed \/ PagesRead <= Cardinality({x \in Gone : tomb[x] <= feed.seen})

RowsInv == RowTypes /\ FeedTypes /\ Tombs /\ RatingsHeld /\ Requests /\ Reached /\ SeenRead /\ Rec!NamesUnique

LEMMA RecCardinality == ASSUME NEW S PROVE Rec!Cardinality(S) = Cardinality(S)
BY Zenon DEF Rec!Cardinality, Cardinality

LEMMA RecIds == Rec!Ids = Ids
BY DEF Rec!Ids, Ids

\* Pages: the last page ends behind the last row, an earlier one before it.
LEMMA Product ==
  ASSUME NEW a \in Nat, NEW b \in Nat, NEW k \in Nat, a <= b
  PROVE  a * k <= b * k
<1>1. PICK d \in Nat : b = a + d
  <2>1. b - a \in Nat /\ b = a + (b - a)
    OBVIOUS
  <2> QED BY <2>1
<1>2. b * k = a * k + d * k
  BY <1>1
<1>3. d * k \in Nat /\ a * k \in Nat
  OBVIOUS
<1> QED BY <1>2, <1>3

LEMMA Pages ==
  ASSUME NEW n \in Nat, NEW k \in Nat \ {0}, NEW page \in Nat \ {0}
  PROVE  /\ page >= (n + k - 1) \div k => n <= (page - 1) * k + k
         /\ page < (n + k - 1) \div k => (page - 1) * k + k <= n
<1> DEFINE q == (n + k - 1) \div k
<1>1. q \in Nat /\ q * k <= n + k - 1 /\ n + k - 1 < q * k + k
  <2>1. n + k - 1 \in Nat
    OBVIOUS
  <2> DEFINE m == n + k - 1
  <2> HIDE DEF m
  <2>2. m \in Nat => (m \div k) \in Nat /\ (m \div k) * k <= m /\ m < (m \div k) * k + k
    OBVIOUS
  <2> QED BY <2>1, <2>2 DEF m
<1> HIDE DEF q
<1>2. (page - 1) * k + k = page * k
  OBVIOUS
<1>3. CASE page >= q
  <2>1. q * k <= page * k /\ q * k \in Nat /\ page * k \in Nat
    BY <1>1, <1>3, Product
  <2> QED BY <1>1, <1>2, <1>3, <2>1 DEF q
<1>4. CASE page < q
  <2>1. page + 1 <= q /\ page + 1 \in Nat
    BY <1>1, <1>4
  <2>2. (page + 1) * k <= q * k
    BY <1>1, <2>1, Product
  <2>3. (page + 1) * k = page * k + k /\ page * k \in Nat /\ q * k \in Nat
    BY <1>1
  <2> QED BY <1>1, <1>2, <1>4, <2>2, <2>3 DEF q
<1> QED BY <1>1, <1>3, <1>4

LEMMA GoneSet == IsFiniteSet(Gone) /\ Gone \subseteq Own /\ Gone \subseteq Ids /\ Cardinality(Gone) \in Nat
<1>1. Gone \subseteq Own /\ Gone \subseteq Ids /\ IsFiniteSet(Ids)
  BY RecordsAssumption DEF Gone
<1> QED BY <1>1, FS_Subset, FS_CardinalityType

\* Tombstones are read in a total order.
LEMMA EarlierIsOrder ==
  ASSUME Tombs
  PROVE  /\ \A a \in Ids : ~Rec!Earlier(a, a)
         /\ \A a, b \in Ids : a # b => Rec!Earlier(a, b) \/ Rec!Earlier(b, a)
         /\ \A a, b, c \in Ids : Rec!Earlier(a, b) /\ Rec!Earlier(b, c) => Rec!Earlier(a, c)
<1>1. \A a \in Ids : tomb[a] \in Int /\ Rank[a] \in Nat
  BY RecordsAssumption DEF Tombs
<1>2. \A a, b \in Ids : a # b => Rank[a] # Rank[b]
  BY RecordsAssumption
<1>3. \A a \in Ids : ~Rec!Earlier(a, a)
  BY <1>1 DEF Rec!Earlier
<1>4. \A a, b \in Ids : a # b => Rec!Earlier(a, b) \/ Rec!Earlier(b, a)
  BY <1>1, <1>2 DEF Rec!Earlier
<1>5. \A a, b, c \in Ids : Rec!Earlier(a, b) /\ Rec!Earlier(b, c) => Rec!Earlier(a, c)
  BY <1>1 DEF Rec!Earlier
<1> QED BY <1>3, <1>4, <1>5

LEMMA GonePlaces ==
  ASSUME Tombs
  PROVE  /\ \A x \in Ids : GonePlace(x) \in Nat /\ IsFiniteSet({y \in Gone : Rec!Earlier(y, x)})
         /\ \A x \in Gone : GonePlace(x) < Cardinality(Gone)
         /\ \A k \in Nat : k < Cardinality(Gone) => \E x \in Gone : GonePlace(x) = k
<1> DEFINE B(x) == {y \in Gone : Rec!Earlier(y, x)}
<1>1. \A x : B(x) \subseteq Gone
  OBVIOUS
<1>2. \A x : IsFiniteSet(B(x)) /\ Cardinality(B(x)) \in Nat
  BY <1>1, GoneSet, FS_Subset, FS_CardinalityType
<1>3. \A x : GonePlace(x) = Cardinality(B(x))
  BY DEF GonePlace
<1>4. \A x \in Gone : x \notin B(x)
  BY EarlierIsOrder, GoneSet
<1>5. \A x, y \in Gone : Rec!Earlier(y, x) => B(y) \subseteq B(x) /\ y \in B(x)
  BY EarlierIsOrder, GoneSet
<1>6. \A x, y \in Gone : x # y => Rec!Earlier(x, y) \/ Rec!Earlier(y, x)
  BY EarlierIsOrder, GoneSet
<1> HIDE DEF B
<1>7. \A x, y \in Gone : Rec!Earlier(y, x) => Cardinality(B(y)) < Cardinality(B(x))
  <2> SUFFICES ASSUME NEW x \in Gone, NEW y \in Gone, Rec!Earlier(y, x) PROVE Cardinality(B(y)) < Cardinality(B(x))
    OBVIOUS
  <2>1. B(y) \subseteq B(x) /\ B(y) # B(x)
    BY <1>4, <1>5
  <2>2. Cardinality(B(y)) <= Cardinality(B(x)) /\ (Cardinality(B(y)) = Cardinality(B(x)) => B(y) = B(x))
    BY <1>2, <2>1, FS_Subset
  <2> QED BY <1>2, <2>1, <2>2
<1>8. \A x \in Gone : Cardinality(B(x)) < Cardinality(Gone)
  <2> SUFFICES ASSUME NEW x \in Gone PROVE Cardinality(B(x)) < Cardinality(Gone)
    OBVIOUS
  <2>1. B(x) \subseteq Gone /\ B(x) # Gone
    BY <1>1, <1>4
  <2>2. Cardinality(B(x)) <= Cardinality(Gone) /\ (Cardinality(B(x)) = Cardinality(Gone) => B(x) = Gone)
    BY <2>1, GoneSet, FS_Subset
  <2> QED BY <1>2, <2>1, <2>2, GoneSet
<1>9. ASSUME NEW k \in Nat, k < Cardinality(Gone) PROVE \E x \in Gone : Cardinality(B(x)) = k
  <2> DEFINE n == Cardinality(Gone)
             T == 0 .. (n - 1)
             f == [x \in Gone |-> Cardinality(B(x))]
  <2>0. n \in Nat
    BY GoneSet
  <2>1. f \in [Gone -> T]
    BY <1>2, <1>8, <2>0
  <2>2. \A x, y \in Gone : f[x] = f[y] => x = y
    BY <1>2, <1>6, <1>7
  <2>3. IsFiniteSet(T) /\ Cardinality(T) = n
    <3> HIDE DEF n
    <3>1. 0 \in Int /\ n - 1 \in Int
      BY <2>0
    <3>2. IsFiniteSet(T) /\ Cardinality(T) = IF 0 > n - 1 THEN 0 ELSE (n - 1) - 0 + 1
      BY <3>1, FS_Interval
    <3> QED BY <2>0, <3>2
  <2>4. f \in Injection(Gone, T)
    <3> HIDE DEF f, T
    <3> QED BY <2>1, <2>2 DEF Injection, IsInjective
  <2>5. f \in Surjection(Gone, T)
    <3> HIDE DEF f, T
    <3> QED BY <2>3, <2>4, GoneSet, FS_Injection DEF n
  <2>6. k \in T
    BY <1>9, <2>0
  <2>7. \E x \in Gone : f[x] = k
    <3> HIDE DEF f, T
    <3> QED BY <2>5, <2>6 DEF Surjection
  <2> QED BY <2>7
<1> QED BY <1>2, <1>3, <1>8, <1>9 DEF B

\* Kinds of rows.
LEMMA KindsOfIds ==
  /\ Ids = AircraftIds \cup ContactIds \cup CredentialIds \cup LicenceIds \cup RatingIds \cup FlightIds
  /\ \A id \in Ids \ RatingIds : Rec!Collection(id) \in Rec!Collections /\ id \in Rec!Collection(id)
  /\ \A C \in Rec!Collections : \A id \in C : id \in Ids \ RatingIds /\ Rec!Collection(id) = C
<1>1. \A id \in Ids \ RatingIds : \E C \in Rec!Collections : id \in C
  BY DEF Ids, Rec!Collections
<1>2. \A C, D \in Rec!Collections : \A id : id \in C /\ id \in D => C = D
  BY RecordsAssumption DEF Rec!Collections
<1>3. \A C \in Rec!Collections : \A id \in C : id \in Ids \ RatingIds
  BY RecordsAssumption DEF Rec!Collections, Ids
<1>4. \A id \in Ids \ RatingIds : Rec!Collection(id) \in Rec!Collections /\ id \in Rec!Collection(id)
  BY <1>1, Zenon DEF Rec!Collection
<1>5. \A C \in Rec!Collections : \A id \in C : Rec!Collection(id) = C
  BY <1>2, <1>3, <1>4
<1> QED BY <1>3, <1>4, <1>5 DEF Ids

\* The step changes nothing a request or a table holds.
LEMMA RequestsStay ==
  ASSUME Requests, UNCHANGED <<rows, rowReq>>, clock \in Int, clock' \in Int, clock <= clock',
         \A p \in Procs : Creating(p) => tomb'[rowReq[p].id] = tomb[rowReq[p].id]
  PROVE  Requests'
<1>1. \A r : ReadyOK(r) => ReadyOK(r)'
  BY DEF ReadyOK, PatchOK, OpIds, CreateOps, UpdateOps, DeleteOps, Rec!Row, Rec!ClockTimes
<1>2. \A r : LoadedOK(r) => LoadedOK(r)'
  BY DEF LoadedOK, PatchOK, Rec!Row, Rec!ClockTimes
<1>3. (\A p \in Procs : rowReq[p].step = "ready" => ReadyOK(rowReq[p]))'
  <2>1. \A p \in Procs : rowReq'[p].step = "ready" => ReadyOK(rowReq[p])' /\ rowReq'[p] = rowReq[p]
    BY <1>1 DEF Requests
  <2> QED BY <2>1 DEF ReadyOK
<1>4. (\A p \in Procs : rowReq[p].step = "loaded" => LoadedOK(rowReq[p]))'
  <2>1. \A p \in Procs : rowReq'[p].step = "loaded" => LoadedOK(rowReq[p])' /\ rowReq'[p] = rowReq[p]
    BY <1>2 DEF Requests
  <2> QED BY <2>1 DEF LoadedOK
<1> QED BY <1>3, <1>4 DEF Requests, Creating, Present, CreateOps

\* The client asks for what changed since its watermark.
LEMMA PullUpsertsKeeps ==
  ASSUME RowsInv, NEW C \in Rec!Collections, Rec!PullUpserts(C)
  PROVE  RowsInv'
<1> DEFINE sent == Rec!Listed(C)
           new == Rec!Max({mark[C]} \cup {rows[id].at : id \in sent})
<1>0. /\ C # {} /\ mirror' = [id \in Ids |-> IF id \in sent THEN rows[id] ELSE mirror[id]]
      /\ mark' = [mark EXCEPT ![C] = new]
      /\ UNCHANGED <<rows, live, tomb, clock, rowReq, rowServed, feed, late, raced>>
  BY RecIds, Zenon DEF Rec!PullUpserts
<1>1. sent = {id \in C \cap Own : Present(id) /\ (mark[C] = 0 \/ rows[id].at > mark[C])}
  <2>1. sent = Rec!GetByUserID(C, mark[C])
    BY DEF Rec!Collections, Rec!Listed, Rec!ListAircraft, Rec!ListContacts, Rec!ListCredentials, Rec!ListLicenses, Rec!ListFlights
  <2> QED BY <2>1 DEF Rec!GetByUserID, Rec!Exists, Rec!updatedSinceClause, Present
<1>2. /\ rows \in RowOrNone /\ mirror \in RowOrNone /\ clock \in Nat /\ clock \in 1 .. LastTime
      /\ mark \in [Rec!Collections -> Nat] /\ mark[C] <= clock
      /\ \A id \in Ids : Present(id) => rows[id].at \in Nat /\ rows[id].at <= clock
  BY DEF RowsInv, RowTypes, FeedTypes, RowOrNone, Present, Rec!Row, Rec!ClockTimes
<1>3. \A id \in sent : id \in C /\ id \in Ids /\ Present(id)
  BY <1>1, RecordsAssumption
<1>4. new \in Nat /\ new <= clock
  <2> DEFINE T == {rows[id].at : id \in sent}
             S == {mark[C]} \cup T
             f == [id \in sent |-> rows[id].at]
  <2>1. S \in SUBSET Nat /\ S # {} /\ \A n \in S : n <= clock
    BY <1>2, <1>3
  <2>2. IsFiniteSet(sent)
    <3>1. sent \subseteq Ids
      BY <1>3
    <3> HIDE DEF sent
    <3> QED BY <3>1, FS_Subset, RecordsAssumption
  <2>3. f \in Surjection(sent, T)
    BY DEF Surjection
  <2>4. IsFiniteSet(T)
    <3> HIDE DEF f, T, sent
    <3> QED BY <2>2, <2>3, FS_Surjection
  <2>5. IsFiniteSet(S)
    <3> HIDE DEF T
    <3>1. IsFiniteSet(T \cup {mark[C]})
      BY <2>4, FS_AddElement
    <3>2. S = T \cup {mark[C]}
      OBVIOUS
    <3> QED BY <3>1, <3>2
  <2>6. Rec!Max(S) \in S
    <3> HIDE DEF S
    <3> QED BY <2>1, <2>5, RecMax
  <2> QED BY <2>1, <2>6
<1> HIDE DEF sent, new
<1>5. mirror' \in RowOrNone
  BY <1>0, <1>2, <1>3 DEF RowOrNone
<1>6. mark' \in [Rec!Collections -> Nat] /\ \A D \in Rec!Collections : mark'[D] <= clock
  BY <1>0, <1>2, <1>4 DEF RowsInv, FeedTypes
<1>7. RowTypes' /\ FeedTypes' /\ Tombs' /\ RatingsHeld'
  <2>1. Rec!Collections' = Rec!Collections /\ RowOrNone' = RowOrNone
    BY DEF Rec!Collections, RowOrNone, Ids, Rec!Row, Rec!ClockTimes
  <2> QED BY <1>0, <1>5, <1>6, <2>1 DEF RowsInv, RowTypes, FeedTypes, Tombs, RatingsHeld, Present
<1>8. Requests'
  BY <1>0, <1>2, RequestsStay DEF RowsInv
<1>9. Reached'
  <2> SUFFICES ASSUME NEW id \in Own \ RatingIds PROVE RowReached(id)' /\ GoneReached(id)'
    BY DEF Reached
  <2>0. id \in Ids \ RatingIds /\ RowReached(id) /\ GoneReached(id)
    BY RecordsAssumption DEF RowsInv, Reached
  <2>1. RowReached(id)'
    <3> SUFFICES ASSUME Present(id)' PROVE Rec!Same(id)' \/ id \in late' \/ Ahead(id)'
      BY DEF RowReached
    <3>0. Present(id)
      BY <1>0 DEF Present
    <3>1. CASE id \in sent
      <4>1. mirror'[id] = rows[id] /\ rows'[id] = rows[id]
        BY <1>0, <2>0, <3>1
      <4> QED BY <3>0, <4>1 DEF Rec!Same, Rec!Exists, Present
    <3>2. CASE id \notin sent /\ id \in C
      <4>1. ~Ahead(id)
        BY <1>1, <2>0, <3>0, <3>2, KindsOfIds DEF Ahead
      <4>2. mirror'[id] = mirror[id]
        BY <1>0, <2>0, <3>2
      <4> QED BY <1>0, <2>0, <3>0, <4>1, <4>2 DEF RowReached, Rec!Same, Rec!Exists
    <3>3. CASE id \notin C
      <4>1. Rec!Collection(id) # C /\ Rec!Collection(id) \in Rec!Collections
        BY <2>0, <3>3, KindsOfIds
      <4>2. mirror'[id] = mirror[id] /\ mark'[Rec!Collection(id)] = mark[Rec!Collection(id)]
        BY <1>0, <1>2, <1>3, <2>0, <3>3, <4>1
      <4> QED BY <1>0, <2>0, <3>0, <4>2 DEF RowReached, Rec!Same, Rec!Exists, Ahead, Rec!Collection, Rec!Collections
    <3> QED BY <3>1, <3>2, <3>3
  <2>2. GoneReached(id)'
    <3>1. ~Present(id) => mirror'[id] = mirror[id]
      BY <1>0, <1>3, <2>0
    <3>2. Present(id)' = Present(id) /\ Lapsed' = Lapsed /\ GonePlace(id)' = GonePlace(id) /\ PagesRead' = PagesRead
      BY <1>0 DEF Present, Lapsed, GonePlace, Gone, PagesRead, Rec!Earlier
    <3> QED BY <1>0, <2>0, <3>1, <3>2 DEF GoneReached
  <2> QED BY <2>1, <2>2
<1>10. SeenRead'
  <2>1. Lapsed' = Lapsed /\ PagesRead' = PagesRead /\ {x \in Gone : tomb[x] <= feed.seen}' = {x \in Gone : tomb[x] <= feed.seen}
    BY <1>0 DEF Lapsed, Gone, PagesRead
  <2> QED BY <2>1 DEF RowsInv, SeenRead
<1>11. Rec!NamesUnique'
  BY <1>0 DEF RowsInv, Rec!NamesUnique, Rec!Exists, Rec!SameName
<1> QED BY <1>7, <1>8, <1>9, <1>10, <1>11 DEF RowsInv


\* What the feed answers with.
LEMMA FeedAnswers ==
  ASSUME RowsInv
  PROVE  /\ Rec!deletionFilter(feed.since) = Gone /\ Rec!CountSince(feed.since) = Cardinality(Gone)
         /\ Rec!DeletionsSince(feed.since, PageSize, PagesRead)
              = {id \in Gone : PagesRead <= GonePlace(id) /\ GonePlace(id) < PagesRead + PageSize}
<1>1. Rec!deletionFilter(feed.since) = Gone
  BY DEF Rec!deletionFilter, Gone
<1>2. Rec!CountSince(feed.since) = Cardinality(Gone)
  BY <1>1, RecCardinality DEF Rec!CountSince
<1>3. \A id : Rec!Place(id, feed.since) = GonePlace(id)
  BY <1>1, RecCardinality DEF Rec!Place, GonePlace
<1> QED BY <1>1, <1>2, <1>3 DEF Rec!DeletionsSince

\* What every step that leaves the tables and the requests alone keeps.
LEMMA RowTablesStay ==
  ASSUME RowsInv, UNCHANGED <<rows, live, rowReq, rowServed, mark, raced>>,
         clock' \in 1 .. LastTime, clock <= clock', mirror' \in RowOrNone,
         tomb' \in [Ids -> Int], \A id \in Ids : tomb'[id] = tomb[id] \/ (tomb[id] > 0 /\ tomb'[id] = -1),
         feed' \in [since : Nat, page : Nat \ {0}, seen : Nat, expired : BOOLEAN, reconcile : BOOLEAN],
         feed'.since <= feed'.seen
  PROVE  RowTypes' /\ FeedTypes' /\ Tombs' /\ RatingsHeld' /\ Requests' /\ Rec!NamesUnique'
<1>1. clock \in Nat /\ clock' \in Nat
  BY DEF RowsInv, RowTypes
<1>2. Rec!Collections' = Rec!Collections /\ RowOrNone' = RowOrNone
  BY DEF Rec!Collections, RowOrNone, Ids, Rec!Row, Rec!ClockTimes
<1>3. RowTypes'
  <2>1. \A id \in Ids : Present(id)' => rows'[id].at \in Nat /\ rows[id].at <= clock /\ rows'[id] = rows[id]
    BY DEF RowsInv, RowTypes, RowOrNone, Present, Rec!Row, Rec!ClockTimes
  <2>2. \A id \in Ids : Present(id)' => rows'[id].at <= clock'
    BY <1>1, <2>1
  <2>3. (\A id \in Ids : Present(id) => rows[id].at <= clock)'
    BY <2>2
  <2> QED BY <1>2, <2>3 DEF RowsInv, RowTypes
<1>4. FeedTypes'
  <2>1. \A C \in Rec!Collections : mark[C] \in Nat /\ mark[C] <= clock
    BY DEF RowsInv, FeedTypes
  <2>2. \A C \in Rec!Collections : mark[C] <= clock'
    BY <1>1, <2>1
  <2> QED BY <1>2, <2>2 DEF RowsInv, FeedTypes
<1>5. Tombs'
  <2>1. \A id \in Ids : tomb[id] \in Int /\ -1 <= tomb[id] /\ tomb[id] <= clock /\ (Present(id) => tomb[id] = 0)
    BY DEF RowsInv, Tombs
  <2>2. \A id \in Ids : -1 <= tomb'[id] /\ tomb'[id] <= clock'
    BY <1>1, <2>1
  <2>3. \A id \in Ids : Present(id)' => tomb'[id] = 0
    BY <2>1 DEF Present
  <2> QED BY <2>2, <2>3 DEF Tombs
<1>6. RatingsHeld'
  BY DEF RowsInv, RatingsHeld, Present
<1>7. Requests'
  <2>1. \A p \in Procs : Creating(p) => tomb'[rowReq[p].id] = tomb[rowReq[p].id]
    <3> SUFFICES ASSUME NEW p \in Procs, Creating(p) PROVE tomb'[rowReq[p].id] = tomb[rowReq[p].id]
      OBVIOUS
    <3>1. tomb[rowReq[p].id] = 0 /\ ReadyOK(rowReq[p])
      BY DEF RowsInv, Requests, Creating
    <3>2. rowReq[p].id \in Ids
      BY <3>1, RecordsAssumption DEF ReadyOK
    <3> QED BY <3>1, <3>2
  <2> QED BY <1>1, <2>1, RequestsStay DEF RowsInv
<1>8. Rec!NamesUnique'
  BY DEF RowsInv, Rec!NamesUnique, Rec!Exists, Rec!SameName
<1> QED BY <1>3, <1>4, <1>5, <1>6, <1>7, <1>8

\* The client reads a page of the deletion feed.  The tombstones before the page are those
\* it has read: a page is a run of places in the order of the feed.
LEMMA PullDeletionsKeeps ==
  ASSUME RowsInv, Rec!PullDeletions
  PROVE  RowsInv'
<1> DEFINE D == {id \in Gone : PagesRead <= GonePlace(id) /\ GonePlace(id) < PagesRead + PageSize}
           n == Cardinality(Gone)
           more == feed.page < (n + PageSize - 1) \div PageSize
           seen == Rec!Max({feed.seen} \cup {tomb[id] : id \in D})
           expired == feed.expired \/ Rec!WatermarkExpired(feed.since)
<1>0. /\ ~feed.reconcile /\ mirror' = [id \in Ids |-> IF id \in D THEN NoRow ELSE mirror[id]]
      /\ feed' = IF more THEN [feed EXCEPT !.page = @ + 1, !.seen = seen, !.expired = expired]
                 ELSE [since |-> seen, page |-> 1, seen |-> seen, expired |-> FALSE, reconcile |-> expired]
      /\ UNCHANGED <<rows, live, tomb, clock, rowReq, rowServed, mark, late, raced>>
  <2>1. Rec!ListDeletions(feed.since, feed.page)
        = [deletions |-> D, total |-> n, expired |-> Rec!WatermarkExpired(feed.since)]
    BY FeedAnswers, Zenon DEF Rec!ListDeletions, PagesRead
  <2> HIDE DEF D, n
  <2> QED BY <2>1, RecIds DEF Rec!PullDeletions
<1>1. expired = Lapsed
  BY DEF Lapsed, Rec!WatermarkExpired
<1>2. /\ feed \in [since : Nat, page : Nat \ {0}, seen : Nat, expired : BOOLEAN, reconcile : BOOLEAN]
      /\ feed.since <= feed.seen /\ clock \in 1 .. LastTime /\ Tombs /\ mirror \in RowOrNone
      /\ \A id \in Ids : tomb[id] \in Int
      /\ PageSize \in Nat \ {0} /\ n \in Nat
  BY GoneSet, RecordsAssumption DEF RowsInv, RowTypes, FeedTypes, Tombs
<1>3. PagesRead \in Nat
  BY <1>2 DEF PagesRead
<1>4. D \subseteq Gone /\ \A x \in D : x \in Ids /\ tomb[x] \in Nat /\ tomb[x] > 0
  BY <1>2, GoneSet DEF Gone
<1>5. seen \in Nat /\ feed.seen <= seen /\ \A x \in D : tomb[x] <= seen
  <2> DEFINE T == {tomb[id] : id \in D}
             S == {feed.seen} \cup T
             f == [id \in D |-> tomb[id]]
  <2>1. S \in SUBSET Nat /\ feed.seen \in S /\ \A x \in D : tomb[x] \in S
    BY <1>2, <1>4
  <2>2. IsFiniteSet(D)
    <3> HIDE DEF D
    <3> QED BY <1>4, GoneSet, FS_Subset
  <2>3. f \in Surjection(D, T)
    <3> HIDE DEF D
    <3> QED BY DEF Surjection
  <2>4. IsFiniteSet(T)
    <3> HIDE DEF f, T, D
    <3> QED BY <2>2, <2>3, FS_Surjection
  <2>5. IsFiniteSet(S)
    <3> HIDE DEF T
    <3>1. IsFiniteSet(T \cup {feed.seen})
      BY <2>4, FS_AddElement
    <3>2. S = T \cup {feed.seen}
      OBVIOUS
    <3> QED BY <3>1, <3>2
  <2>6. Rec!Max(S) \in S /\ \A y \in S : y <= Rec!Max(S)
    <3> HIDE DEF S
    <3> QED BY <2>1, <2>5, RecMax
  <2> HIDE DEF D
  <2> QED BY <2>1, <2>6
<1>6. \A id \in Own \ RatingIds : tomb[id] > feed.since => id \in Gone /\ id \in Ids
  <2>1. \A id \in Own \ RatingIds : id \in Ids /\ tomb[id] \in Int
    BY <1>2, RecordsAssumption
  <2>2. feed.since \in Nat
    BY <1>2
  <2> QED BY <2>1, <2>2 DEF Gone
<1>7. \A id \in Gone : GonePlace(id) \in Nat /\ GonePlace(id) < n
  BY <1>2, GonePlaces, GoneSet
<1>8. more => PagesRead + PageSize <= n
  BY <1>2, Pages DEF PagesRead
<1>9. ~more => n <= PagesRead + PageSize
  <2>1. ~more => feed.page >= (n + PageSize - 1) \div PageSize
    <3>1. (n + PageSize - 1) \div PageSize \in Int /\ feed.page \in Nat
      <4>1. n + PageSize - 1 \in Int /\ PageSize \in Nat \ {0}
        BY <1>2
      <4> QED BY <4>1, <1>2
    <3> QED BY <3>1
  <2> QED BY <1>2, <2>1, Pages DEF PagesRead
<1>10. \A id \in Own \ RatingIds : Present(id) => id \notin D
  BY <1>4, RecordsAssumption DEF RowsInv, Tombs
<1>11. D = {id \in Gone : PagesRead <= GonePlace(id) /\ GonePlace(id) < PagesRead + PageSize}
  OBVIOUS
<1>12. more => \A x \in Gone : GonePlace(x) = PagesRead + PageSize - 1 =>
               PagesRead + PageSize <= Cardinality({y \in Gone : tomb[y] <= seen})
  <2> SUFFICES ASSUME more, NEW x \in Gone, GonePlace(x) = PagesRead + PageSize - 1
               PROVE  PagesRead + PageSize <= Cardinality({y \in Gone : tomb[y] <= seen})
    OBVIOUS
  <2> DEFINE B == {y \in Gone : Rec!Earlier(y, x)}
             R == {y \in Gone : tomb[y] <= seen}
  <2>1. x \in D
    BY <1>2, <1>3
  <2> HIDE DEF D, seen
  <2>2. x \in Ids /\ tomb[x] <= seen
    BY <1>4, <1>5, <2>1
  <2>3. \A y \in B : y \in Ids /\ tomb[y] <= tomb[x]
    <3>1. \A y \in Gone : y \in Ids /\ tomb[y] \in Int /\ tomb[x] \in Int
      BY <1>2, <2>2, GoneSet
    <3> QED BY <3>1 DEF Rec!Earlier
  <2>4. B \cup {x} \subseteq R
    <3>1. \A y \in B : tomb[y] \in Int /\ tomb[x] \in Int /\ tomb[y] <= tomb[x]
      BY <1>2, <2>2, <2>3
    <3> QED BY <1>5, <2>2, <3>1
  <2>5. x \notin B
    BY <1>2, <2>2, EarlierIsOrder
  <2>6. IsFiniteSet(B) /\ Cardinality(B) = PagesRead + PageSize - 1
    BY <1>2, <2>2, GonePlaces DEF GonePlace
  <2>7. IsFiniteSet(R)
    <3>1. R \subseteq Gone
      OBVIOUS
    <3> HIDE DEF R
    <3> QED BY <3>1, GoneSet, FS_Subset
  <2> HIDE DEF B, R
  <2>8. Cardinality(B \cup {x}) = PagesRead + PageSize - 1 + 1 /\ IsFiniteSet(B \cup {x})
    BY <2>5, <2>6, FS_AddElement
  <2>9. Cardinality(B \cup {x}) <= Cardinality(R)
    BY <2>4, <2>7, FS_Subset
  <2>10. PagesRead + PageSize - 1 + 1 = PagesRead + PageSize
    BY <1>2, <1>3
  <2> QED BY <2>8, <2>9, <2>10 DEF R
<1> HIDE DEF D, more, seen, expired, n
<1>13. /\ feed' \in [since : Nat, page : Nat \ {0}, seen : Nat, expired : BOOLEAN, reconcile : BOOLEAN]
       /\ feed'.since <= feed'.seen
  <2>1. expired \in BOOLEAN
    BY <1>2 DEF expired
  <2>2. CASE more
    <3>1. feed' = [feed EXCEPT !.page = @ + 1, !.seen = seen, !.expired = expired]
      BY <1>0, <2>2
    <3>2. feed'.since = feed.since /\ feed'.seen = seen
      BY <1>2, <3>1
    <3>3. feed.since \in Nat /\ feed.seen \in Nat /\ feed.since <= seen
      BY <1>2, <1>5
    <3>4. feed.page + 1 \in Nat \ {0}
      BY <1>2
    <3>5. feed' \in [since : Nat, page : Nat \ {0}, seen : Nat, expired : BOOLEAN, reconcile : BOOLEAN]
      BY <1>2, <1>5, <2>1, <3>1, <3>4
    <3> QED BY <3>2, <3>3, <3>5
  <2>3. CASE ~more
    BY <1>0, <1>5, <2>1, <2>3
  <2> QED BY <2>2, <2>3
<1>14. mirror' \in RowOrNone
  BY <1>0, <1>2 DEF RowOrNone
<1>15. RowTypes' /\ FeedTypes' /\ Tombs' /\ RatingsHeld' /\ Requests' /\ Rec!NamesUnique'
  BY <1>0, <1>2, <1>13, <1>14, RowTablesStay DEF Tombs
<1>16. CASE more
  <2>1. feed'.page = feed.page + 1 /\ feed'.since = feed.since /\ feed'.seen = seen /\ feed'.expired = expired
        /\ feed'.reconcile = feed.reconcile
    BY <1>0, <1>2, <1>16
  <2>2. Gone' = Gone /\ \A id : GonePlace(id)' = GonePlace(id)
    BY <1>0, <2>1 DEF Gone, GonePlace, Rec!Earlier
  <2>3. PagesRead' = PagesRead + PageSize
    BY <1>2, <2>1 DEF PagesRead
  <2>4. Lapsed => Lapsed'
    BY <1>0, <1>1, <2>1 DEF Lapsed
  <2>5. Reached'
    <3> SUFFICES ASSUME NEW id \in Own \ RatingIds PROVE RowReached(id)' /\ GoneReached(id)'
      BY DEF Reached
    <3>0. id \in Ids \ RatingIds /\ RowReached(id) /\ GoneReached(id)
      BY RecordsAssumption DEF RowsInv, Reached
    <3>1. RowReached(id)'
      <4>1. Present(id) => mirror'[id] = mirror[id]
        BY <1>0, <1>10, <3>0
      <4> QED BY <1>0, <3>0, <4>1 DEF RowReached, Rec!Same, Rec!Exists, Ahead, Present, Rec!Collection, Rec!Collections
    <3>2. GoneReached(id)'
      <4> SUFFICES ASSUME ~Present(id)'
                   PROVE  \/ mirror'[id] = NoRow \/ id \in late' \/ feed'.reconcile \/ Lapsed'
                          \/ tomb'[id] > feed'.since /\ GonePlace(id)' >= PagesRead'
        BY DEF GoneReached
      <4>1. \/ mirror[id] = NoRow \/ id \in late \/ feed.reconcile \/ Lapsed
            \/ tomb[id] > feed.since /\ GonePlace(id) >= PagesRead
        BY <1>0, <3>0 DEF GoneReached, Present
      <4>2. CASE id \in D
        BY <1>0, <3>0, <4>2
      <4>3. CASE id \notin D /\ tomb[id] > feed.since /\ GonePlace(id) >= PagesRead
        <5>1. id \in Gone
          BY <1>6, <4>3
        <5>2. GonePlace(id) >= PagesRead + PageSize
          BY <1>2, <1>3, <1>7, <1>11, <4>3, <5>1
        <5> QED BY <1>0, <2>1, <2>2, <2>3, <4>3, <5>2
      <4>4. CASE id \notin D /\ (mirror[id] = NoRow \/ id \in late \/ feed.reconcile \/ Lapsed)
        <5>1. mirror'[id] = mirror[id]
          BY <1>0, <3>0, <4>4
        <5> QED BY <1>0, <2>1, <2>4, <4>4, <5>1
      <4> QED BY <4>1, <4>2, <4>3, <4>4
    <3> QED BY <3>1, <3>2
  <2>6. SeenRead'
    <3>1. PagesRead + PageSize <= Cardinality({y \in Gone : tomb[y] <= seen})
      <4>1. PagesRead + PageSize - 1 \in Nat /\ PagesRead + PageSize - 1 < n
        BY <1>2, <1>3, <1>8, <1>16
      <4>2. PICK x \in Gone : GonePlace(x) = PagesRead + PageSize - 1
        BY <1>2, <4>1, GonePlaces DEF n
      <4> QED BY <1>12, <1>16, <4>2
    <3>2. {x \in Gone : tomb[x] <= feed.seen}' = {y \in Gone : tomb[y] <= seen}
      BY <1>0, <2>1, <2>2
    <3> QED BY <2>3, <3>1, <3>2 DEF SeenRead
  <2> QED BY <1>15, <2>5, <2>6 DEF RowsInv
<1>17. CASE ~more
  <2>1. feed' = [since |-> seen, page |-> 1, seen |-> seen, expired |-> FALSE, reconcile |-> expired]
    BY <1>0, <1>17
  <2>2. PagesRead' = 0
    BY <1>2, <2>1 DEF PagesRead
  <2>3. Reached'
    <3> SUFFICES ASSUME NEW id \in Own \ RatingIds PROVE RowReached(id)' /\ GoneReached(id)'
      BY DEF Reached
    <3>0. id \in Ids \ RatingIds /\ RowReached(id) /\ GoneReached(id)
      BY RecordsAssumption DEF RowsInv, Reached
    <3>1. RowReached(id)'
      <4>1. Present(id) => mirror'[id] = mirror[id]
        BY <1>0, <1>10, <3>0
      <4> QED BY <1>0, <3>0, <4>1 DEF RowReached, Rec!Same, Rec!Exists, Ahead, Present, Rec!Collection, Rec!Collections
    <3>2. GoneReached(id)'
      <4> SUFFICES ASSUME ~Present(id)' PROVE mirror'[id] = NoRow \/ id \in late' \/ feed'.reconcile
        BY DEF GoneReached
      <4>1. \/ mirror[id] = NoRow \/ id \in late \/ feed.reconcile \/ Lapsed
            \/ tomb[id] > feed.since /\ GonePlace(id) >= PagesRead
        BY <1>0, <3>0 DEF GoneReached, Present
      <4>2. CASE id \in D
        BY <1>0, <3>0, <4>2
      <4>3. CASE id \notin D /\ tomb[id] > feed.since /\ GonePlace(id) >= PagesRead
        <5>1. id \in Gone
          BY <1>6, <4>3
        <5> QED BY <1>2, <1>3, <1>7, <1>9, <1>11, <1>17, <4>3, <5>1
      <4>4. CASE id \notin D /\ (mirror[id] = NoRow \/ id \in late)
        BY <1>0, <3>0, <4>4
      <4>5. CASE Lapsed
        BY <1>1, <2>1, <4>5
      <4> QED BY <1>0, <4>1, <4>2, <4>3, <4>4, <4>5
    <3> QED BY <3>1, <3>2
  <2>4. SeenRead'
    <3> DEFINE R == {x \in Gone' : tomb'[x] <= feed'.seen}
    <3>1. R \subseteq Ids
      BY RecordsAssumption DEF Gone
    <3>2. Cardinality(R) \in Nat
      <4> HIDE DEF R
      <4> QED BY <3>1, RecordsAssumption, FS_Subset, FS_CardinalityType
    <3>3. 0 <= Cardinality(R)
      <4> HIDE DEF R
      <4> QED BY <3>2
    <3> QED BY <2>2, <3>3 DEF SeenRead
  <2> QED BY <1>15, <2>3, <2>4 DEF RowsInv
<1> QED BY <1>16, <1>17

\* A full listing after an expired watermark removes whatever no longer exists.
LEMMA ReconcileKeeps ==
  ASSUME RowsInv, Rec!Reconcile
  PROVE  RowsInv'
<1>0. /\ feed.reconcile /\ mirror' = [id \in Ids |-> IF Present(id) THEN mirror[id] ELSE NoRow]
      /\ feed' = [feed EXCEPT !.reconcile = FALSE] /\ late' = {id \in late : Present(id)}
      /\ UNCHANGED <<rows, live, tomb, clock, rowReq, rowServed, mark, raced>>
  BY RecIds DEF Rec!Reconcile, Rec!Exists, Present
<1>1. /\ feed \in [since : Nat, page : Nat \ {0}, seen : Nat, expired : BOOLEAN, reconcile : BOOLEAN]
      /\ feed.since <= feed.seen /\ clock \in 1 .. LastTime /\ Tombs /\ mirror \in RowOrNone
  BY DEF RowsInv, RowTypes, FeedTypes
<1>2. feed' \in [since : Nat, page : Nat \ {0}, seen : Nat, expired : BOOLEAN, reconcile : BOOLEAN]
  BY <1>0, <1>1
<1>3. feed'.since = feed.since /\ feed'.seen = feed.seen /\ feed'.page = feed.page /\ feed'.expired = feed.expired
  BY <1>0, <1>1
<1>4. mirror' \in RowOrNone
  BY <1>0, <1>1 DEF RowOrNone
<1>5. RowTypes' /\ FeedTypes' /\ Tombs' /\ RatingsHeld' /\ Requests' /\ Rec!NamesUnique'
  BY <1>0, <1>1, <1>2, <1>3, <1>4, RowTablesStay DEF Tombs
<1>6. Reached'
  <2> SUFFICES ASSUME NEW id \in Own \ RatingIds PROVE RowReached(id)' /\ GoneReached(id)'
    BY DEF Reached
  <2>0. id \in Ids \ RatingIds /\ RowReached(id)
    BY RecordsAssumption DEF RowsInv, Reached
  <2>1. Present(id) => mirror'[id] = mirror[id] /\ (id \in late => id \in late')
    BY <1>0, <2>0
  <2>2. ~Present(id) => mirror'[id] = NoRow
    BY <1>0, <2>0
  <2>3. RowReached(id)'
    BY <1>0, <2>0, <2>1 DEF RowReached, Rec!Same, Rec!Exists, Ahead, Present, Rec!Collection, Rec!Collections
  <2> QED BY <1>0, <2>2, <2>3 DEF GoneReached, Present
<1>7. SeenRead'
  <2>1. Lapsed' = Lapsed /\ PagesRead' = PagesRead /\ {x \in Gone : tomb[x] <= feed.seen}' = {x \in Gone : tomb[x] <= feed.seen}
    BY <1>0, <1>3 DEF Lapsed, Gone, PagesRead
  <2> QED BY <2>1 DEF RowsInv, SeenRead
<1> QED BY <1>5, <1>6, <1>7 DEF RowsInv

\* The reaper only takes tombstones a client has read, or one whose watermark it has passed.
LEMMA DeleteExpiredKeeps ==
  ASSUME RowsInv, Rec!DeleteExpired
  PROVE  RowsInv'
<1> DEFINE Swept(id) == 0 < tomb[id] /\ tomb[id] < clock - Retention
<1>0. /\ tomb' = [id \in Ids |-> IF Swept(id) THEN -1 ELSE tomb[id]]
      /\ UNCHANGED <<rows, live, clock, rowReq, rowServed, mirror, mark, feed, late, raced>>
  BY RecIds DEF Rec!DeleteExpired
<1>1. /\ feed \in [since : Nat, page : Nat \ {0}, seen : Nat, expired : BOOLEAN, reconcile : BOOLEAN]
      /\ feed.since <= feed.seen /\ clock \in 1 .. LastTime /\ Tombs /\ mirror \in RowOrNone
      /\ \A id \in Ids : tomb[id] \in Int
      /\ Retention \in Nat
  BY RecordsAssumption DEF RowsInv, RowTypes, FeedTypes, Tombs
<1>2. tomb' \in [Ids -> Int] /\ \A id \in Ids : tomb'[id] = IF Swept(id) THEN -1 ELSE tomb[id]
  <2> HIDE DEF Swept
  <2> QED BY <1>0, <1>1
<1>3. \A id \in Ids : tomb'[id] = tomb[id] \/ (tomb[id] > 0 /\ tomb'[id] = -1)
  BY <1>1, <1>2
<1>4. RowTypes' /\ FeedTypes' /\ Tombs' /\ RatingsHeld' /\ Requests' /\ Rec!NamesUnique'
  BY <1>0, <1>1, <1>2, <1>3, RowTablesStay
<1>5. Lapsed' = Lapsed /\ PagesRead' = PagesRead
  BY <1>0 DEF Lapsed, PagesRead
<1>6. ASSUME NEW id \in Own \ RatingIds PROVE RowReached(id)'
  BY <1>0 DEF RowsInv, Reached, RowReached, Rec!Same, Rec!Exists, Ahead, Present, Rec!Collection, Rec!Collections
<1>7. CASE \E x \in Gone : Swept(x)
  <2>1. Lapsed
    <3>1. PICK x \in Gone : Swept(x)
      BY <1>7
    <3>2. x \in Ids /\ tomb[x] > feed.since /\ tomb[x] < clock - Retention
      BY <3>1, GoneSet DEF Gone
    <3>3. feed.since < clock - Retention
      BY <1>1, <3>2
    <3> QED BY <3>3 DEF Lapsed
  <2> QED BY <1>4, <1>5, <1>6, <2>1 DEF RowsInv, Reached, GoneReached, SeenRead
<1>8. CASE \A x \in Gone : ~Swept(x)
  <2>1. \A x \in Gone : x \in Ids /\ tomb'[x] = tomb[x]
    BY <1>2, <1>8, GoneSet
  <2>2. Gone' = Gone
    <3>1. \A x \in Own \ RatingIds : x \in Ids
      BY RecordsAssumption
    <3>2. feed' = feed
      BY <1>0
    <3>3. \A x \in Own \ RatingIds : tomb'[x] > 0 => tomb'[x] = tomb[x]
      BY <1>2, <1>1, <3>1
    <3>4. Gone' \subseteq Gone
      BY <3>2, <3>3 DEF Gone
    <3>5. Gone \subseteq Gone'
      BY <2>1, <3>2 DEF Gone
    <3> QED BY <3>4, <3>5
  <2>3. \A x \in Gone : GonePlace(x)' = GonePlace(x)
    <3> SUFFICES ASSUME NEW x \in Gone PROVE GonePlace(x)' = GonePlace(x)
      OBVIOUS
    <3>1. \A y \in Gone : Rec!Earlier(y, x)' = Rec!Earlier(y, x)
      BY <2>1 DEF Rec!Earlier
    <3>2. {y \in Gone' : Rec!Earlier(y, x)'} = {y \in Gone : Rec!Earlier(y, x)}
      BY <2>2, <3>1
    <3> QED BY <3>2 DEF GonePlace
  <2>4. Reached'
    <3> SUFFICES ASSUME NEW id \in Own \ RatingIds PROVE GoneReached(id)'
      BY <1>6 DEF Reached
    <3>0. GoneReached(id)
      BY DEF RowsInv, Reached
    <3>1. tomb[id] > feed.since => id \in Gone
      <4>1. id \in Ids /\ feed.since \in Nat /\ tomb[id] \in Int
        BY <1>1, RecordsAssumption
      <4> QED BY <4>1 DEF Gone
    <3>2. tomb[id] > feed.since => tomb'[id] > feed'.since /\ GonePlace(id)' = GonePlace(id)
      BY <1>0, <2>1, <2>3, <3>1
    <3> QED BY <1>0, <1>5, <3>0, <3>2 DEF GoneReached, Present
  <2>5. SeenRead'
    <3>1. {x \in Gone' : tomb'[x] <= feed'.seen} = {x \in Gone : tomb[x] <= feed.seen}
      BY <1>0, <2>1, <2>2
    <3> QED BY <1>5, <3>1 DEF RowsInv, SeenRead
  <2> QED BY <1>4, <2>4, <2>5 DEF RowsInv
<1> QED BY <1>7, <1>8

LEMMA RowClockKeeps ==
  ASSUME RowsInv, Rec!Tick
  PROVE  RowsInv'
<1>0. /\ clock < LastTime /\ clock' = clock + 1
      /\ UNCHANGED <<rows, live, tomb, rowReq, rowServed, mirror, mark, feed, late, raced>>
  BY DEF Rec!Tick
<1>1. /\ feed \in [since : Nat, page : Nat \ {0}, seen : Nat, expired : BOOLEAN, reconcile : BOOLEAN]
      /\ feed.since <= feed.seen /\ clock \in 1 .. LastTime /\ Tombs /\ mirror \in RowOrNone
      /\ Retention \in Nat /\ LastTime \in Nat
  BY RecordsAssumption, LiveAssumption DEF RowsInv, RowTypes, FeedTypes, Tombs
<1>2. clock' \in 1 .. LastTime /\ clock <= clock'
  BY <1>0, <1>1
<1>3. RowTypes' /\ FeedTypes' /\ Tombs' /\ RatingsHeld' /\ Requests' /\ Rec!NamesUnique'
  BY <1>0, <1>1, <1>2, RowTablesStay DEF Tombs
<1>4. Lapsed => Lapsed'
  <2>1. feed.since \in Nat /\ clock \in Nat /\ feed' = feed
    BY <1>0, <1>1
  <2> QED BY <1>0, <1>1, <2>1 DEF Lapsed
<1>5. Gone' = Gone /\ PagesRead' = PagesRead /\ \A id : GonePlace(id)' = GonePlace(id)
  BY <1>0 DEF Gone, PagesRead, GonePlace, Rec!Earlier
<1>6. Reached'
  <2> SUFFICES ASSUME NEW id \in Own \ RatingIds PROVE RowReached(id)' /\ GoneReached(id)'
    BY DEF Reached
  <2>1. RowReached(id) /\ GoneReached(id)
    BY DEF RowsInv, Reached
  <2>2. RowReached(id)'
    BY <1>0, <2>1 DEF RowReached, Rec!Same, Rec!Exists, Ahead, Present, Rec!Collection, Rec!Collections
  <2> QED BY <1>0, <1>4, <1>5, <2>1, <2>2 DEF GoneReached, Present
<1>7. SeenRead'
  <2>1. {x \in Gone' : tomb'[x] <= feed'.seen} = {x \in Gone : tomb[x] <= feed.seen}
    BY <1>0, <1>5
  <2> QED BY <1>4, <1>5, <2>1 DEF RowsInv, SeenRead
<1> QED BY <1>3, <1>6, <1>7 DEF RowsInv

\* A request takes a step that touches no table: what it carries is what its next step needs,
\* and no other request is about to create its row.
LEMMA RequestKeeps ==
  ASSUME RowsInv, NEW p \in Procs, NEW r, rowReq' = [rowReq EXCEPT ![p] = r],
         rowServed' \in 0 .. MaxRequests, UNCHANGED <<rows, live, tomb, clock, mirror, mark, feed, late, raced>>,
         \/ r.step = "idle" /\ r.id = NoRow
         \/ r.step = "loaded" /\ LoadedOK(r)
         \/ r.step = "ready" /\ ReadyOK(r),
         r.step = "ready" /\ r.op \in CreateOps =>
           ~Present(r.id) /\ tomb[r.id] = 0 /\ \A q \in Procs \ {p} : rowReq[q].id # r.id,
         \A q \in Procs \ {p} : Creating(q) => rowReq[q].id # r.id
  PROVE  RowsInv'
<1>1. DOMAIN rowReq = Procs /\ DOMAIN rowReq' = Procs /\ rowReq'[p] = r
      /\ \A q \in Procs \ {p} : rowReq'[q] = rowReq[q]
  BY DEF RowsInv, RowTypes
<1>2. RowTypes' /\ FeedTypes' /\ Tombs' /\ RatingsHeld'
  <2>1. Rec!Collections' = Rec!Collections /\ RowOrNone' = RowOrNone
    BY DEF Rec!Collections, RowOrNone, Ids, Rec!Row, Rec!ClockTimes
  <2> QED BY <1>1, <2>1 DEF RowsInv, RowTypes, FeedTypes, Tombs, RatingsHeld, Present
<1>3. \A q \in Procs : rowReq'[q].step \in {"idle", "loaded", "ready"}
  BY <1>1 DEF RowsInv, Requests
<1>4. \A q \in Procs : rowReq'[q].step = "idle" => rowReq'[q].id = NoRow
  BY <1>1 DEF RowsInv, Requests
<1>5. \A q \in Procs : rowReq'[q].step = "loaded" => LoadedOK(rowReq[q])'
  <2>1. \A s : LoadedOK(s)' <=> LoadedOK(s)
    BY DEF LoadedOK, PatchOK, Rec!Row, Rec!ClockTimes
  <2>2. \A q \in Procs : rowReq'[q].step = "loaded" => LoadedOK(rowReq'[q])
    BY <1>1 DEF RowsInv, Requests
  <2> QED BY <2>1, <2>2 DEF LoadedOK
<1>6. \A q \in Procs : rowReq'[q].step = "ready" => ReadyOK(rowReq[q])'
  <2>1. \A q \in Procs : rowReq'[q].step = "ready" => ReadyOK(rowReq'[q])
    BY <1>1 DEF RowsInv, Requests
  <2>2. clock' = clock
    OBVIOUS
  <2>3. \A q \in Procs : ReadyOK(rowReq'[q]) => ReadyOK(rowReq[q])'
    BY <2>2 DEF ReadyOK, PatchOK, OpIds, CreateOps, UpdateOps, DeleteOps, Rec!Row, Rec!ClockTimes
  <2> QED BY <2>1, <2>3
<1>7. \A q \in Procs : Creating(q)' => /\ ~Present(rowReq[q].id)' /\ tomb'[rowReq'[q].id] = 0
                                        /\ \A s \in Procs : s # q => rowReq'[s].id # rowReq'[q].id
  <2> SUFFICES ASSUME NEW q \in Procs, Creating(q)'
               PROVE  /\ ~Present(rowReq[q].id)' /\ tomb'[rowReq'[q].id] = 0
                      /\ \A s \in Procs : s # q => rowReq'[s].id # rowReq'[q].id
    OBVIOUS
  <2>1. CASE q = p
    <3>1. r.step = "ready" /\ r.op \in CreateOps
      BY <1>1, <2>1 DEF Creating, CreateOps
    <3> QED BY <1>1, <2>1, <3>1 DEF Present
  <2>2. CASE q # p
    <3>1. Creating(q) /\ rowReq'[q] = rowReq[q]
      BY <1>1, <2>2 DEF Creating, CreateOps
    <3>2. ~Present(rowReq[q].id) /\ tomb[rowReq[q].id] = 0 /\ \A s \in Procs : s # q => rowReq[s].id # rowReq[q].id
      BY <3>1 DEF RowsInv, Requests
    <3>3. r.id # rowReq[q].id
      BY <2>2, <3>1
    <3> QED BY <1>1, <2>2, <3>1, <3>2, <3>3 DEF Present
  <2> QED BY <2>1, <2>2
<1>8. Requests'
  BY <1>3, <1>4, <1>5, <1>6, <1>7 DEF Requests
<1>9. Lapsed' = Lapsed /\ Gone' = Gone /\ PagesRead' = PagesRead /\ \A id : GonePlace(id)' = GonePlace(id)
  BY DEF Lapsed, Gone, PagesRead, GonePlace, Rec!Earlier
<1>10. Reached'
  <2>1. \A id : RowReached(id)' <=> RowReached(id)
    BY DEF RowReached, Rec!Same, Rec!Exists, Ahead, Present, Rec!Collection, Rec!Collections
  <2>2. \A id : GoneReached(id)' <=> GoneReached(id)
    BY <1>9 DEF GoneReached, Present
  <2> QED BY <2>1, <2>2 DEF RowsInv, Reached
<1>11. SeenRead'
  <2>1. {x \in Gone' : tomb'[x] <= feed'.seen} = {x \in Gone : tomb[x] <= feed.seen}
    BY <1>9
  <2> QED BY <1>9, <2>1 DEF RowsInv, SeenRead
<1>12. Rec!NamesUnique'
  BY DEF RowsInv, Rec!NamesUnique, Rec!Exists, Rec!SameName
<1> QED BY <1>2, <1>8, <1>10, <1>11, <1>12 DEF RowsInv

LEMMA ReadyFields ==
  ASSUME NEW op, NEW id, NEW new, NEW old, NEW seen, NEW field, NEW r, r = Rec!Ready(op, id, new, old, seen, field)
  PROVE  /\ r.step = "ready" /\ r.op = op /\ r.id = id /\ r.new = new /\ r.old = old /\ r.seen = seen
         /\ r.field = field /\ r.at = clock
BY DEF Rec!Ready

LEMMA RequestIds ==
  ASSUME RowsInv
  PROVE  /\ \A q \in Procs : Creating(q) => rowReq[q].id \in Ids /\ ~Present(rowReq[q].id)
         /\ NoRow \notin Ids /\ clock \in Nat /\ clock >= 1
         /\ \A op : OpIds(op) \subseteq Ids
<1>1. \A op : OpIds(op) \subseteq Ids
  BY DEF OpIds, Ids
<1>2. \A q \in Procs : Creating(q) => rowReq[q].id \in Ids /\ ~Present(rowReq[q].id)
  BY <1>1 DEF RowsInv, Requests, Creating, ReadyOK
<1>3. NoRow \notin Ids
  BY RecordsAssumption
<1>4. clock \in Nat /\ clock >= 1
  BY DEF RowsInv, RowTypes
<1> QED BY <1>1, <1>2, <1>3, <1>4

LEMMA FailKeeps ==
  ASSUME RowsInv, NEW p \in Procs, Rec!Fail(p)
  PROVE  RowsInv'
<1> DEFINE r == Rec!NoRequest
<1>1. rowReq' = [rowReq EXCEPT ![p] = r] /\ UNCHANGED <<rows, live, tomb, clock, rowServed, mirror, mark, feed, late, raced>>
  BY DEF Rec!Fail, Rec!Done
<1>2. r.step = "idle" /\ r.id = NoRow
  BY DEF Rec!NoRequest
<1>3. rowServed' \in 0 .. MaxRequests
  BY <1>1 DEF RowsInv, RowTypes
<1>4. \A q \in Procs \ {p} : Creating(q) => rowReq[q].id # r.id
  BY <1>2, RequestIds
<1> HIDE DEF r
<1> QED BY <1>1, <1>2, <1>3, <1>4, RequestKeeps

LEMMA BeginSays ==
  ASSUME RowsInv, NEW p \in Procs, NEW r, Rec!Begin(p, r)
  PROVE  /\ rowReq' = [rowReq EXCEPT ![p] = r] /\ rowServed' \in 0 .. MaxRequests
         /\ UNCHANGED <<rows, live, tomb, clock, mirror, mark, feed, late, raced>>
<1>1. /\ rowReq' = [rowReq EXCEPT ![p] = r] /\ rowServed < MaxRequests /\ rowServed' = rowServed + 1
      /\ UNCHANGED <<rows, live, tomb, clock, mirror, mark, feed, late, raced>>
  BY DEF Rec!Begin
<1>2. rowServed \in 0 .. MaxRequests /\ MaxRequests \in Nat
  BY FlightLogAssumption DEF RowsInv, RowTypes
<1>3. rowServed' \in 0 .. MaxRequests
  BY <1>1, <1>2
<1> QED BY <1>1, <1>3

LEMMA CreateBegins ==
  ASSUME RowsInv, NEW p \in Procs, NEW op \in CreateOps, NEW id \in OpIds(op), NEW new \in Rec!Row, Rec!Fresh(id),
         Rec!Begin(p, Rec!Ready(op, id, new, NoRow, NoRow, "all"))
  PROVE  RowsInv'
<1> DEFINE r == Rec!Ready(op, id, new, NoRow, NoRow, "all")
<1>1. r.step = "ready" /\ r.op = op /\ r.id = id /\ r.new = new /\ r.field = "all" /\ r.at = clock
  BY DEF Rec!Ready
<1> HIDE DEF r
<1>2. /\ rowReq' = [rowReq EXCEPT ![p] = r] /\ rowServed' \in 0 .. MaxRequests
      /\ UNCHANGED <<rows, live, tomb, clock, mirror, mark, feed, late, raced>>
  BY BeginSays DEF r
<1>3. id \in Own /\ ~Present(id) /\ tomb[id] = 0 /\ \A q \in Procs : rowReq[q].id # id
  BY DEF Rec!Fresh, Rec!Exists, Present
<1>4. op \notin UpdateOps /\ op # "rename"
  BY DEF CreateOps, UpdateOps
<1>5. ReadyOK(r)
  BY <1>1, <1>3, <1>4, RequestIds DEF ReadyOK
<1> QED BY <1>1, <1>2, <1>3, <1>5, RequestKeeps

LEMMA DeleteBegins ==
  ASSUME RowsInv, NEW p \in Procs, NEW op \in DeleteOps, NEW id \in OpIds(op), id \in Own, Present(id),
         Rec!Begin(p, Rec!Ready(op, id, NoRow, NoRow, NoRow, "all"))
  PROVE  RowsInv'
<1> DEFINE r == Rec!Ready(op, id, NoRow, NoRow, NoRow, "all")
<1>1. r.step = "ready" /\ r.op = op /\ r.id = id /\ r.field = "all" /\ r.at = clock
  BY DEF Rec!Ready
<1> HIDE DEF r
<1>2. /\ rowReq' = [rowReq EXCEPT ![p] = r] /\ rowServed' \in 0 .. MaxRequests
      /\ UNCHANGED <<rows, live, tomb, clock, mirror, mark, feed, late, raced>>
  BY BeginSays DEF r
<1>3. op \notin UpdateOps /\ op \notin CreateOps /\ op # "rename"
  BY DEF CreateOps, UpdateOps, DeleteOps
<1>4. ReadyOK(r)
  BY <1>1, <1>3, RequestIds DEF ReadyOK
<1>5. \A q \in Procs \ {p} : Creating(q) => rowReq[q].id # r.id
  BY <1>1, RequestIds
<1> QED BY <1>1, <1>2, <1>3, <1>4, <1>5, RequestKeeps

LEMMA ContactUpdateBegins ==
  ASSUME RowsInv, NEW p \in Procs, NEW id \in ContactIds, NEW new \in Rec!Row, Rec!UpdateContact(p, id, new)
  PROVE  RowsInv'
<1> DEFINE r == Rec!Ready("crewRename", id, new, rows[id].key, rows[id], "all")
<1>1. /\ r.step = "ready" /\ r.op = "crewRename" /\ r.id = id /\ r.new = new /\ r.old = rows[id].key
      /\ r.field = "all" /\ r.at = clock
  BY DEF Rec!Ready
<1> HIDE DEF r
<1>2. id \in Own /\ Present(id) /\ Rec!Begin(p, r)
  BY DEF Rec!UpdateContact, Rec!Owned, Rec!Exists, Present, r
<1>3. /\ rowReq' = [rowReq EXCEPT ![p] = r] /\ rowServed' \in 0 .. MaxRequests
      /\ UNCHANGED <<rows, live, tomb, clock, mirror, mark, feed, late, raced>>
  BY <1>2, BeginSays
<1>4. id \in Ids /\ rows[id].key \in Keys
  <2>1. id \in Ids
    BY DEF Ids
  <2> QED BY <1>2, <2>1 DEF RowsInv, RowTypes, RowOrNone, Present, Rec!Row
<1>5. ReadyOK(r)
  BY <1>1, <1>2, <1>4, RequestIds DEF ReadyOK, OpIds, CreateOps, UpdateOps
<1>6. \A q \in Procs \ {p} : Creating(q) => rowReq[q].id # r.id
  BY <1>1, <1>2, RequestIds
<1>7. r.op \notin CreateOps
  BY <1>1 DEF CreateOps
<1> QED BY <1>1, <1>3, <1>5, <1>6, <1>7, RequestKeeps

\* The handler of a PATCH: its copy differs from the row in the columns the request names.
LEMMA LoadBegins ==
  ASSUME RowsInv, NEW p \in Procs, NEW id \in (AircraftIds \cup CredentialIds \cup LicenceIds \cup RatingIds) \cap Own,
         Present(id), NEW field \in {"key", "note"}, NEW k \in Keys, NEW n \in Notes, Rec!Load(p, id, field, k, n)
  PROVE  RowsInv'
<1> DEFINE new == Rec!Patched(rows[id], field, k, n)
           r == [step |-> "loaded", id |-> id, new |-> new, seen |-> rows[id], field |-> field]
<1>1. r.step = "loaded" /\ r.id = id /\ r.new = new /\ r.seen = rows[id] /\ r.field = field
  OBVIOUS
<1>2. Rec!Begin(p, r)
  BY DEF Rec!Load
<1>3. id \in Ids /\ rows[id] \in Rec!Row
  <2>1. id \in Ids
    BY DEF Ids
  <2> QED BY <2>1 DEF RowsInv, RowTypes, RowOrNone, Present
<1>4. /\ new \in Rec!Row /\ (field = "key" => new.note = rows[id].note) /\ (field = "note" => new.key = rows[id].key)
  BY <1>3 DEF Rec!Patched, Rec!Row
<1> HIDE DEF new, r
<1>5. /\ rowReq' = [rowReq EXCEPT ![p] = r] /\ rowServed' \in 0 .. MaxRequests
      /\ UNCHANGED <<rows, live, tomb, clock, mirror, mark, feed, late, raced>>
  BY <1>2, BeginSays
<1>6. LoadedOK(r)
  BY <1>1, <1>3, <1>4 DEF LoadedOK, PatchOK
<1>7. \A q \in Procs \ {p} : Creating(q) => rowReq[q].id # r.id
  BY <1>1, RequestIds
<1> QED BY <1>1, <1>5, <1>6, <1>7, RequestKeeps

\* The service: the transaction begins with the handler's copy.
LEMMA UpdateAdvances ==
  ASSUME RowsInv, NEW p \in Procs, rowReq[p].step = "loaded", NEW op \in UpdateOps, rowReq[p].id \in OpIds(op),
         NEW new \in Rec!Row, new.note = rowReq[p].new.note, new.key \in {rowReq[p].new.key, Canonical[rowReq[p].new.key]},
         NEW old \in Keys \cup {NoRow}, op = "rename" => old \in Keys /\ old # new.key,
         Rec!Advance(p, Rec!Ready(op, rowReq[p].id, new, old, rowReq[p].seen, rowReq[p].field))
  PROVE  RowsInv'
<1> DEFINE r == Rec!Ready(op, rowReq[p].id, new, old, rowReq[p].seen, rowReq[p].field)
<1>1. /\ r.step = "ready" /\ r.op = op /\ r.id = rowReq[p].id /\ r.new = new /\ r.old = old
      /\ r.seen = rowReq[p].seen /\ r.field = rowReq[p].field /\ r.at = clock
  BY DEF Rec!Ready
<1> HIDE DEF r
<1>2. /\ rowReq' = [rowReq EXCEPT ![p] = r] /\ UNCHANGED <<rows, live, tomb, clock, rowServed, mirror, mark, feed, late, raced>>
  BY DEF Rec!Advance, r
<1>3. rowServed' \in 0 .. MaxRequests
  BY <1>2 DEF RowsInv, RowTypes
<1>4. LoadedOK(rowReq[p])
  BY DEF RowsInv, Requests
<1>5. PatchOK(r)
  BY <1>1, <1>4 DEF LoadedOK, PatchOK
<1>6. ReadyOK(r)
  BY <1>1, <1>4, <1>5, RequestIds DEF ReadyOK, LoadedOK
<1>7. op \notin CreateOps
  BY DEF CreateOps, UpdateOps
<1>8. \A q \in Procs \ {p} : Creating(q) => rowReq[q].id # r.id
  BY <1>1 DEF RowsInv, Requests
<1> QED BY <1>1, <1>2, <1>3, <1>6, <1>7, <1>8, RequestKeeps

LEMMA NewRowTyped ==
  ASSUME RowsInv, NEW k \in Keys, NEW n \in Notes
  PROVE  Rec!NewRow(k, n) \in Rec!Row /\ [Rec!NewRow(k, n) EXCEPT !.key = Canonical[Rec!NewRow(k, n).key]] \in Rec!Row
<1>1. clock \in Rec!ClockTimes
  BY DEF RowsInv, RowTypes, Rec!ClockTimes
<1>2. Canonical[k] \in Keys
  BY RecordsAssumption
<1> QED BY <1>1, <1>2 DEF Rec!NewRow, Rec!Row

LEMMA OwnedSays ==
  ASSUME RowsInv
  PROVE  /\ \A id : Rec!Owned(id) <=> id \in Own /\ Present(id)
         /\ \A id \in RatingIds : Rec!GetClassRating(id) => id \in Own /\ Present(id)
BY RecordsAssumption DEF Rec!Owned, Rec!Exists, Rec!GetClassRating, Present

LEMMA AircraftRequests ==
  ASSUME RowsInv, NEW p \in Procs, Rec!APICreateAircraft(p) \/ Rec!APIUpdateAircraft(p) \/ Rec!APIDeleteAircraft(p)
  PROVE  RowsInv'
<1>1. CASE Rec!APICreateAircraft(p)
  <2>1. PICK id \in AircraftIds, k \in Keys, n \in Notes : Rec!Fresh(id) /\ Rec!CreateAircraft(p, id, Rec!NewRow(k, n))
    BY <1>1 DEF Rec!APICreateAircraft
  <2> DEFINE new == [Rec!NewRow(k, n) EXCEPT !.key = Canonical[Rec!NewRow(k, n).key]]
  <2>2. new \in Rec!Row /\ Rec!Begin(p, Rec!Ready("aircraftCreate", id, new, NoRow, NoRow, "all"))
    BY <2>1, NewRowTyped DEF Rec!CreateAircraft
  <2> HIDE DEF new
  <2>3. "aircraftCreate" \in CreateOps /\ id \in OpIds("aircraftCreate")
    BY DEF CreateOps, OpIds
  <2> QED BY <2>1, <2>2, <2>3, CreateBegins
<1>2. CASE Rec!APIUpdateAircraft(p)
  <2>1. ASSUME NEW id \in AircraftIds, NEW field \in Rec!Fields, NEW k \in Keys, NEW n \in Notes,
               Rec!GetAircraft(id) /\ Rec!Load(p, id, field, k, n)
        PROVE  RowsInv'
    BY <2>1, OwnedSays, LoadBegins DEF Rec!Fields, Rec!GetAircraft
  <2>2. ASSUME Rec!Loaded(p, AircraftIds), NEW renameFlights \in BOOLEAN, Rec!UpdateAircraft(p, renameFlights)
        PROVE  RowsInv'
    <3> DEFINE id == rowReq[p].id
               new == [rowReq[p].new EXCEPT !.key = Canonical[rowReq[p].new.key]]
               changed == rows[id].key # new.key
               canonicalisation == changed /\ Canonical[rows[id].key] = new.key
               op == IF changed /\ (renameFlights \/ canonicalisation) THEN "rename" ELSE "aircraftUpdate"
    <3>1. CASE ~Present(id)
      BY <2>2, <3>1, FailKeeps DEF Rec!UpdateAircraft, Rec!Exists, Present
    <3>2. CASE Present(id)
      <4>1. Rec!Advance(p, Rec!Ready(op, id, new, rows[id].key, rowReq[p].seen, rowReq[p].field))
        BY <2>2, <3>2 DEF Rec!UpdateAircraft, Rec!Exists, Present
      <4>2. rowReq[p].step = "loaded" /\ id \in AircraftIds /\ LoadedOK(rowReq[p])
        BY <2>2 DEF Rec!Loaded, RowsInv, Requests
      <4>3. Canonical[rowReq[p].new.key] \in Keys
        BY <4>2, RecordsAssumption DEF LoadedOK, Rec!Row
      <4>4. new \in Rec!Row /\ new.note = rowReq[p].new.note /\ new.key = Canonical[rowReq[p].new.key]
        BY <4>2, <4>3 DEF LoadedOK, Rec!Row
      <4>5. op \in UpdateOps /\ id \in OpIds(op)
        BY <4>2 DEF UpdateOps, OpIds
      <4>6. rows[id].key \in Keys
        <5>1. id \in Ids
          BY <4>2 DEF Ids
        <5> QED BY <3>2, <5>1 DEF RowsInv, RowTypes, RowOrNone, Present, Rec!Row
      <4>7. op = "rename" => rows[id].key # new.key
        OBVIOUS
      <4> HIDE DEF op, new
      <4> QED BY <4>1, <4>2, <4>4, <4>5, <4>6, <4>7, UpdateAdvances
    <3> QED BY <3>1, <3>2
  <2> QED BY <1>2, <2>1, <2>2 DEF Rec!APIUpdateAircraft
<1>3. CASE Rec!APIDeleteAircraft(p)
  <2>1. "aircraftDelete" \in DeleteOps /\ OpIds("aircraftDelete") = AircraftIds
    BY DEF DeleteOps, OpIds
  <2> QED BY <1>3, <2>1, OwnedSays, DeleteBegins DEF Rec!APIDeleteAircraft, Rec!DeleteAircraft
<1> QED BY <1>1, <1>2, <1>3

LEMMA ContactRequests ==
  ASSUME RowsInv, NEW p \in Procs, Rec!APICreateContact(p) \/ Rec!APIUpdateContact(p) \/ Rec!APIDeleteContact(p)
  PROVE  RowsInv'
<1>1. CASE Rec!APICreateContact(p)
  <2>1. "contactCreate" \in CreateOps /\ OpIds("contactCreate") = ContactIds
    BY DEF CreateOps, OpIds
  <2> QED BY <1>1, <2>1, NewRowTyped, CreateBegins DEF Rec!APICreateContact, Rec!CreateContact
<1>2. CASE Rec!APIUpdateContact(p)
  BY <1>2, NewRowTyped, ContactUpdateBegins DEF Rec!APIUpdateContact
<1>3. CASE Rec!APIDeleteContact(p)
  <2>1. "contactDelete" \in DeleteOps /\ OpIds("contactDelete") = ContactIds
    BY DEF DeleteOps, OpIds
  <2> QED BY <1>3, <2>1, OwnedSays, DeleteBegins DEF Rec!APIDeleteContact, Rec!DeleteContact
<1> QED BY <1>1, <1>2, <1>3

LEMMA SimpleUpdateAdvances ==
  ASSUME RowsInv, NEW p \in Procs, NEW op \in {"credentialUpdate", "licenseUpdate", "ratingUpdate"},
         Rec!Loaded(p, OpIds(op)),
         Rec!Advance(p, Rec!Ready(op, rowReq[p].id, rowReq[p].new, NoRow, rowReq[p].seen, rowReq[p].field))
  PROVE  RowsInv'
<1>1. rowReq[p].step = "loaded" /\ rowReq[p].id \in OpIds(op) /\ LoadedOK(rowReq[p])
  BY DEF Rec!Loaded, RowsInv, Requests
<1>2. op \in UpdateOps /\ op # "rename" /\ rowReq[p].new \in Rec!Row
  BY <1>1 DEF UpdateOps, LoadedOK
<1> QED BY <1>1, <1>2, UpdateAdvances

LEMMA CredentialRequests ==
  ASSUME RowsInv, NEW p \in Procs, Rec!APICreateCredential(p) \/ Rec!APIUpdateCredential(p) \/ Rec!APIDeleteCredential(p)
  PROVE  RowsInv'
<1>1. CASE Rec!APICreateCredential(p)
  <2>1. "credentialCreate" \in CreateOps /\ OpIds("credentialCreate") = CredentialIds
    BY DEF CreateOps, OpIds
  <2> QED BY <1>1, <2>1, NewRowTyped, CreateBegins DEF Rec!APICreateCredential, Rec!CreateCredential
<1>2. CASE Rec!APIUpdateCredential(p)
  <2>1. ASSUME NEW id \in CredentialIds, NEW field \in Rec!Fields, NEW k \in Keys, NEW n \in Notes,
               Rec!GetCredential(id) /\ Rec!Load(p, id, field, k, n)
        PROVE  RowsInv'
    BY <2>1, OwnedSays, LoadBegins DEF Rec!Fields, Rec!GetCredential
  <2>2. ASSUME Rec!Loaded(p, CredentialIds), Rec!UpdateCredential(p) PROVE RowsInv'
    <3>1. OpIds("credentialUpdate") = CredentialIds
      BY DEF OpIds
    <3> QED BY <2>2, <3>1, FailKeeps, SimpleUpdateAdvances DEF Rec!UpdateCredential
  <2> QED BY <1>2, <2>1, <2>2 DEF Rec!APIUpdateCredential
<1>3. CASE Rec!APIDeleteCredential(p)
  <2>1. "credentialDelete" \in DeleteOps /\ OpIds("credentialDelete") = CredentialIds
    BY DEF DeleteOps, OpIds
  <2> QED BY <1>3, <2>1, OwnedSays, DeleteBegins DEF Rec!APIDeleteCredential, Rec!DeleteCredential
<1> QED BY <1>1, <1>2, <1>3

LEMMA LicenceRequests ==
  ASSUME RowsInv, NEW p \in Procs, Rec!APICreateLicense(p) \/ Rec!APIUpdateLicense(p) \/ Rec!APIDeleteLicense(p)
  PROVE  RowsInv'
<1>1. CASE Rec!APICreateLicense(p)
  <2>1. "licenseCreate" \in CreateOps /\ OpIds("licenseCreate") = LicenceIds
    BY DEF CreateOps, OpIds
  <2> QED BY <1>1, <2>1, NewRowTyped, CreateBegins DEF Rec!APICreateLicense, Rec!CreateLicense
<1>2. CASE Rec!APIUpdateLicense(p)
  <2>1. ASSUME NEW id \in LicenceIds, NEW field \in Rec!Fields, NEW k \in Keys, NEW n \in Notes,
               Rec!GetLicense(id) /\ Rec!Load(p, id, field, k, n)
        PROVE  RowsInv'
    BY <2>1, OwnedSays, LoadBegins DEF Rec!Fields, Rec!GetLicense
  <2>2. ASSUME Rec!Loaded(p, LicenceIds), Rec!UpdateLicense(p) PROVE RowsInv'
    <3>1. OpIds("licenseUpdate") = LicenceIds
      BY DEF OpIds
    <3> QED BY <2>2, <3>1, FailKeeps, SimpleUpdateAdvances DEF Rec!UpdateLicense
  <2> QED BY <1>2, <2>1, <2>2 DEF Rec!APIUpdateLicense
<1>3. CASE Rec!APIDeleteLicense(p)
  <2>1. "licenseDelete" \in DeleteOps /\ OpIds("licenseDelete") = LicenceIds
    BY DEF DeleteOps, OpIds
  <2> QED BY <1>3, <2>1, OwnedSays, DeleteBegins DEF Rec!APIDeleteLicense, Rec!DeleteLicense
<1> QED BY <1>1, <1>2, <1>3

LEMMA RatingRequests ==
  ASSUME RowsInv, NEW p \in Procs, Rec!APICreateClassRating(p) \/ Rec!APIUpdateClassRating(p) \/ Rec!APIDeleteClassRating(p)
  PROVE  RowsInv'
<1>1. CASE Rec!APICreateClassRating(p)
  <2>1. "ratingCreate" \in CreateOps /\ OpIds("ratingCreate") = RatingIds
    BY DEF CreateOps, OpIds
  <2> QED BY <1>1, <2>1, NewRowTyped, CreateBegins DEF Rec!APICreateClassRating, Rec!CreateClassRating
<1>2. CASE Rec!APIUpdateClassRating(p)
  <2>1. ASSUME NEW id \in RatingIds, NEW n \in Notes, Rec!GetClassRating(id) /\ Rec!Load(p, id, "note", rows[id].key, n)
        PROVE  RowsInv'
    <3>1. id \in Own /\ Present(id) /\ id \in Ids
      BY <2>1, OwnedSays DEF Ids
    <3>2. rows[id].key \in Keys
      BY <3>1 DEF RowsInv, RowTypes, RowOrNone, Present, Rec!Row
    <3> QED BY <2>1, <3>1, <3>2, LoadBegins
  <2>2. ASSUME Rec!Loaded(p, RatingIds), Rec!UpdateClassRating(p) PROVE RowsInv'
    <3>1. OpIds("ratingUpdate") = RatingIds
      BY DEF OpIds
    <3> QED BY <2>2, <3>1, FailKeeps, SimpleUpdateAdvances DEF Rec!UpdateClassRating
  <2> QED BY <1>2, <2>1, <2>2 DEF Rec!APIUpdateClassRating
<1>3. CASE Rec!APIDeleteClassRating(p)
  <2>1. "ratingDelete" \in DeleteOps /\ OpIds("ratingDelete") = RatingIds
    BY DEF DeleteOps, OpIds
  <2> QED BY <1>3, <2>1, OwnedSays, DeleteBegins DEF Rec!APIDeleteClassRating, Rec!DeleteClassRating
<1> QED BY <1>1, <1>2, <1>3

LEMMA FlightRequests ==
  ASSUME RowsInv, NEW p \in Procs, Rec!APIDeleteFlight(p) \/ Rec!APIDeleteAllFlights(p)
  PROVE  RowsInv'
<1>1. CASE Rec!APIDeleteFlight(p)
  <2>1. "flightDelete" \in DeleteOps /\ OpIds("flightDelete") = FlightIds
    BY DEF DeleteOps, OpIds
  <2> QED BY <1>1, <2>1, OwnedSays, DeleteBegins DEF Rec!APIDeleteFlight
<1>2. CASE Rec!APIDeleteAllFlights(p)
  <2>1. "wipe" \in DeleteOps /\ OpIds("wipe") = FlightIds
    BY DEF DeleteOps, OpIds
  <2> QED BY <1>2, <2>1, OwnedSays, DeleteBegins DEF Rec!APIDeleteAllFlights
<1> QED BY <1>1, <1>2

\* The request that commits.
LEMMA CommittingRequest ==
  ASSUME RowsInv, NEW p \in Procs, rowReq[p].step = "ready"
  PROVE  /\ ReadyOK(rowReq[p]) /\ rowReq[p].id \in Ids /\ rowReq[p].id \in Own
         /\ rowReq[p].at \in Rec!ClockTimes /\ rowReq[p].at \in Nat /\ 1 <= rowReq[p].at /\ rowReq[p].at <= clock
         /\ clock \in Nat /\ rows \in RowOrNone
<1>1. ReadyOK(rowReq[p])
  BY DEF RowsInv, Requests
<1>2. rowReq[p].id \in Ids /\ rowReq[p].id \in Own /\ rowReq[p].at \in Nat /\ 1 <= rowReq[p].at /\ rowReq[p].at <= clock
  BY <1>1, RequestIds DEF ReadyOK
<1>3. clock \in 1 .. LastTime /\ rows \in RowOrNone /\ clock \in Nat /\ LastTime \in Nat
  BY LiveAssumption DEF RowsInv, RowTypes
<1>4. rowReq[p].at \in Rec!ClockTimes
  BY <1>2, <1>3 DEF Rec!ClockTimes
<1> QED BY <1>1, <1>2, <1>3, <1>4

\* The end of a request: the others are as they were.
LEMMA RequestEnds ==
  ASSUME RowsInv, NEW p \in Procs, rowReq' = [rowReq EXCEPT ![p] = Rec!NoRequest], clock' = clock,
         \A q \in Procs \ {p} : Creating(q) => ~Present(rowReq[q].id)' /\ tomb'[rowReq[q].id] = tomb[rowReq[q].id]
  PROVE  Requests'
<1>1. DOMAIN rowReq = Procs /\ rowReq'[p] = Rec!NoRequest /\ \A q \in Procs \ {p} : rowReq'[q] = rowReq[q]
  BY DEF RowsInv, RowTypes
<1>2. Rec!NoRequest.step = "idle" /\ Rec!NoRequest.id = NoRow
  BY DEF Rec!NoRequest
<1>3. \A q \in Procs : rowReq'[q].step \in {"idle", "loaded", "ready"} /\ (rowReq'[q].step = "idle" => rowReq'[q].id = NoRow)
  BY <1>1, <1>2 DEF RowsInv, Requests
<1>4. \A q \in Procs : rowReq'[q].step = "loaded" => LoadedOK(rowReq[q])'
  <2>1. \A s : LoadedOK(s)' <=> LoadedOK(s)
    BY DEF LoadedOK, PatchOK, Rec!Row, Rec!ClockTimes
  <2>2. \A q \in Procs : rowReq'[q].step = "loaded" => LoadedOK(rowReq'[q])
    BY <1>1, <1>2 DEF RowsInv, Requests
  <2> QED BY <2>1, <2>2 DEF LoadedOK
<1>5. \A q \in Procs : rowReq'[q].step = "ready" => ReadyOK(rowReq[q])'
  <2>1. \A q \in Procs : rowReq'[q].step = "ready" => ReadyOK(rowReq'[q])
    BY <1>1, <1>2 DEF RowsInv, Requests
  <2>2. \A q \in Procs : ReadyOK(rowReq'[q]) => ReadyOK(rowReq[q])'
    BY DEF ReadyOK, PatchOK, OpIds, CreateOps, UpdateOps, DeleteOps, Rec!Row, Rec!ClockTimes
  <2> QED BY <2>1, <2>2
<1>6. \A q \in Procs : Creating(q)' => /\ ~Present(rowReq[q].id)' /\ tomb'[rowReq'[q].id] = 0
                                        /\ \A s \in Procs : s # q => rowReq'[s].id # rowReq'[q].id
  <2> SUFFICES ASSUME NEW q \in Procs, Creating(q)'
               PROVE  /\ ~Present(rowReq[q].id)' /\ tomb'[rowReq'[q].id] = 0
                      /\ \A s \in Procs : s # q => rowReq'[s].id # rowReq'[q].id
    OBVIOUS
  <2>1. q # p
    BY <1>1, <1>2 DEF Creating
  <2>2. Creating(q) /\ rowReq'[q] = rowReq[q]
    BY <1>1, <2>1 DEF Creating, CreateOps
  <2>3. tomb[rowReq[q].id] = 0 /\ (\A s \in Procs : s # q => rowReq[s].id # rowReq[q].id) /\ rowReq[q].id # NoRow
    BY <2>2, RequestIds DEF RowsInv, Requests
  <2>4. ~Present(rowReq[q].id)' /\ tomb'[rowReq[q].id] = 0
    BY <2>1, <2>2, <2>3
  <2>5. \A s \in Procs : s # q => rowReq'[s].id # rowReq'[q].id
    BY <1>1, <1>2, <2>2, <2>3
  <2> QED BY <2>2, <2>4, <2>5 DEF Present
<1> QED BY <1>3, <1>4, <1>5, <1>6 DEF Requests

\* A transaction that writes the rows W: each of them is newer than the client's watermark,
\* or is one of the rows the watermark has passed.
LEMMA WriteKeeps ==
  ASSUME RowsInv, NEW p \in Procs, rowReq[p].step = "ready", NEW W \in SUBSET Ids,
         rows' \in RowOrNone, live' \in Keys \cup {NoRow},
         \A id \in W : Present(id)' /\ rows'[id].at = rowReq[p].at,
         \A id \in W : Present(id) \/ (Creating(p) /\ id = rowReq[p].id),
         \A id \in Ids \ W : Present(id)' <=> Present(id),
         \A id \in Ids \ W : Present(id) => /\ rows'[id].at = rows[id].at /\ rows'[id].key = rows[id].key
                                            /\ id \in FlightIds \/ rows'[id].note = rows[id].note,
         late' = late \cup Rec!Behind(W, rowReq[p].at), rowReq' = [rowReq EXCEPT ![p] = Rec!NoRequest],
         UNCHANGED <<tomb, clock, rowServed, mirror, mark, feed>>,
         RatingsHeld', Rec!NamesUnique'
  PROVE  RowsInv'
<1> DEFINE at == rowReq[p].at
<1>0. /\ at \in Nat /\ at <= clock /\ clock \in Nat /\ rowReq[p].id \in Ids
  BY CommittingRequest
<1>1. \A id \in W : tomb[id] = 0
  <2>1. \A id \in Ids : Present(id) => tomb[id] = 0
    BY DEF RowsInv, Tombs
  <2>2. Creating(p) => tomb[rowReq[p].id] = 0
    BY DEF RowsInv, Requests
  <2> QED BY <2>1, <2>2
<1>2. RowTypes'
  <2>1. RowOrNone' = RowOrNone
    BY DEF RowOrNone, Ids, Rec!Row, Rec!ClockTimes
  <2>2. \A id \in Ids : Present(id)' => rows'[id].at <= clock
    <3> SUFFICES ASSUME NEW id \in Ids, Present(id)' PROVE rows'[id].at <= clock
      OBVIOUS
    <3>1. CASE id \in W
      BY <1>0, <3>1
    <3>2. CASE id \notin W
      BY <3>2 DEF RowsInv, RowTypes
    <3> QED BY <3>1, <3>2
  <2>3. DOMAIN rowReq' = Procs
    BY DEF RowsInv, RowTypes
  <2>4. \A id \in Ids : Present(id)' => rows'[id].at <= clock'
    BY <2>2
  <2> QED BY <2>1, <2>3, <2>4 DEF RowsInv, RowTypes
<1>3. FeedTypes'
  BY DEF RowsInv, FeedTypes, Rec!Collections
<1>4. Tombs'
  <2>1. \A id \in Ids : Present(id)' => tomb'[id] = 0
    BY <1>1 DEF RowsInv, Tombs
  <2> QED BY <2>1 DEF RowsInv, Tombs
<1>5. Requests'
  <2>1. \A q \in Procs \ {p} : Creating(q) => ~Present(rowReq[q].id)'
    <3> SUFFICES ASSUME NEW q \in Procs \ {p}, Creating(q) PROVE ~Present(rowReq[q].id)'
      OBVIOUS
    <3>1. rowReq[q].id \in Ids /\ ~Present(rowReq[q].id) /\ rowReq[p].id # rowReq[q].id
      BY RequestIds DEF RowsInv, Requests
    <3>2. rowReq[q].id \notin W
      BY <3>1
    <3>3. \A x \in Ids \ W : ~Present(x) => rows'[x] = NoRow
      BY DEF Present
    <3>4. rows'[rowReq[q].id] = NoRow
      BY <3>1, <3>2, <3>3
    <3>5. rowReq'[q] = rowReq[q]
      BY DEF RowsInv, RowTypes
    <3> QED BY <3>4, <3>5 DEF Present
  <2> QED BY <2>1, RequestEnds
<1>6. Lapsed' = Lapsed /\ Gone' = Gone /\ PagesRead' = PagesRead /\ \A id : GonePlace(id)' = GonePlace(id)
  BY DEF Lapsed, Gone, PagesRead, GonePlace, Rec!Earlier
<1>7. Reached'
  <2> SUFFICES ASSUME NEW id \in Own \ RatingIds PROVE RowReached(id)' /\ GoneReached(id)'
    BY DEF Reached
  <2>0. id \in Ids \ RatingIds /\ RowReached(id) /\ GoneReached(id)
    BY RecordsAssumption DEF RowsInv, Reached
  <2>1. RowReached(id)'
    <3> SUFFICES ASSUME Present(id)' PROVE Rec!Same(id)' \/ id \in late' \/ Ahead(id)'
      BY DEF RowReached
    <3>1. CASE id \in W
      <4>1. CASE at <= mark[Rec!Collection(id)]
        BY <2>0, <3>1, <4>1 DEF Rec!Behind
      <4>2. CASE ~(at <= mark[Rec!Collection(id)])
        <5>1. mark[Rec!Collection(id)] \in Nat
          BY <2>0, KindsOfIds DEF RowsInv, FeedTypes
        <5>2. at > mark[Rec!Collection(id)]
          BY <1>0, <4>2, <5>1
        <5> QED BY <3>1, <5>2 DEF Ahead, Rec!Collection, Rec!Collections
      <4> QED BY <4>1, <4>2
    <3>2. CASE id \notin W
      <4>1. Present(id) /\ (Rec!Same(id) \/ id \in late \/ Ahead(id))
        BY <2>0, <3>2 DEF RowReached
      <4>2. /\ rows'[id].at = rows[id].at /\ rows'[id].key = rows[id].key
            /\ id \in FlightIds \/ rows'[id].note = rows[id].note
        BY <2>0, <3>2, <4>1
      <4> QED BY <4>1, <4>2 DEF Rec!Same, Rec!Exists, Ahead, Present, Rec!Collection, Rec!Collections
    <3> QED BY <3>1, <3>2
  <2>2. GoneReached(id)'
    <3>1. ~Present(id)' => ~Present(id)
      BY <2>0
    <3> QED BY <1>6, <2>0, <3>1 DEF GoneReached
  <2> QED BY <2>1, <2>2
<1>8. SeenRead'
  <2>1. {x \in Gone' : tomb'[x] <= feed'.seen} = {x \in Gone : tomb[x] <= feed.seen}
    BY <1>6
  <2> QED BY <1>6, <2>1 DEF RowsInv, SeenRead
<1> QED BY <1>2, <1>3, <1>4, <1>5, <1>7, <1>8 DEF RowsInv

\* A write that gives one row a name nobody else has.
LEMMA NamesStay ==
  ASSUME RowsInv, NEW x \in Ids,
         \A a \in AircraftIds \cup ContactIds : a # x /\ Present(a)' => Present(a) /\ rows'[a].key = rows[a].key,
         x \in AircraftIds => \A a \in AircraftIds \cap Own : a # x /\ Present(a) => rows[a].key # rows'[x].key,
         x \in ContactIds => \A a \in ContactIds \cap Own : a # x /\ Present(a) => Lower[rows[a].key] # Lower[rows'[x].key]
  PROVE  Rec!NamesUnique'
<1>1. \A a, b \in AircraftIds \cap Own : a # b /\ Present(a) /\ Present(b) => rows[a].key # rows[b].key
  BY DEF RowsInv, Rec!NamesUnique, Rec!Exists, Present
<1>2. \A a, b \in ContactIds \cap Own : a # b /\ Present(a) /\ Present(b) => Lower[rows[a].key] # Lower[rows[b].key]
  BY DEF RowsInv, Rec!NamesUnique, Rec!Exists, Rec!SameName, Present
<1>3. \A a, b \in AircraftIds \cap Own : a # b /\ Present(a)' /\ Present(b)' => rows'[a].key # rows'[b].key
  <2> SUFFICES ASSUME NEW a \in AircraftIds \cap Own, NEW b \in AircraftIds \cap Own, a # b, Present(a)', Present(b)'
               PROVE  rows'[a].key # rows'[b].key
    OBVIOUS
  <2>1. CASE a = x
    BY <2>1
  <2>2. CASE b = x
    BY <2>2
  <2>3. CASE a # x /\ b # x
    BY <1>1, <2>3
  <2> QED BY <2>1, <2>2, <2>3
<1>4. \A a, b \in ContactIds \cap Own : a # b /\ Present(a)' /\ Present(b)' => Lower[rows'[a].key] # Lower[rows'[b].key]
  <2> SUFFICES ASSUME NEW a \in ContactIds \cap Own, NEW b \in ContactIds \cap Own, a # b, Present(a)', Present(b)'
               PROVE  Lower[rows'[a].key] # Lower[rows'[b].key]
    OBVIOUS
  <2>1. CASE a = x
    BY <2>1
  <2>2. CASE b = x
    BY <2>2
  <2>3. CASE a # x /\ b # x
    BY <1>2, <2>3
  <2> QED BY <2>1, <2>2, <2>3
<1> QED BY <1>3, <1>4 DEF Rec!NamesUnique, Rec!Exists, Rec!SameName, Present

\* What the unique indexes look at.
LEMMA FreeNames ==
  ASSUME NEW id, NEW key
  PROVE  /\ ~Rec!Taken(AircraftIds, id, Rec!SameKey, key) =>
              \A a \in AircraftIds \cap Own : a # id /\ Present(a) => rows[a].key # key
         /\ ~Rec!Taken(ContactIds, id, Rec!SameName, key) =>
              \A a \in ContactIds \cap Own : a # id /\ Present(a) => Lower[rows[a].key] # Lower[key]
BY DEF Rec!Taken, Rec!SameKey, Rec!SameName, Rec!Exists, Present

\* A row the request inserts or overwrites whole.
LEMMA StoredRow ==
  ASSUME RowsInv, NEW p \in Procs, rowReq[p].step = "ready", rowReq[p].op \in CreateOps \cup UpdateOps
  PROVE  LET new == [rowReq[p].new EXCEPT !.at = rowReq[p].at]
         IN  /\ new \in Rec!Row /\ new.at = rowReq[p].at /\ new.key = rowReq[p].new.key /\ new.note = rowReq[p].new.note
             /\ new # NoRow
<1>1. rowReq[p].new \in Rec!Row /\ rowReq[p].at \in Rec!ClockTimes
  BY CommittingRequest DEF ReadyOK
<1>2. NoRow \notin Rec!Row
  BY RecordsAssumption
<1> DEFINE new == [rowReq[p].new EXCEPT !.at = rowReq[p].at]
<1>3. new \in Rec!Row /\ new.at = rowReq[p].at /\ new.key = rowReq[p].new.key /\ new.note = rowReq[p].new.note
  BY <1>1 DEF Rec!Row
<1> QED BY <1>2, <1>3

LEMMA InsertKeeps ==
  ASSUME RowsInv, NEW p \in Procs, rowReq[p].step = "ready", rowReq[p].op \in CreateOps, Rec!Insert(p),
         rowReq[p].id \in AircraftIds => ~Rec!Taken(AircraftIds, rowReq[p].id, Rec!SameKey, rowReq[p].new.key),
         rowReq[p].id \in ContactIds => ~Rec!Taken(ContactIds, rowReq[p].id, Rec!SameName, rowReq[p].new.key),
         rowReq[p].id \in RatingIds => Present(LicenceOf[rowReq[p].id])
  PROVE  RowsInv'
<1> DEFINE id == rowReq[p].id
           new == [rowReq[p].new EXCEPT !.at = rowReq[p].at]
<1>0. /\ rows' = [rows EXCEPT ![id] = new] /\ late' = late \cup Rec!Behind({id}, rowReq[p].at)
      /\ rowReq' = [rowReq EXCEPT ![p] = Rec!NoRequest]
      /\ UNCHANGED <<tomb, live, clock, rowServed, mirror, mark, feed, raced>>
  BY DEF Rec!Insert, Rec!Commit, Rec!Done
<1>1. new \in Rec!Row /\ new.at = rowReq[p].at /\ new.key = rowReq[p].new.key /\ new # NoRow
  BY StoredRow
<1>2. id \in Ids /\ id \in Own /\ rows \in RowOrNone
  BY CommittingRequest
<1>3. Creating(p)
  BY DEF Creating
<1>4. rowReq[p].id \in AircraftIds => \A a \in AircraftIds \cap Own : a # rowReq[p].id /\ Present(a) => rows[a].key # rowReq[p].new.key
  BY FreeNames
<1>5. rowReq[p].id \in ContactIds =>
        \A a \in ContactIds \cap Own : a # rowReq[p].id /\ Present(a) => Lower[rows[a].key] # Lower[rowReq[p].new.key]
  BY FreeNames
<1> HIDE DEF new
<1>6. rows' \in RowOrNone /\ rows'[id] = new /\ \A x \in Ids \ {id} : rows'[x] = rows[x]
  BY <1>0, <1>1, <1>2 DEF RowOrNone
<1>7. \A x \in Ids : Present(x) => Present(x)'
  BY <1>1, <1>6 DEF Present
<1>8. Rec!NamesUnique'
  <2>1. \A a \in AircraftIds \cup ContactIds : a \in Ids
    BY DEF Ids
  <2>2. \A a \in AircraftIds \cup ContactIds : a # id /\ Present(a)' => Present(a) /\ rows'[a].key = rows[a].key
    BY <1>6, <2>1 DEF Present
  <2> QED BY <1>1, <1>2, <1>4, <1>5, <1>6, <2>2, NamesStay
<1>9. RatingsHeld'
  <2>1. \A c \in RatingIds : c \in Ids /\ LicenceOf[c] \in Ids
    BY RecordsAssumption DEF Ids
  <2>2. \A c \in RatingIds : Present(c)' => Present(LicenceOf[c])
    BY <1>6, <2>1 DEF RowsInv, RatingsHeld, Present
  <2> QED BY <1>7, <2>1, <2>2 DEF RatingsHeld, Present
<1>10. live' \in Keys \cup {NoRow}
  BY <1>0 DEF RowsInv, RowTypes
<1>11. PICK W : W = {id}
  OBVIOUS
<1>12. W \in SUBSET Ids /\ \A x \in W : Present(x)' /\ rows'[x].at = rowReq[p].at
  <2>1. \A x : x = id => Present(x)'
    BY <1>1, <1>6 DEF Present
  <2> QED BY <1>1, <1>2, <1>6, <1>11, <2>1
<1>13. \A x \in W : Present(x) \/ (Creating(p) /\ x = rowReq[p].id)
  BY <1>3, <1>11
<1>14. \A x \in Ids \ W : (Present(x)' <=> Present(x)) /\ rows'[x] = rows[x]
  BY <1>6, <1>11 DEF Present
<1>15. late' = late \cup Rec!Behind(W, rowReq[p].at)
  BY <1>0, <1>11
<1>16. \A x \in Ids \ W : Present(x) => /\ rows'[x].at = rows[x].at /\ rows'[x].key = rows[x].key
                                         /\ (x \in FlightIds \/ rows'[x].note = rows[x].note)
  BY <1>14
<1>17. rows' \in RowOrNone /\ UNCHANGED <<tomb, clock, rowServed, mirror, mark, feed>>
  BY <1>0, <1>6
<1>18. rowReq' = [rowReq EXCEPT ![p] = Rec!NoRequest]
  BY <1>0
<1> HIDE DEF id
<1> QED BY <1>8, <1>9, <1>10, <1>12, <1>13, <1>14, <1>15, <1>16, <1>17, <1>18, WriteKeeps

LEMMA InsertsKeep ==
  ASSUME RowsInv, NEW p \in Procs, rowReq[p].step = "ready",
         \/ rowReq[p].op = "aircraftCreate" /\ Rec!aircraftCreate(p)
         \/ rowReq[p].op = "contactCreate" /\ Rec!contactCreate(p)
         \/ rowReq[p].op = "credentialCreate" /\ Rec!credentialCreate(p)
         \/ rowReq[p].op = "licenseCreate" /\ Rec!licenseCreate(p)
         \/ rowReq[p].op = "ratingCreate" /\ Rec!classRatingCreate(p)
  PROVE  RowsInv'
<1>0. rowReq[p].op \in CreateOps /\ rowReq[p].id \in OpIds(rowReq[p].op)
  BY CommittingRequest DEF CreateOps, ReadyOK
<1>1. CASE rowReq[p].op = "aircraftCreate"
  <2>1. Rec!aircraftCreate(p) /\ rowReq[p].id \in AircraftIds
    BY <1>0, <1>1 DEF OpIds
  <2>2. rowReq[p].id \notin ContactIds /\ rowReq[p].id \notin RatingIds
    BY <2>1, RecordsAssumption
  <2> QED BY <1>0, <2>1, <2>2, FailKeeps, InsertKeeps DEF Rec!aircraftCreate
<1>2. CASE rowReq[p].op = "contactCreate"
  <2>1. Rec!contactCreate(p) /\ rowReq[p].id \in ContactIds
    BY <1>0, <1>2 DEF OpIds
  <2>2. rowReq[p].id \notin AircraftIds /\ rowReq[p].id \notin RatingIds
    BY <2>1, RecordsAssumption
  <2> QED BY <1>0, <2>1, <2>2, FailKeeps, InsertKeeps DEF Rec!contactCreate
<1>3. CASE rowReq[p].op = "credentialCreate"
  <2>1. Rec!credentialCreate(p) /\ rowReq[p].id \in CredentialIds
    BY <1>0, <1>3 DEF OpIds
  <2>2. rowReq[p].id \notin AircraftIds /\ rowReq[p].id \notin RatingIds /\ rowReq[p].id \notin ContactIds
    BY <2>1, RecordsAssumption
  <2> QED BY <1>0, <2>1, <2>2, InsertKeeps DEF Rec!credentialCreate
<1>4. CASE rowReq[p].op = "licenseCreate"
  <2>1. Rec!licenseCreate(p) /\ rowReq[p].id \in LicenceIds
    BY <1>0, <1>4 DEF OpIds
  <2>2. rowReq[p].id \notin AircraftIds /\ rowReq[p].id \notin RatingIds /\ rowReq[p].id \notin ContactIds
    BY <2>1, RecordsAssumption
  <2> QED BY <1>0, <2>1, <2>2, InsertKeeps DEF Rec!licenseCreate
<1>5. CASE rowReq[p].op = "ratingCreate"
  <2>1. Rec!classRatingCreate(p) /\ rowReq[p].id \in RatingIds
    BY <1>0, <1>5 DEF OpIds
  <2>2. rowReq[p].id \notin AircraftIds /\ rowReq[p].id \notin ContactIds
    BY <2>1, RecordsAssumption
  <2> QED BY <1>0, <2>1, <2>2, FailKeeps, InsertKeeps DEF Rec!classRatingCreate, Rec!Exists, Present
<1> QED BY <1>1, <1>2, <1>3, <1>4, <1>5

\* An UPDATE of one row and, for a rename, of the flights it takes along.
LEMMA SaveKeeps ==
  ASSUME RowsInv, NEW p \in Procs, rowReq[p].step = "ready", rowReq[p].op \in UpdateOps, Present(rowReq[p].id),
         NEW W \in SUBSET Ids, NEW new \in RowOrNone, Rec!Save(p, new, W), live' \in Keys \cup {NoRow},
         rowReq[p].id \in W, \A x \in W : Present(x) /\ new[x].at = rowReq[p].at,
         \A x \in Ids : new[x] = NoRow <=> rows[x] = NoRow,
         \A x \in Ids \ W : Present(x) => /\ new[x].at = rows[x].at /\ new[x].key = rows[x].key
                                          /\ x \in FlightIds \/ new[x].note = rows[x].note,
         \A x \in AircraftIds \cup ContactIds : x # rowReq[p].id /\ Present(x) => new[x].key = rows[x].key,
         rowReq[p].id \in AircraftIds =>
           \A a \in AircraftIds \cap Own : a # rowReq[p].id /\ Present(a) => rows[a].key # new[rowReq[p].id].key,
         rowReq[p].id \in ContactIds =>
           \A a \in ContactIds \cap Own : a # rowReq[p].id /\ Present(a) => Lower[rows[a].key] # Lower[new[rowReq[p].id].key]
  PROVE  RowsInv'
<1> DEFINE id == rowReq[p].id
<1>0. /\ rows' = new /\ late' = late \cup Rec!Behind(W, rowReq[p].at)
      /\ rowReq' = [rowReq EXCEPT ![p] = Rec!NoRequest]
      /\ UNCHANGED <<tomb, clock, rowServed, mirror, mark, feed>>
  BY DEF Rec!Save, Rec!Commit, Rec!Done
<1>1. \A x \in Ids : Present(x)' <=> Present(x)
  BY <1>0 DEF Present
<1>2. id \in Ids
  BY CommittingRequest
<1>3. Rec!NamesUnique'
  <2>1. \A a \in AircraftIds \cup ContactIds : a \in Ids
    BY DEF Ids
  <2>2. \A a \in AircraftIds \cup ContactIds : a # id /\ Present(a)' => Present(a) /\ rows'[a].key = rows[a].key
    BY <1>0, <1>1, <2>1
  <2> QED BY <1>0, <1>2, <2>2, NamesStay
<1>4. RatingsHeld'
  <2>1. \A c \in RatingIds : c \in Ids /\ LicenceOf[c] \in Ids
    BY RecordsAssumption DEF Ids
  <2> QED BY <1>1, <2>1 DEF RowsInv, RatingsHeld, Present
<1>5. \A x \in W : Present(x)' /\ rows'[x].at = rowReq[p].at
  BY <1>0, <1>1
<1> QED BY <1>0, <1>1, <1>3, <1>4, <1>5, WriteKeeps

\* The request's copy put in place of the row.
LEMMA OverwriteSays ==
  ASSUME RowsInv, NEW p \in Procs, rowReq[p].step = "ready", rowReq[p].op \in UpdateOps, Present(rowReq[p].id)
  PROVE  /\ Rec!Overwrite(p) \in RowOrNone /\ Rec!Overwrite(p)[rowReq[p].id].at = rowReq[p].at
         /\ Rec!Overwrite(p)[rowReq[p].id].key = rowReq[p].new.key
         /\ Rec!Overwrite(p)[rowReq[p].id].note = rowReq[p].new.note
         /\ Rec!Overwrite(p)[rowReq[p].id] \in Rec!Row
         /\ \A x \in Ids \ {rowReq[p].id} : Rec!Overwrite(p)[x] = rows[x]
         /\ \A x \in Ids : Rec!Overwrite(p)[x] = NoRow <=> rows[x] = NoRow
<1> DEFINE id == rowReq[p].id
           new == [rowReq[p].new EXCEPT !.at = rowReq[p].at]
<1>1. new \in Rec!Row /\ new.at = rowReq[p].at /\ new.key = rowReq[p].new.key /\ new.note = rowReq[p].new.note /\ new # NoRow
  BY StoredRow
<1>2. id \in Ids /\ rows \in RowOrNone
  BY CommittingRequest
<1>3. Rec!Overwrite(p) = [rows EXCEPT ![id] = new]
  BY DEF Rec!Overwrite
<1> HIDE DEF new
<1>4. Rec!Overwrite(p) \in RowOrNone /\ Rec!Overwrite(p)[id] = new /\ \A x \in Ids \ {id} : Rec!Overwrite(p)[x] = rows[x]
  BY <1>1, <1>2, <1>3 DEF RowOrNone
<1> QED BY <1>1, <1>2, <1>4 DEF Present

LEMMA SimpleUpdatesKeep ==
  ASSUME RowsInv, NEW p \in Procs, rowReq[p].step = "ready",
         \/ rowReq[p].op = "aircraftUpdate" /\ Rec!aircraftUpdate(p)
         \/ rowReq[p].op = "credentialUpdate" /\ Rec!credentialUpdate(p)
         \/ rowReq[p].op = "licenseUpdate" /\ Rec!licenseUpdate(p)
  PROVE  RowsInv'
<1> DEFINE id == rowReq[p].id
           W == {id}
           new == Rec!Overwrite(p)
<1>0. rowReq[p].op \in UpdateOps /\ id \in OpIds(rowReq[p].op) /\ id \in Ids
  BY CommittingRequest DEF UpdateOps, ReadyOK
<1>1. id \notin ContactIds /\ (rowReq[p].op # "aircraftUpdate" => id \notin AircraftIds)
  <2>1. rowReq[p].op = "aircraftUpdate" => id \in AircraftIds
    BY <1>0 DEF OpIds
  <2>2. rowReq[p].op = "credentialUpdate" => id \in CredentialIds
    BY <1>0 DEF OpIds
  <2>3. rowReq[p].op = "licenseUpdate" => id \in LicenceIds
    BY <1>0 DEF OpIds
  <2> QED BY <2>1, <2>2, <2>3, RecordsAssumption
<1>2. Rec!Fail(p) \/ (Rec!Save(p, new, W) /\ live' = live /\ Present(id) /\
        (rowReq[p].op = "aircraftUpdate" => ~Rec!Taken(AircraftIds, id, Rec!SameKey, rowReq[p].new.key)))
  BY DEF Rec!aircraftUpdate, Rec!credentialUpdate, Rec!licenseUpdate, Rec!Exists, Present
<1>3. CASE Rec!Fail(p)
  BY <1>3, FailKeeps
<1>4. CASE ~Rec!Fail(p)
  <2>1. Rec!Save(p, new, W) /\ live' = live /\ Present(id)
    BY <1>2, <1>4
  <2>2. id \in AircraftIds => \A a \in AircraftIds \cap Own : a # id /\ Present(a) => rows[a].key # rowReq[p].new.key
    BY <1>1, <1>2, <1>4, FreeNames
  <2>3. /\ new \in RowOrNone /\ new[id].at = rowReq[p].at /\ new[id].key = rowReq[p].new.key
        /\ \A x \in Ids \ {id} : new[x] = rows[x]
        /\ \A x \in Ids : new[x] = NoRow <=> rows[x] = NoRow
    BY <1>0, <2>1, OverwriteSays
  <2> HIDE DEF new
  <2>4. W \in SUBSET Ids /\ id \in W /\ \A x \in W : Present(x) /\ new[x].at = rowReq[p].at
    BY <1>0, <2>1, <2>3
  <2>5. \A x \in Ids \ W : new[x] = rows[x]
    BY <2>3
  <2>6. \A x \in AircraftIds \cup ContactIds : x # id => new[x] = rows[x]
    BY <2>3 DEF Ids
  <2>7. live' \in Keys \cup {NoRow}
    BY <2>1 DEF RowsInv, RowTypes
  <2> HIDE DEF W
  <2> QED BY <1>0, <1>1, <2>1, <2>2, <2>3, <2>4, <2>5, <2>6, <2>7, SaveKeeps
<1> QED BY <1>3, <1>4

\* class_type is not among the columns of the update.
LEMMA RatingUpdateKeeps ==
  ASSUME RowsInv, NEW p \in Procs, rowReq[p].step = "ready", rowReq[p].op = "ratingUpdate", Rec!classRatingUpdate(p)
  PROVE  RowsInv'
<1> DEFINE id == rowReq[p].id
           W == {id}
           new == [Rec!Overwrite(p) EXCEPT ![id].key = rows[id].key]
<1>0. rowReq[p].op \in UpdateOps /\ id \in RatingIds /\ id \in Ids /\ id \notin AircraftIds /\ id \notin ContactIds
  <2>1. id \in RatingIds /\ id \in Ids
    BY CommittingRequest DEF ReadyOK, OpIds
  <2> QED BY <2>1, RecordsAssumption DEF UpdateOps
<1>1. CASE ~Present(id)
  BY <1>1, FailKeeps DEF Rec!classRatingUpdate, Rec!Exists, Present
<1>2. CASE Present(id)
  <2>1. Rec!Save(p, new, W) /\ live' = live
    BY <1>2 DEF Rec!classRatingUpdate, Rec!Exists, Present
  <2>2. /\ Rec!Overwrite(p) \in RowOrNone /\ Rec!Overwrite(p)[id].at = rowReq[p].at /\ Rec!Overwrite(p)[id] \in Rec!Row
        /\ \A x \in Ids \ {id} : Rec!Overwrite(p)[x] = rows[x]
        /\ \A x \in Ids : Rec!Overwrite(p)[x] = NoRow <=> rows[x] = NoRow
    BY <1>0, <1>2, OverwriteSays
  <2>3. rows[id].key \in Keys /\ NoRow \notin Rec!Row
    BY <1>0, <1>2, RecordsAssumption DEF RowsInv, RowTypes, RowOrNone, Present, Rec!Row
  <2> DEFINE row == [Rec!Overwrite(p)[id] EXCEPT !.key = rows[id].key]
  <2>4. row \in Rec!Row /\ row.at = rowReq[p].at
    BY <2>2, <2>3 DEF Rec!Row
  <2>5. new = [Rec!Overwrite(p) EXCEPT ![id] = row]
    BY <1>0, <2>2 DEF RowOrNone
  <2> HIDE DEF row, new
  <2>6. new \in RowOrNone /\ new[id] = row /\ \A x \in Ids \ {id} : new[x] = rows[x]
    BY <1>0, <2>2, <2>4, <2>5 DEF RowOrNone
  <2>7. \A x \in Ids : new[x] = NoRow <=> rows[x] = NoRow
    BY <1>2, <2>3, <2>4, <2>6 DEF Present
  <2>8. W \in SUBSET Ids /\ id \in W /\ \A x \in W : Present(x) /\ new[x].at = rowReq[p].at
    BY <1>0, <1>2, <2>4, <2>6
  <2>9. \A x \in Ids \ W : new[x] = rows[x]
    BY <2>6
  <2>10. \A x \in AircraftIds \cup ContactIds : x # id => new[x] = rows[x]
    BY <2>6 DEF Ids
  <2>11. live' \in Keys \cup {NoRow}
    BY <2>1 DEF RowsInv, RowTypes
  <2> HIDE DEF W
  <2> QED BY <1>0, <1>2, <2>1, <2>6, <2>7, <2>8, <2>9, <2>10, <2>11, SaveKeeps
<1> QED BY <1>1, <1>2

\* A rename: the aircraft, and the unsigned flights under the registration the service read.
LEMMA AircraftRenameKeeps ==
  ASSUME RowsInv, NEW p \in Procs, rowReq[p].step = "ready", rowReq[p].op = "rename", Rec!UpdateWithFlightRename(p)
  PROVE  RowsInv'
<1> DEFINE id == rowReq[p].id
           moved == {f \in (FlightIds \cap Own) \ Signed : Present(f) /\ rows[f].key = rowReq[p].old}
           over == Rec!Overwrite(p)
           new == [x \in Ids |-> IF x \in moved THEN [rows[x] EXCEPT !.key = rowReq[p].new.key, !.at = rowReq[p].at] ELSE over[x]]
           W == moved \cup {id}
<1>0. /\ rowReq[p].op \in UpdateOps /\ id \in AircraftIds /\ id \in Ids /\ id \notin FlightIds /\ id \notin ContactIds
      /\ rowReq[p].new.key \in Keys /\ rowReq[p].at \in Rec!ClockTimes
  <2>1. id \in AircraftIds /\ id \in Ids /\ rowReq[p].new \in Rec!Row /\ rowReq[p].at \in Rec!ClockTimes /\ rowReq[p].op \in UpdateOps
    BY CommittingRequest DEF ReadyOK, OpIds, UpdateOps
  <2> QED BY <2>1, RecordsAssumption DEF Rec!Row
<1>1. CASE ~Present(id) \/ Rec!Taken(AircraftIds, id, Rec!SameKey, rowReq[p].new.key)
  BY <1>1, FailKeeps, Zenon DEF Rec!UpdateWithFlightRename, Rec!Exists, Present
<1>2. CASE Present(id) /\ ~Rec!Taken(AircraftIds, id, Rec!SameKey, rowReq[p].new.key)
  <2>1. Rec!Save(p, new, W) /\ live' = IF live = rowReq[p].old THEN rowReq[p].new.key ELSE live
    BY <1>2, RecIds, Zenon DEF Rec!UpdateWithFlightRename, Rec!Exists, Present
  <2>2. \A a \in AircraftIds \cap Own : a # id /\ Present(a) => rows[a].key # rowReq[p].new.key
    BY <1>2, FreeNames
  <2>3. /\ over \in RowOrNone /\ over[id].at = rowReq[p].at /\ over[id].key = rowReq[p].new.key
        /\ \A x \in Ids \ {id} : over[x] = rows[x]
        /\ \A x \in Ids : over[x] = NoRow <=> rows[x] = NoRow
    BY <1>0, <1>2, OverwriteSays
  <2>4. moved \subseteq FlightIds /\ moved \subseteq Ids /\ \A x \in moved : Present(x) /\ rows[x] \in Rec!Row
    BY DEF Ids, RowsInv, RowTypes, RowOrNone, Present
  <2>5. \A x \in moved : LET r == [rows[x] EXCEPT !.key = rowReq[p].new.key, !.at = rowReq[p].at]
                         IN r \in Rec!Row /\ r.at = rowReq[p].at
    BY <1>0, <2>4 DEF Rec!Row
  <2>6. NoRow \notin Rec!Row
    BY RecordsAssumption
  <2> HIDE DEF moved, over
  <2>7. \A x \in moved : new[x] \in Rec!Row /\ new[x].at = rowReq[p].at
    BY <2>4, <2>5, Zenon
  <2>8. \A x \in Ids \ moved : new[x] = over[x]
    OBVIOUS
  <2>9. new \in RowOrNone
    <3>1. \A x \in Ids : new[x] \in Rec!Row \cup {NoRow}
      BY <2>3, <2>7, <2>8, Zenon DEF RowOrNone
    <3> QED BY <3>1, Zenon DEF RowOrNone
  <2> HIDE DEF new
  <2>10. W \in SUBSET Ids /\ id \in W /\ id \notin moved
    BY <1>0, <2>4
  <2>11. \A x \in W : Present(x) /\ new[x].at = rowReq[p].at
    BY <1>0, <1>2, <2>3, <2>4, <2>7, <2>8, <2>10
  <2>12. \A x \in Ids : new[x] = NoRow <=> rows[x] = NoRow
    BY <2>3, <2>4, <2>6, <2>7, <2>8 DEF Present
  <2>13. \A x \in Ids \ W : new[x] = rows[x]
    BY <2>3, <2>8
  <2>14. \A x \in AircraftIds \cup ContactIds : x # id => new[x] = rows[x]
    <3>1. \A x \in AircraftIds \cup ContactIds : x \in Ids /\ x \notin moved
      BY <2>4, RecordsAssumption DEF Ids
    <3> QED BY <2>3, <2>8, <3>1
  <2>15. live' \in Keys \cup {NoRow}
    BY <1>0, <2>1 DEF RowsInv, RowTypes
  <2>16. new[id].key = rowReq[p].new.key
    BY <1>0, <2>3, <2>8, <2>10
  <2> HIDE DEF W
  <2> QED BY <1>0, <1>2, <2>1, <2>2, <2>9, <2>10, <2>11, <2>12, <2>13, <2>14, <2>15, <2>16, SaveKeeps
<1> QED BY <1>1, <1>2

\* A contact and the crew entries that refer to it; updated_at of those flights stays.
LEMMA CrewRenameKeeps ==
  ASSUME RowsInv, NEW p \in Procs, rowReq[p].step = "ready", rowReq[p].op = "crewRename", Rec!UpdateWithCrewRename(p)
  PROVE  RowsInv'
<1> DEFINE id == rowReq[p].id
           crew == {f \in (FlightIds \cap Own) \ Signed : Present(f) /\ rows[f].link = id}
           over == Rec!Overwrite(p)
           new == [x \in Ids |-> IF x \in crew THEN [rows[x] EXCEPT !.note = rowReq[p].new.key] ELSE over[x]]
           W == {id}
<1>0. /\ rowReq[p].op \in UpdateOps /\ id \in ContactIds /\ id \in Ids /\ id \notin FlightIds /\ id \notin AircraftIds
      /\ rowReq[p].new.key \in Keys
  <2>1. id \in ContactIds /\ id \in Ids /\ rowReq[p].new \in Rec!Row /\ rowReq[p].op \in UpdateOps
    BY CommittingRequest DEF ReadyOK, OpIds, UpdateOps
  <2> QED BY <2>1, RecordsAssumption DEF Rec!Row
<1>1. CASE ~Present(id) \/ Rec!Taken(ContactIds, id, Rec!SameName, rowReq[p].new.key)
  BY <1>1, FailKeeps DEF Rec!UpdateWithCrewRename, Rec!Exists, Present
<1>2. CASE Present(id) /\ ~Rec!Taken(ContactIds, id, Rec!SameName, rowReq[p].new.key)
  <2>1. Rec!Save(p, new, W) /\ live' = live
    BY <1>2, RecIds DEF Rec!UpdateWithCrewRename, Rec!Exists, Present
  <2>2. \A a \in ContactIds \cap Own : a # id /\ Present(a) => Lower[rows[a].key] # Lower[rowReq[p].new.key]
    BY <1>2, FreeNames
  <2>3. /\ over \in RowOrNone /\ over[id].at = rowReq[p].at /\ over[id].key = rowReq[p].new.key
        /\ \A x \in Ids \ {id} : over[x] = rows[x]
        /\ \A x \in Ids : over[x] = NoRow <=> rows[x] = NoRow
    BY <1>0, <1>2, OverwriteSays
  <2>4. crew \subseteq FlightIds /\ crew \subseteq Ids /\ \A x \in crew : Present(x) /\ rows[x] \in Rec!Row
    BY DEF Ids, RowsInv, RowTypes, RowOrNone, Present
  <2>5. \A x \in crew : LET r == [rows[x] EXCEPT !.note = rowReq[p].new.key]
                        IN r \in Rec!Row /\ r.at = rows[x].at /\ r.key = rows[x].key
    BY <1>0, <2>4 DEF Rec!Row
  <2>6. NoRow \notin Rec!Row
    BY RecordsAssumption
  <2> HIDE DEF crew, over
  <2>7. \A x \in crew : new[x] \in Rec!Row /\ new[x].at = rows[x].at /\ new[x].key = rows[x].key
    BY <2>4, <2>5
  <2>8. \A x \in Ids \ crew : new[x] = over[x]
    OBVIOUS
  <2>9. new \in RowOrNone
    <3>1. \A x \in Ids : new[x] \in Rec!Row \cup {NoRow}
      BY <2>3, <2>7, <2>8 DEF RowOrNone
    <3> QED BY <3>1 DEF RowOrNone
  <2> HIDE DEF new
  <2>10. W \in SUBSET Ids /\ id \in W /\ id \notin crew
    BY <1>0, <2>4
  <2>11. \A x \in W : Present(x) /\ new[x].at = rowReq[p].at
    BY <1>0, <1>2, <2>3, <2>8, <2>10
  <2>12. \A x \in Ids : new[x] = NoRow <=> rows[x] = NoRow
    BY <2>3, <2>4, <2>6, <2>7, <2>8 DEF Present
  <2>13. \A x \in Ids \ W : /\ new[x] = rows[x] \/ x \in crew
    BY <2>3, <2>8
  <2>14. \A x \in Ids \ W : Present(x) => /\ new[x].at = rows[x].at /\ new[x].key = rows[x].key
                                          /\ x \in FlightIds \/ new[x].note = rows[x].note
    BY <2>4, <2>7, <2>13
  <2>15. \A x \in AircraftIds \cup ContactIds : x # id => new[x] = rows[x]
    <3>1. \A x \in AircraftIds \cup ContactIds : x \in Ids /\ x \notin crew
      BY <2>4, RecordsAssumption DEF Ids
    <3> QED BY <2>3, <2>8, <3>1
  <2>16. live' \in Keys \cup {NoRow}
    BY <2>1 DEF RowsInv, RowTypes
  <2>17. new[id].key = rowReq[p].new.key
    BY <1>0, <2>3, <2>8, <2>10
  <2> HIDE DEF W
  <2> QED BY <1>0, <1>2, <2>1, <2>2, <2>9, <2>10, <2>11, <2>12, <2>14, <2>15, <2>16, <2>17, SaveKeeps
<1> QED BY <1>1, <1>2

\* A deletion leaves tombstones behind every page the client has read, or is one of the
\* deletions its watermark has passed.
LEMMA EraseKeeps ==
  ASSUME RowsInv, NEW p \in Procs, rowReq[p].step = "ready", NEW gone \in SUBSET Ids, Rec!Erase(p, gone)
  PROVE  RowsInv'
<1>0. PICK all, dead, at : /\ all = gone \cup {c \in RatingIds : LicenceOf[c] \in gone}
                           /\ dead = {x \in all : Present(x)} /\ at = rowReq[p].at
  OBVIOUS
<1>1. /\ rows' = [x \in Ids |-> IF x \in all THEN NoRow
                                ELSE IF x \in FlightIds /\ Present(x) /\ rows[x].link \in gone
                                     THEN [rows[x] EXCEPT !.link = NoRow] ELSE rows[x]]
      /\ tomb' = [x \in Ids |-> IF x \in dead \ RatingIds THEN at ELSE tomb[x]]
      /\ late' = late \cup Rec!BehindFeed(dead, at)
      /\ rowReq' = [rowReq EXCEPT ![p] = Rec!NoRequest]
      /\ UNCHANGED <<live, clock, rowServed, mirror, mark, feed, raced>>
  BY <1>0, RecIds DEF Rec!Erase, Rec!record_deletion_tombstone, Rec!Done, Rec!Exists, Present
<1>2. all \subseteq Ids
  BY <1>0 DEF Ids
<1>3. at \in Nat /\ 1 <= at /\ at <= clock /\ clock \in Nat /\ rows \in RowOrNone
  BY <1>0, CommittingRequest
<1>4. /\ tomb \in [Ids -> Int] /\ \A x \in Ids : -1 <= tomb[x] /\ tomb[x] <= clock /\ (Present(x) => tomb[x] = 0)
      /\ feed.since \in Nat /\ feed.seen \in Nat /\ feed.since <= feed.seen /\ feed' = feed
  BY <1>1 DEF RowsInv, Tombs, FeedTypes
<1>5. \A x \in Ids : Present(x) /\ x \notin all =>
        /\ rows'[x] \in Rec!Row /\ rows'[x].at = rows[x].at /\ rows'[x].key = rows[x].key /\ rows'[x].note = rows[x].note
  <2> SUFFICES ASSUME NEW x \in Ids, Present(x), x \notin all
               PROVE  /\ rows'[x] \in Rec!Row /\ rows'[x].at = rows[x].at /\ rows'[x].key = rows[x].key
                      /\ rows'[x].note = rows[x].note
    OBVIOUS
  <2>1. rows[x] \in Rec!Row
    BY <1>3 DEF RowOrNone, Present
  <2>2. rows'[x] = [rows[x] EXCEPT !.link = NoRow] \/ rows'[x] = rows[x]
    BY <1>1
  <2> QED BY <2>1, <2>2 DEF Rec!Row
<1>6. \A x \in Ids : (x \in all => rows'[x] = NoRow) /\ (~Present(x) => rows'[x] = NoRow)
  BY <1>1 DEF Present
<1>7. \A x \in Ids : Present(x)' <=> Present(x) /\ x \notin all
  <2>1. NoRow \notin Rec!Row
    BY RecordsAssumption
  <2> QED BY <1>5, <1>6, <2>1 DEF Present
<1>8. \A x \in Ids : tomb'[x] = IF x \in dead \ RatingIds THEN at ELSE tomb[x]
  BY <1>1
<1>9. RowTypes'
  <2>1. rows' \in RowOrNone
    <3>1. \A x \in Ids : rows'[x] \in Rec!Row \cup {NoRow}
      BY <1>5, <1>6
    <3> QED BY <1>1, <3>1 DEF RowOrNone
  <2>2. RowOrNone' = RowOrNone
    BY DEF RowOrNone, Ids, Rec!Row, Rec!ClockTimes
  <2>3. \A x \in Ids : Present(x)' => rows'[x].at <= clock'
    BY <1>1, <1>5, <1>7 DEF RowsInv, RowTypes
  <2>4. DOMAIN rowReq' = Procs
    BY <1>1 DEF RowsInv, RowTypes
  <2> QED BY <1>1, <2>1, <2>2, <2>3, <2>4 DEF RowsInv, RowTypes
<1>10. FeedTypes'
  BY <1>1 DEF RowsInv, FeedTypes, Rec!Collections
<1>11. Tombs'
  <2>1. tomb' \in [Ids -> Int] /\ \A x \in Ids : -1 <= tomb'[x] /\ tomb'[x] <= clock
    BY <1>1, <1>3, <1>4
  <2>2. \A x \in Ids : Present(x)' => tomb'[x] = 0
    BY <1>0, <1>4, <1>7, <1>8
  <2>3. clock' = clock
    BY <1>1
  <2> QED BY <2>1, <2>2, <2>3 DEF Tombs
<1>12. RatingsHeld'
  <2>1. \A c \in RatingIds : c \in Ids /\ LicenceOf[c] \in Ids /\ LicenceOf[c] \notin RatingIds
    BY RecordsAssumption DEF Ids
  <2>2. \A c \in RatingIds : Present(c) => Present(LicenceOf[c])
    BY DEF RowsInv, RatingsHeld
  <2>3. \A c \in RatingIds : Present(c)' => Present(LicenceOf[c]) /\ LicenceOf[c] \notin all
    BY <1>0, <1>7, <2>1, <2>2
  <2>4. \A x \in Ids : Present(x) /\ x \notin all => rows'[x] # NoRow
    BY <1>7 DEF Present
  <2> QED BY <2>1, <2>3, <2>4 DEF RatingsHeld, Present
<1>13. Requests'
  <2>1. \A q \in Procs \ {p} : Creating(q) => ~Present(rowReq[q].id)' /\ tomb'[rowReq[q].id] = tomb[rowReq[q].id]
    <3> SUFFICES ASSUME NEW q \in Procs \ {p}, Creating(q)
                 PROVE  ~Present(rowReq[q].id)' /\ tomb'[rowReq[q].id] = tomb[rowReq[q].id]
      OBVIOUS
    <3>1. rowReq[q].id \in Ids /\ ~Present(rowReq[q].id) /\ rowReq'[q] = rowReq[q]
      BY <1>1, RequestIds DEF RowsInv, RowTypes
    <3>2. rows'[rowReq[q].id] = NoRow /\ tomb'[rowReq[q].id] = tomb[rowReq[q].id]
      BY <1>0, <1>6, <1>8, <3>1
    <3> QED BY <3>1, <3>2 DEF Present
  <2> QED BY <1>1, <2>1, RequestEnds
<1>14. Rec!NamesUnique'
  <2>1. \A x \in AircraftIds \cup ContactIds : Present(x)' => Present(x) /\ rows'[x].key = rows[x].key
    BY <1>5, <1>7 DEF Ids
  <2> QED BY <2>1 DEF RowsInv, Rec!NamesUnique, Rec!Exists, Rec!SameName, Present
<1>15. \A x \in Gone : x \in Ids /\ tomb'[x] = tomb[x] /\ x \in Gone'
  <2>1. \A x \in Gone : x \in Ids /\ tomb[x] > 0 /\ x \notin dead
    BY <1>0, <1>4, GoneSet DEF Gone
  <2>2. \A x \in Gone : tomb'[x] = tomb[x]
    BY <1>8, <2>1
  <2> QED BY <1>4, <2>1, <2>2 DEF Gone
<1>16. Lapsed' = Lapsed /\ PagesRead' = PagesRead
  BY <1>1 DEF Lapsed, PagesRead
<1>17. IsFiniteSet(Gone')
  <2>1. Gone' \subseteq Ids /\ IsFiniteSet(Ids)
    BY RecordsAssumption DEF Gone
  <2> QED BY <2>1, FS_Subset
<1>18. ASSUME NEW A, NEW B, A \subseteq B, B \subseteq Gone' PROVE Cardinality(A) <= Cardinality(B) /\ Cardinality(A) \in Nat /\ Cardinality(B) \in Nat
  <2>1. IsFiniteSet(B)
    BY <1>17, <1>18, FS_Subset
  <2> QED BY <1>18, <2>1, FS_Subset, FS_CardinalityType
<1>19. PagesRead \in Nat
  BY RecordsAssumption DEF RowsInv, FeedTypes, PagesRead
<1>20. Reached'
  <2> SUFFICES ASSUME NEW x \in Own \ RatingIds PROVE RowReached(x)' /\ GoneReached(x)'
    BY DEF Reached
  <2>0. x \in Ids \ RatingIds /\ RowReached(x) /\ GoneReached(x)
    BY RecordsAssumption DEF RowsInv, Reached
  <2>1. RowReached(x)'
    <3>1. Present(x)' => /\ Present(x) /\ rows'[x].at = rows[x].at /\ rows'[x].key = rows[x].key
                         /\ rows'[x].note = rows[x].note
      BY <1>5, <1>7, <2>0
    <3> QED BY <1>1, <2>0, <3>1 DEF RowReached, Rec!Same, Rec!Exists, Ahead, Present, Rec!Collection, Rec!Collections
  <2>2. CASE Present(x) /\ ~Present(x)'
    <3>1. x \in dead \ RatingIds /\ tomb'[x] = at
      BY <1>0, <1>7, <1>8, <2>0, <2>2
    <3>2. CASE at <= feed.seen
      <4>1. x \in late'
        BY <1>1, <3>1, <3>2 DEF Rec!BehindFeed
      <4> QED BY <2>1, <4>1 DEF GoneReached
    <3>3. CASE ~(at <= feed.seen)
      <4>1. at > feed.seen /\ tomb'[x] > feed'.since
        BY <1>3, <1>4, <3>1, <3>3
      <4>2. CASE Lapsed
        BY <1>16, <2>1, <4>2 DEF GoneReached
      <4>3. CASE ~Lapsed
        <5> DEFINE A == {y \in Gone : tomb[y] <= feed.seen}
                   B == {y \in Gone' : Rec!Earlier(y, x)'}
        <5>1. PagesRead <= Cardinality(A)
          BY <4>3 DEF RowsInv, SeenRead
        <5>2. A \subseteq B
          <6>1. \A y \in A : tomb'[y] < tomb'[x]
            BY <1>3, <1>4, <1>15, <3>1, <4>1
          <6> QED BY <1>15, <6>1 DEF Rec!Earlier
        <5>3. B \subseteq Gone'
          OBVIOUS
        <5> HIDE DEF A, B
        <5>4. Cardinality(A) <= Cardinality(B) /\ Cardinality(A) \in Nat /\ Cardinality(B) \in Nat
          BY <1>18, <5>2, <5>3
        <5>5. Cardinality(B) >= PagesRead
          BY <1>19, <5>1, <5>4
        <5>6. GonePlace(x)' >= PagesRead'
          BY <1>16, <5>5 DEF B, GonePlace
        <5> QED BY <2>1, <4>1, <5>6 DEF GoneReached
      <4> QED BY <4>2, <4>3
    <3> QED BY <3>2, <3>3
  <2>3. CASE ~Present(x)
    <3>1. tomb'[x] = tomb[x] /\ mirror'[x] = mirror[x] /\ (x \in late => x \in late')
      BY <1>0, <1>1, <1>8, <2>0, <2>3
    <3>2. \/ mirror[x] = NoRow \/ x \in late \/ feed.reconcile \/ Lapsed
          \/ tomb[x] > feed.since /\ GonePlace(x) >= PagesRead
      BY <2>0, <2>3 DEF GoneReached
    <3>3. CASE tomb[x] > feed.since /\ GonePlace(x) >= PagesRead
      <4> DEFINE A == {y \in Gone : Rec!Earlier(y, x)}
                 B == {y \in Gone' : Rec!Earlier(y, x)'}
      <4>1. A \subseteq B
        BY <1>15, <3>1 DEF Rec!Earlier
      <4>2. B \subseteq Gone' /\ Cardinality(A) >= PagesRead
        BY <3>3 DEF GonePlace
      <4> HIDE DEF A, B
      <4>3. Cardinality(A) <= Cardinality(B) /\ Cardinality(A) \in Nat /\ Cardinality(B) \in Nat
        BY <1>18, <4>1, <4>2
      <4>4. Cardinality(B) >= PagesRead
        BY <1>19, <4>2, <4>3
      <4>5. GonePlace(x)' >= PagesRead'
        BY <1>16, <4>4 DEF B, GonePlace
      <4>6. tomb'[x] > feed'.since
        BY <1>4, <3>1, <3>3
      <4> QED BY <2>1, <4>5, <4>6 DEF GoneReached
    <3>4. CASE mirror[x] = NoRow \/ x \in late \/ feed.reconcile \/ Lapsed
      BY <1>4, <1>16, <2>1, <3>1, <3>4 DEF GoneReached
    <3> QED BY <3>2, <3>3, <3>4
  <2>4. CASE Present(x)'
    BY <2>1, <2>4 DEF GoneReached
  <2> QED BY <2>2, <2>3, <2>4
<1>21. SeenRead'
  <2> DEFINE A == {y \in Gone : tomb[y] <= feed.seen}
             B == {y \in Gone' : tomb'[y] <= feed'.seen}
  <2>1. A \subseteq B /\ B \subseteq Gone'
    BY <1>4, <1>15
  <2>2. CASE Lapsed
    BY <1>16, <2>2 DEF SeenRead
  <2>3. CASE ~Lapsed
    <3>1. PagesRead <= Cardinality(A)
      BY <2>3 DEF RowsInv, SeenRead
    <3> HIDE DEF A, B
    <3>2. Cardinality(A) <= Cardinality(B) /\ Cardinality(A) \in Nat /\ Cardinality(B) \in Nat
      BY <1>18, <2>1
    <3>3. PagesRead <= Cardinality(B)
      BY <1>19, <3>1, <3>2
    <3> QED BY <1>16, <3>3 DEF SeenRead, B
  <2> QED BY <2>2, <2>3
<1> QED BY <1>9, <1>10, <1>11, <1>12, <1>13, <1>14, <1>20, <1>21 DEF RowsInv

LEMMA DeletesKeep ==
  ASSUME RowsInv, NEW p \in Procs, rowReq[p].step = "ready",
         \/ Rec!aircraftDelete(p) \/ Rec!contactDelete(p) \/ Rec!credentialDelete(p) \/ Rec!licenseDelete(p)
         \/ Rec!classRatingDelete(p) \/ Rec!flightDelete(p) \/ Rec!DeleteAllByUserID(p)
  PROVE  RowsInv'
<1>1. rowReq[p].id \in Ids
  BY CommittingRequest
<1>2. PICK one, wiped : one = {rowReq[p].id} /\ wiped = {f \in FlightIds \cap Own : Rec!Exists(f)}
  OBVIOUS
<1>3. one \in SUBSET Ids /\ wiped \in SUBSET Ids
  BY <1>1, <1>2 DEF Ids
<1>4. Rec!Fail(p) \/ Rec!Erase(p, one) \/ Rec!Erase(p, wiped)
  BY <1>2 DEF Rec!aircraftDelete, Rec!contactDelete, Rec!credentialDelete, Rec!licenseDelete,
     Rec!classRatingDelete, Rec!flightDelete, Rec!DeleteAllByUserID
<1> QED BY <1>3, <1>4, FailKeeps, EraseKeeps

LEMMA TransactKeeps ==
  ASSUME RowsInv, NEW p \in Procs, Rec!Transact(p)
  PROVE  RowsInv'
<1>0. rowReq[p].step = "ready"
  BY DEF Rec!Transact
<1>1. \/ rowReq[p].op = "aircraftCreate" /\ Rec!aircraftCreate(p)
      \/ rowReq[p].op = "aircraftUpdate" /\ Rec!aircraftUpdate(p)
      \/ rowReq[p].op = "rename" /\ Rec!UpdateWithFlightRename(p)
      \/ rowReq[p].op = "contactCreate" /\ Rec!contactCreate(p)
      \/ rowReq[p].op = "crewRename" /\ Rec!UpdateWithCrewRename(p)
      \/ rowReq[p].op = "credentialCreate" /\ Rec!credentialCreate(p)
      \/ rowReq[p].op = "credentialUpdate" /\ Rec!credentialUpdate(p)
      \/ rowReq[p].op = "licenseCreate" /\ Rec!licenseCreate(p)
      \/ rowReq[p].op = "licenseUpdate" /\ Rec!licenseUpdate(p)
      \/ rowReq[p].op = "ratingCreate" /\ Rec!classRatingCreate(p)
      \/ rowReq[p].op = "ratingUpdate" /\ Rec!classRatingUpdate(p)
      \/ Rec!aircraftDelete(p) \/ Rec!contactDelete(p) \/ Rec!credentialDelete(p) \/ Rec!licenseDelete(p)
      \/ Rec!classRatingDelete(p) \/ Rec!flightDelete(p) \/ Rec!DeleteAllByUserID(p)
  BY Zenon DEF Rec!Transact
<1> QED BY <1>0, <1>1, InsertsKeep, SimpleUpdatesKeep, RatingUpdateKeeps, AircraftRenameKeeps, CrewRenameKeeps, DeletesKeep, Zenon

LEMMA RowsNextKeeps ==
  ASSUME RowsInv, Rec!Next
  PROVE  RowsInv'
<1>1. ASSUME NEW p \in Procs,
             \/ Rec!APICreateAircraft(p) \/ Rec!APIUpdateAircraft(p) \/ Rec!APIDeleteAircraft(p)
             \/ Rec!APICreateContact(p) \/ Rec!APIUpdateContact(p) \/ Rec!APIDeleteContact(p)
             \/ Rec!APICreateCredential(p) \/ Rec!APIUpdateCredential(p) \/ Rec!APIDeleteCredential(p)
             \/ Rec!APICreateLicense(p) \/ Rec!APIUpdateLicense(p) \/ Rec!APIDeleteLicense(p)
             \/ Rec!APICreateClassRating(p) \/ Rec!APIUpdateClassRating(p) \/ Rec!APIDeleteClassRating(p)
             \/ Rec!APIDeleteFlight(p) \/ Rec!APIDeleteAllFlights(p)
             \/ Rec!Transact(p)
      PROVE  RowsInv'
  BY <1>1, AircraftRequests, ContactRequests, CredentialRequests, LicenceRequests, RatingRequests, FlightRequests,
     TransactKeeps, Zenon
<1>2. ASSUME NEW C \in Rec!Collections, Rec!PullUpserts(C) PROVE RowsInv'
  BY <1>2, PullUpsertsKeeps
<1> QED BY <1>1, <1>2, PullDeletionsKeeps, ReconcileKeeps, DeleteExpiredKeeps, RowClockKeeps, Zenon DEF Rec!Next

LEMMA RowsInitially ==
  ASSUME Rec!Init
  PROVE  RowsInv
<1>0. PICK s \in Start : /\ rows = s.rows /\ clock = s.clock
                         /\ tomb = [id \in Ids |-> IF id \in s.free \/ s.rows[id] # NoRow THEN 0 ELSE -1]
  BY RecIds DEF Rec!Init
<1>1. /\ live \in {NoRow} \cup {rows[id].key : id \in {a \in AircraftIds : rows[a] # NoRow}}
      /\ rowReq = [p \in Procs |-> Rec!NoRequest] /\ rowServed = 0
      /\ mirror = [id \in Ids |-> NoRow] /\ mark = [C \in Rec!Collections |-> 0]
      /\ feed = [since |-> 0, page |-> 1, seen |-> 0, expired |-> FALSE, reconcile |-> FALSE]
  BY RecIds DEF Rec!Init
<1>2. StartOK(s)
  BY RecordsAssumption
<1>3. rows \in RowOrNone /\ clock \in 1 .. LastTime /\ \A id \in Ids : Present(id) => rows[id].at <= clock
  BY <1>0, <1>2 DEF StartOK, RowOrNone, Present
<1>4. RowTypes
  <2>1. live \in Keys \cup {NoRow}
    <3>1. \A a \in AircraftIds : rows[a] # NoRow => rows[a].key \in Keys
      BY <1>3 DEF RowOrNone, Rec!Row, Ids
    <3> QED BY <1>1, <3>1
  <2>2. mirror \in RowOrNone
    BY <1>1 DEF RowOrNone
  <2>3. rowServed \in 0 .. MaxRequests /\ DOMAIN rowReq = Procs
    BY <1>1, FlightLogAssumption
  <2> QED BY <1>3, <2>1, <2>2, <2>3 DEF RowTypes
<1>5. FeedTypes
  <2>1. mark \in [Rec!Collections -> Nat] /\ \A C \in Rec!Collections : mark[C] <= clock
    BY <1>1, <1>3
  <2> QED BY <1>1, <2>1 DEF FeedTypes
<1>6. Tombs
  <2>1. \A id \in Ids : tomb[id] \in {0, -1} /\ (Present(id) => tomb[id] = 0)
    BY <1>0 DEF Present
  <2>2. tomb \in [Ids -> Int] /\ \A id \in Ids : -1 <= tomb[id] /\ tomb[id] <= clock
    BY <1>0, <1>3
  <2> QED BY <2>1, <2>2 DEF Tombs
<1>7. RatingsHeld
  BY <1>0, <1>2 DEF StartOK, RatingsHeld, Present
<1>8. Requests
  <2>1. \A p \in Procs : rowReq[p].step = "idle" /\ rowReq[p].id = NoRow
    BY <1>1 DEF Rec!NoRequest
  <2> QED BY <2>1 DEF Requests, Creating
<1>9. PagesRead = 0
  BY <1>1, RecordsAssumption DEF PagesRead
<1>10. Reached
  <2>1. \A id \in Own \ RatingIds : id \in Ids /\ mirror[id] = NoRow
    BY <1>1, RecordsAssumption
  <2>2. \A id \in Own \ RatingIds : mark[Rec!Collection(id)] = 0
    BY <1>1, <2>1, KindsOfIds
  <2> QED BY <2>1, <2>2 DEF Reached, RowReached, GoneReached, Ahead
<1>11. SeenRead
  <2> DEFINE R == {x \in Gone : tomb[x] <= feed.seen}
  <2>1. R \subseteq Gone
    OBVIOUS
  <2> HIDE DEF R
  <2>2. Cardinality(R) \in Nat
    BY <2>1, GoneSet, FS_Subset, FS_CardinalityType
  <2>3. 0 <= Cardinality(R)
    BY <2>2
  <2> QED BY <1>9, <2>3 DEF SeenRead, R
<1>12. Rec!NamesUnique
  BY <1>0, <1>2 DEF StartOK, Rec!NamesUnique, Rec!Exists, Rec!SameName
<1> QED BY <1>4, <1>5, <1>6, <1>7, <1>8, <1>10, <1>11, <1>12 DEF RowsInv

LEMMA RowsInvSays ==
  ASSUME RowsInv
  PROVE  Rec!TypeOK /\ Rec!DifferencesReachable /\ Rec!NamesUnique
<1>1. Rec!TypeOK
  <2>1. \A id \in Ids : rows[id] \in Rec!Row \cup {NoRow} /\ mirror[id] \in Rec!Row \cup {NoRow}
    BY DEF RowsInv, RowTypes, RowOrNone
  <2>2. \A id \in Ids : tomb[id] \in -1 .. clock
    <3>1. clock \in Nat /\ \A id \in Ids : tomb[id] \in Int /\ -1 <= tomb[id] /\ tomb[id] <= clock
      BY DEF RowsInv, RowTypes, Tombs
    <3> QED BY <3>1
  <2>3. \A C \in Rec!Collections : mark[C] \in 0 .. clock
    <3>1. clock \in Nat /\ \A C \in Rec!Collections : mark[C] \in Nat /\ mark[C] <= clock
      BY DEF RowsInv, RowTypes, FeedTypes
    <3> QED BY <3>1
  <2> QED BY <2>1, <2>2, <2>3, RecIds
      DEF RowsInv, RowTypes, FeedTypes, RatingsHeld, Rec!TypeOK, Rec!ClockTimes, Rec!Exists, Present
<1>2. Rec!DifferencesReachable
  <2> SUFFICES ASSUME NEW id \in Own \ RatingIds
               PROVE  \/ ~Present(id) /\ mirror[id] = NoRow
                      \/ Rec!Same(id)
                      \/ id \in late
                      \/ Present(id) /\ Ahead(id)
                      \/ ~Present(id) /\ (tomb[id] > feed.since \/ feed.reconcile \/ Lapsed)
    BY DEF Rec!DifferencesReachable, Rec!Exists, Present, Ahead, Rec!updatedSinceClause, Lapsed, Rec!WatermarkExpired
  <2> QED BY DEF RowsInv, Reached, RowReached, GoneReached
<1> QED BY <1>1, <1>2 DEF RowsInv


LEMMA RowsSafe == LogbookSpec => [](part = "rows" => RowsInv)
<1> DEFINE L == part = "rows" => RowsInv
<1>1. LogbookInit => L
  BY RowsInitially, Zenon DEF LogbookInit
<1>2. L /\ [LogbookNext]_allVars => L'
  <2>1. ASSUME L, UNCHANGED <<part, rowVars>> PROVE L'
    <3>1. UNCHANGED <<rows, live, tomb, clock, rowReq, rowServed, mirror, mark, feed, late, raced>>
      BY <2>1 DEF rowVars
    <3>2. ASSUME RowsInv PROVE RowsInv'
      <4>1. /\ mirror \in RowOrNone /\ clock \in 1 .. LastTime /\ clock \in Nat /\ tomb \in [Ids -> Int]
            /\ feed \in [since : Nat, page : Nat \ {0}, seen : Nat, expired : BOOLEAN, reconcile : BOOLEAN]
            /\ feed.since <= feed.seen
        BY <3>2 DEF RowsInv, RowTypes, FeedTypes, Tombs
      <4>2. RowTypes' /\ FeedTypes' /\ Tombs' /\ RatingsHeld' /\ Requests' /\ Rec!NamesUnique'
        BY <3>1, <3>2, <4>1, RowTablesStay
      <4>3. Lapsed' = Lapsed /\ Gone' = Gone /\ PagesRead' = PagesRead /\ \A id : GonePlace(id)' = GonePlace(id)
        BY <3>1 DEF Lapsed, Gone, PagesRead, GonePlace, Rec!Earlier
      <4>4. \A id : RowReached(id)' <=> RowReached(id)
        BY <3>1 DEF RowReached, Rec!Same, Rec!Exists, Ahead, Present, Rec!Collection, Rec!Collections
      <4>5. \A id : GoneReached(id)' <=> GoneReached(id)
        BY <3>1, <4>3 DEF GoneReached, Present
      <4>6. SeenRead'
        <5>1. {x \in Gone' : tomb'[x] <= feed'.seen} = {x \in Gone : tomb[x] <= feed.seen}
          BY <3>1, <4>3
        <5> QED BY <3>2, <4>3, <5>1 DEF RowsInv, SeenRead
      <4> QED BY <3>2, <4>2, <4>4, <4>5, <4>6 DEF RowsInv, Reached
    <3> QED BY <2>1, <3>2
  <2>2. ASSUME L, part = "rows", Rec!Next PROVE L'
    BY <2>2, RowsNextKeeps
  <2>3. UNCHANGED allVars => UNCHANGED <<part, rowVars>>
    BY Zenon DEF allVars
  <2> HIDE DEF L
  <2> QED BY <2>1, <2>2, <2>3, Zenon DEF LogbookNext
<1> QED BY <1>1, <1>2, PTL DEF LogbookSpec

-----------------------------------------------------------------------------
(* What no write of the rows does. *)

\* The flights of another user refer to no contact of the caller.
ForeignLinks == \A f \in Ids \ Own : Present(f) => rows[f].link \notin Own

\* What the transaction of p keeps.
CommitRight(p) ==
  /\ \A f \in Signed : Present(f) /\ Present(f)' => rows'[f].key = rows[f].key /\ rows'[f].note = rows[f].note
  /\ \A id \in Ids \ Own : rows'[id] = rows[id]
  /\ rowReq[p].op = "rename" /\ rows'[rowReq[p].id] # rows[rowReq[p].id] =>
       \/ rowReq[p].id \in raced'
       \/ /\ live' # rows[rowReq[p].id].key
          /\ \A f \in (FlightIds \cap Own) \ Signed : Present(f)' => rows'[f].key # rows[rowReq[p].id].key
  /\ rowReq[p].field \in {"key", "note"} /\ rows'[rowReq[p].id] # rows[rowReq[p].id] =>
       \/ rowReq[p].id \in raced'
       \/ /\ rowReq[p].field = "note" =>
               rows'[rowReq[p].id].key \in {rows[rowReq[p].id].key, Canonical[rows[rowReq[p].id].key]}
          /\ rowReq[p].field = "key" => rows'[rowReq[p].id].note = rows[rowReq[p].id].note

LEMMA FailRight ==
  ASSUME RowsInv, NEW p \in Procs, Rec!Fail(p)
  PROVE  CommitRight(p)
BY DEF Rec!Fail, CommitRight

LEMMA InsertRight ==
  ASSUME RowsInv, NEW p \in Procs, rowReq[p].step = "ready", rowReq[p].op \in CreateOps, Rec!Insert(p)
  PROVE  CommitRight(p)
<1>1. ReadyOK(rowReq[p]) /\ rowReq[p].id \in Ids /\ rowReq[p].id \in Own /\ rows \in RowOrNone
  BY CommittingRequest
<1>2. \A x \in Ids \ {rowReq[p].id} : rows'[x] = rows[x]
  BY <1>1 DEF Rec!Insert, Rec!Commit, RowOrNone
<1>3. rowReq[p].id \notin FlightIds
  <2>1. rowReq[p].id \in AircraftIds \cup ContactIds \cup CredentialIds \cup LicenceIds \cup RatingIds
    BY <1>1 DEF ReadyOK, OpIds, CreateOps
  <2> QED BY <2>1, RecordsAssumption
<1>4. \A f \in Signed : f \in Ids /\ f # rowReq[p].id
  BY <1>3, RecordsAssumption DEF Ids
<1>5. rowReq[p].op # "rename" /\ rowReq[p].field \notin {"key", "note"}
  BY <1>1 DEF ReadyOK, CreateOps, UpdateOps
<1> QED BY <1>1, <1>2, <1>4, <1>5 DEF CommitRight

\* An update whose copy is current puts nothing but its patch on the row.
LEMMA SaveRight ==
  ASSUME RowsInv, NEW p \in Procs, rowReq[p].step = "ready", rowReq[p].op \in UpdateOps \ {"rename"},
         NEW W, NEW new, Rec!Save(p, new, W),
         \A x \in Ids \ {rowReq[p].id} : new[x] = rows[x] \/ (x \in (FlightIds \cap Own) \ Signed /\ rowReq[p].op = "crewRename"),
         new[rowReq[p].id].key \in {rows[rowReq[p].id].key, rowReq[p].new.key},
         new[rowReq[p].id].note = rowReq[p].new.note
  PROVE  CommitRight(p)
<1>0. /\ rows' = new
      /\ raced' = raced \cup (IF rows[rowReq[p].id] # rowReq[p].seen \/ rowReq[p].old \notin {NoRow, rows[rowReq[p].id].key}
                              THEN {rowReq[p].id} ELSE {})
  BY DEF Rec!Save, Rec!Commit
<1>1. ReadyOK(rowReq[p]) /\ rowReq[p].id \in Ids /\ rowReq[p].id \in Own
  BY CommittingRequest
<1>2. rowReq[p].id \notin FlightIds
  <2>1. rowReq[p].id \in AircraftIds \cup ContactIds \cup CredentialIds \cup LicenceIds \cup RatingIds
    BY <1>1 DEF ReadyOK, OpIds, UpdateOps
  <2> QED BY <2>1, RecordsAssumption
<1>3. \A f \in Signed : f \in Ids /\ f # rowReq[p].id
  BY <1>2, RecordsAssumption DEF Ids
<1>4. rowReq[p].id \notin raced' => rows[rowReq[p].id] = rowReq[p].seen
  BY <1>0
<1>5. rowReq[p].field \in {"key", "note"} => PatchOK(rowReq[p])
  BY <1>1 DEF ReadyOK
<1> QED BY <1>0, <1>1, <1>3, <1>4, <1>5 DEF CommitRight, PatchOK

LEMMA UpdatesRight ==
  ASSUME RowsInv, NEW p \in Procs, rowReq[p].step = "ready",
         \/ rowReq[p].op = "aircraftUpdate" /\ Rec!aircraftUpdate(p)
         \/ rowReq[p].op = "credentialUpdate" /\ Rec!credentialUpdate(p)
         \/ rowReq[p].op = "licenseUpdate" /\ Rec!licenseUpdate(p)
  PROVE  CommitRight(p)
<1> DEFINE new == Rec!Overwrite(p)
           W == {rowReq[p].id}
<1>1. Rec!Fail(p) \/ (Rec!Save(p, new, W) /\ Present(rowReq[p].id))
  BY DEF Rec!aircraftUpdate, Rec!credentialUpdate, Rec!licenseUpdate, Rec!Exists, Present
<1>2. rowReq[p].op \in UpdateOps \ {"rename"}
  BY DEF UpdateOps
<1>3. CASE Rec!Save(p, new, W) /\ Present(rowReq[p].id)
  <2>1. /\ new[rowReq[p].id].key = rowReq[p].new.key /\ new[rowReq[p].id].note = rowReq[p].new.note
        /\ \A x \in Ids \ {rowReq[p].id} : new[x] = rows[x]
    BY <1>2, <1>3, OverwriteSays
  <2> HIDE DEF new, W
  <2> QED BY <1>2, <1>3, <2>1, SaveRight
<1> QED BY <1>1, <1>3, FailRight

LEMMA RatingUpdateRight ==
  ASSUME RowsInv, NEW p \in Procs, rowReq[p].step = "ready", rowReq[p].op = "ratingUpdate", Rec!classRatingUpdate(p)
  PROVE  CommitRight(p)
<1> DEFINE id == rowReq[p].id
           W == {id}
           new == [Rec!Overwrite(p) EXCEPT ![id].key = rows[id].key]
<1>1. rowReq[p].op \in UpdateOps \ {"rename"} /\ id \in Ids
  BY CommittingRequest DEF UpdateOps
<1>2. CASE ~Present(id)
  BY <1>2, FailRight DEF Rec!classRatingUpdate, Rec!Exists, Present
<1>3. CASE Present(id)
  <2>1. Rec!Save(p, new, W)
    BY <1>3 DEF Rec!classRatingUpdate, Rec!Exists, Present
  <2>2. /\ Rec!Overwrite(p) \in RowOrNone /\ Rec!Overwrite(p)[id] \in Rec!Row
        /\ Rec!Overwrite(p)[id].note = rowReq[p].new.note /\ \A x \in Ids \ {id} : Rec!Overwrite(p)[x] = rows[x]
    BY <1>1, <1>3, OverwriteSays
  <2>3. new[id] = [Rec!Overwrite(p)[id] EXCEPT !.key = rows[id].key] /\ \A x \in Ids \ {id} : new[x] = rows[x]
    BY <1>1, <2>2 DEF RowOrNone
  <2>4. new[id].key = rows[id].key /\ new[id].note = rowReq[p].new.note
    BY <2>2, <2>3 DEF Rec!Row
  <2> HIDE DEF new, W
  <2> QED BY <1>1, <2>1, <2>3, <2>4, SaveRight
<1> QED BY <1>2, <1>3

LEMMA CrewRenameRight ==
  ASSUME RowsInv, NEW p \in Procs, rowReq[p].step = "ready", rowReq[p].op = "crewRename", Rec!UpdateWithCrewRename(p)
  PROVE  CommitRight(p)
<1> DEFINE id == rowReq[p].id
           crew == {f \in (FlightIds \cap Own) \ Signed : Present(f) /\ rows[f].link = id}
           new == [x \in Ids |-> IF x \in crew THEN [rows[x] EXCEPT !.note = rowReq[p].new.key] ELSE Rec!Overwrite(p)[x]]
           W == {id}
<1>1. rowReq[p].op \in UpdateOps \ {"rename"} /\ id \in Ids /\ id \notin FlightIds
  <2>1. id \in ContactIds /\ id \in Ids
    BY CommittingRequest DEF ReadyOK, OpIds
  <2> QED BY <2>1, RecordsAssumption DEF UpdateOps
<1>2. Rec!Fail(p) \/ (Rec!Save(p, new, W) /\ Present(id))
  BY RecIds DEF Rec!UpdateWithCrewRename, Rec!Exists, Present
<1>3. CASE Rec!Save(p, new, W) /\ Present(id)
  <2>1. /\ Rec!Overwrite(p)[id].key = rowReq[p].new.key /\ Rec!Overwrite(p)[id].note = rowReq[p].new.note
        /\ \A x \in Ids \ {id} : Rec!Overwrite(p)[x] = rows[x]
    BY <1>1, <1>3, OverwriteSays
  <2>2. new[id] = Rec!Overwrite(p)[id]
    BY <1>1
  <2>3. \A x \in Ids \ {id} : new[x] = rows[x] \/ x \in (FlightIds \cap Own) \ Signed
    BY <2>1
  <2> HIDE DEF new, W
  <2> QED BY <1>1, <1>3, <2>1, <2>2, <2>3, SaveRight
<1> QED BY <1>2, <1>3, FailRight

\* A rename of an aircraft nobody else wrote takes every unsigned flight and the live session
\* along: the registration the service read is the one the row still has.
LEMMA RenameRight ==
  ASSUME RowsInv, NEW p \in Procs, rowReq[p].step = "ready", rowReq[p].op = "rename", Rec!UpdateWithFlightRename(p)
  PROVE  CommitRight(p)
<1> DEFINE id == rowReq[p].id
           moved == {f \in (FlightIds \cap Own) \ Signed : Present(f) /\ rows[f].key = rowReq[p].old}
           new == [x \in Ids |-> IF x \in moved THEN [rows[x] EXCEPT !.key = rowReq[p].new.key, !.at = rowReq[p].at]
                                 ELSE Rec!Overwrite(p)[x]]
           W == moved \cup {id}
<1>1. /\ rowReq[p].op \in UpdateOps /\ id \in Ids /\ id \in Own /\ id \notin FlightIds
      /\ rowReq[p].old \in Keys /\ rowReq[p].old # rowReq[p].new.key /\ ReadyOK(rowReq[p])
  <2>1. id \in AircraftIds /\ id \in Ids /\ id \in Own /\ rowReq[p].old \in Keys /\ rowReq[p].old # rowReq[p].new.key
        /\ ReadyOK(rowReq[p])
    BY CommittingRequest DEF ReadyOK, OpIds
  <2> QED BY <2>1, RecordsAssumption DEF UpdateOps
<1>2. \/ Rec!Fail(p)
      \/ Rec!Save(p, new, W) /\ Present(id) /\ live' = IF live = rowReq[p].old THEN rowReq[p].new.key ELSE live
  BY RecIds, Zenon DEF Rec!UpdateWithFlightRename, Rec!Exists, Present
<1>3. CASE Rec!Save(p, new, W) /\ Present(id) /\ live' = IF live = rowReq[p].old THEN rowReq[p].new.key ELSE live
  <2>1. /\ Rec!Overwrite(p)[id].key = rowReq[p].new.key /\ Rec!Overwrite(p)[id].note = rowReq[p].new.note
        /\ \A x \in Ids \ {id} : Rec!Overwrite(p)[x] = rows[x]
    BY <1>1, <1>3, OverwriteSays, Zenon
  <2>2. /\ rows' = new
        /\ raced' = raced \cup (IF rows[id] # rowReq[p].seen \/ rowReq[p].old \notin {NoRow, rows[id].key} THEN {id} ELSE {})
    BY <1>3, Zenon DEF Rec!Save, Rec!Commit
  <2>3. rows'[id].key = rowReq[p].new.key /\ rows'[id].note = rowReq[p].new.note
    BY <1>1, <2>1, <2>2, Zenon
  <2>4. \A x \in Ids \ {id} : x \notin moved => rows'[x] = rows[x]
    BY <2>1, <2>2, Zenon
  <2>5. \A x \in moved : x \in Ids /\ rows[x] \in Rec!Row
    BY DEF Ids, RowsInv, RowTypes, RowOrNone, Present
  <2>6. \A x \in moved : rows'[x].key = rowReq[p].new.key
    <3> SUFFICES ASSUME NEW x \in moved PROVE rows'[x].key = rowReq[p].new.key
      OBVIOUS
    <3>1. rows'[x] = [rows[x] EXCEPT !.key = rowReq[p].new.key, !.at = rowReq[p].at]
      BY <2>2, <2>5, Zenon
    <3>2. rows[x] \in Rec!Row
      BY <2>5
    <3> QED BY <3>1, <3>2 DEF Rec!Row
  <2>7. id \notin raced' => rows[id] = rowReq[p].seen /\ rowReq[p].old = rows[id].key
    BY <1>1, <2>2, RecordsAssumption, ZenonT(60)
  <2>8. \A f \in Signed : f \in Ids /\ f # id /\ f \notin moved
    BY <1>1, RecordsAssumption DEF Ids
  <2>9. \A x \in Ids \ Own : rows'[x] = rows[x]
    BY <1>1, <2>4
  <2>10. ASSUME id \notin raced', NEW f \in (FlightIds \cap Own) \ Signed, Present(f)' PROVE rows'[f].key # rows[id].key
    <3>1. f \in Ids /\ f # id
      BY <1>1 DEF Ids
    <3>2. CASE f \in moved
      BY <1>1, <2>6, <2>7, <2>10, <3>2
    <3>3. CASE f \notin moved
      <4>1. rows'[f] = rows[f] /\ Present(f)
        BY <2>4, <2>10, <3>1, <3>3 DEF Present
      <4> QED BY <2>7, <2>10, <3>3, <4>1
    <3> QED BY <3>2, <3>3
  <2>11. rowReq[p].field \in {"key", "note"} => PatchOK(rowReq[p])
    BY <1>1 DEF ReadyOK
  <2>12. id \notin raced' => live' # rows[id].key
    BY <1>1, <1>3, <2>7, Zenon
  <2> HIDE DEF moved, new, W
  <2>13. \A f \in Signed : rows'[f] = rows[f]
    BY <2>4, <2>8
  <2>14. rowReq[p].field \in {"key", "note"} =>
           \/ id \in raced'
           \/ /\ rowReq[p].field = "note" => rows'[id].key \in {rows[id].key, Canonical[rows[id].key]}
              /\ rowReq[p].field = "key" => rows'[id].note = rows[id].note
    BY <2>3, <2>7, <2>11 DEF PatchOK
  <2> QED BY <2>9, <2>10, <2>12, <2>13, <2>14 DEF CommitRight
<1> QED BY <1>2, <1>3, FailRight, Zenon

LEMMA EraseRight ==
  ASSUME RowsInv, ForeignLinks, NEW p \in Procs, rowReq[p].step = "ready", rowReq[p].op \in DeleteOps,
         NEW gone \in SUBSET (Ids \cap Own), Rec!Erase(p, gone)
  PROVE  CommitRight(p)
<1>0. PICK all : all = gone \cup {c \in RatingIds : LicenceOf[c] \in gone}
  OBVIOUS
<1>1. rows' = [x \in Ids |-> IF x \in all THEN NoRow
                             ELSE IF x \in FlightIds /\ Present(x) /\ rows[x].link \in gone
                                  THEN [rows[x] EXCEPT !.link = NoRow] ELSE rows[x]]
  BY <1>0, RecIds DEF Rec!Erase, Rec!Exists, Present
<1>2. all \subseteq Own
  BY <1>0, RecordsAssumption
<1>3. \A x \in Ids \ Own : rows'[x] = rows[x]
  BY <1>1, <1>2 DEF ForeignLinks
<1>4. \A x \in Ids : Present(x) /\ Present(x)' => rows'[x].key = rows[x].key /\ rows'[x].note = rows[x].note
  <2> SUFFICES ASSUME NEW x \in Ids, Present(x), Present(x)' PROVE rows'[x].key = rows[x].key /\ rows'[x].note = rows[x].note
    OBVIOUS
  <2>1. rows[x] \in Rec!Row
    BY DEF RowsInv, RowTypes, RowOrNone, Present
  <2>2. rows'[x] = [rows[x] EXCEPT !.link = NoRow] \/ rows'[x] = rows[x]
    BY <1>1 DEF Present
  <2> QED BY <2>1, <2>2 DEF Rec!Row
<1>5. Signed \subseteq Ids
  BY RecordsAssumption DEF Ids
<1>6. rowReq[p].op # "rename" /\ rowReq[p].field \notin {"key", "note"}
  BY CommittingRequest DEF ReadyOK, DeleteOps, UpdateOps
<1> QED BY <1>3, <1>4, <1>5, <1>6 DEF CommitRight

LEMMA TransactRight ==
  ASSUME RowsInv, ForeignLinks, NEW p \in Procs, Rec!Transact(p)
  PROVE  CommitRight(p) /\ \A q \in Procs \ {p} : rowReq'[q] = rowReq[q]
<1>0. rowReq[p].step = "ready"
  BY DEF Rec!Transact
<1> DEFINE op == rowReq[p].op
<1>1. \/ op = "aircraftCreate" /\ Rec!aircraftCreate(p)
      \/ op = "contactCreate" /\ Rec!contactCreate(p)
      \/ op = "credentialCreate" /\ Rec!credentialCreate(p)
      \/ op = "licenseCreate" /\ Rec!licenseCreate(p)
      \/ op = "ratingCreate" /\ Rec!classRatingCreate(p)
      \/ op = "aircraftUpdate" /\ Rec!aircraftUpdate(p)
      \/ op = "credentialUpdate" /\ Rec!credentialUpdate(p)
      \/ op = "licenseUpdate" /\ Rec!licenseUpdate(p)
      \/ op = "ratingUpdate" /\ Rec!classRatingUpdate(p)
      \/ op = "rename" /\ Rec!UpdateWithFlightRename(p)
      \/ op = "crewRename" /\ Rec!UpdateWithCrewRename(p)
      \/ op = "aircraftDelete" /\ Rec!aircraftDelete(p)
      \/ op = "contactDelete" /\ Rec!contactDelete(p)
      \/ op = "credentialDelete" /\ Rec!credentialDelete(p)
      \/ op = "licenseDelete" /\ Rec!licenseDelete(p)
      \/ op = "ratingDelete" /\ Rec!classRatingDelete(p)
      \/ op = "flightDelete" /\ Rec!flightDelete(p)
      \/ op = "wipe" /\ Rec!DeleteAllByUserID(p)
  BY Zenon DEF Rec!Transact
<1>2. CASE \/ op = "aircraftCreate" /\ Rec!aircraftCreate(p)
           \/ op = "contactCreate" /\ Rec!contactCreate(p)
           \/ op = "credentialCreate" /\ Rec!credentialCreate(p)
           \/ op = "licenseCreate" /\ Rec!licenseCreate(p)
           \/ op = "ratingCreate" /\ Rec!classRatingCreate(p)
  <2>1. op \in CreateOps /\ (Rec!Fail(p) \/ Rec!Insert(p))
    BY <1>2 DEF CreateOps, Rec!aircraftCreate, Rec!contactCreate, Rec!credentialCreate, Rec!licenseCreate, Rec!classRatingCreate
  <2>2. rowReq' = [rowReq EXCEPT ![p] = Rec!NoRequest]
    BY <2>1 DEF Rec!Fail, Rec!Insert, Rec!Commit, Rec!Done
  <2> QED BY <1>0, <2>1, <2>2, FailRight, InsertRight DEF RowsInv, RowTypes
<1>3. CASE \/ op = "aircraftDelete" /\ Rec!aircraftDelete(p)
           \/ op = "contactDelete" /\ Rec!contactDelete(p)
           \/ op = "credentialDelete" /\ Rec!credentialDelete(p)
           \/ op = "licenseDelete" /\ Rec!licenseDelete(p)
           \/ op = "ratingDelete" /\ Rec!classRatingDelete(p)
           \/ op = "flightDelete" /\ Rec!flightDelete(p)
           \/ op = "wipe" /\ Rec!DeleteAllByUserID(p)
  <2>1. PICK one, wiped : one = {rowReq[p].id} /\ wiped = {f \in FlightIds \cap Own : Rec!Exists(f)}
    OBVIOUS
  <2>2. one \in SUBSET (Ids \cap Own) /\ wiped \in SUBSET (Ids \cap Own)
    BY <1>0, <2>1, CommittingRequest DEF Ids
  <2>3. op \in DeleteOps /\ (Rec!Fail(p) \/ Rec!Erase(p, one) \/ Rec!Erase(p, wiped))
    BY <1>3, <2>1 DEF DeleteOps, Rec!aircraftDelete, Rec!contactDelete, Rec!credentialDelete, Rec!licenseDelete,
       Rec!classRatingDelete, Rec!flightDelete, Rec!DeleteAllByUserID
  <2>4. rowReq' = [rowReq EXCEPT ![p] = Rec!NoRequest]
    BY <2>3 DEF Rec!Fail, Rec!Erase, Rec!Done
  <2> QED BY <1>0, <2>2, <2>3, <2>4, FailRight, EraseRight DEF RowsInv, RowTypes
<1>4. CASE \/ op = "aircraftUpdate" /\ Rec!aircraftUpdate(p)
           \/ op = "credentialUpdate" /\ Rec!credentialUpdate(p)
           \/ op = "licenseUpdate" /\ Rec!licenseUpdate(p)
           \/ op = "ratingUpdate" /\ Rec!classRatingUpdate(p)
           \/ op = "rename" /\ Rec!UpdateWithFlightRename(p)
           \/ op = "crewRename" /\ Rec!UpdateWithCrewRename(p)
  <2>1. CommitRight(p)
    BY <1>0, <1>4, UpdatesRight, RatingUpdateRight, RenameRight, CrewRenameRight, Zenon
  <2>2. rowReq' = [rowReq EXCEPT ![p] = Rec!NoRequest]
    BY <1>4, Zenon DEF Rec!aircraftUpdate, Rec!credentialUpdate, Rec!licenseUpdate, Rec!classRatingUpdate,
       Rec!UpdateWithFlightRename, Rec!UpdateWithCrewRename, Rec!Fail, Rec!Save, Rec!Commit, Rec!Done
  <2> QED BY <2>1, <2>2 DEF RowsInv, RowTypes
<1> QED BY <1>1, <1>2, <1>3, <1>4, Zenon

LEMMA TablesUntouched ==
  ASSUME RowsInv, Rec!Next, \A p \in Procs : ~Rec!Transact(p)
  PROVE  rows' = rows
<1>1. ASSUME NEW p \in Procs, NEW r, Rec!Fail(p) \/ Rec!Advance(p, r) \/ Rec!Begin(p, r) PROVE rows' = rows
  BY <1>1 DEF Rec!Fail, Rec!Advance, Rec!Begin
<1>2. ASSUME NEW p \in Procs, Rec!APICreateAircraft(p) \/ Rec!APIUpdateAircraft(p) \/ Rec!APIDeleteAircraft(p) PROVE rows' = rows
  BY <1>1, <1>2, Zenon DEF Rec!APICreateAircraft, Rec!CreateAircraft, Rec!APIUpdateAircraft, Rec!Load, Rec!UpdateAircraft,
     Rec!APIDeleteAircraft, Rec!DeleteAircraft
<1>3. ASSUME NEW p \in Procs, Rec!APICreateContact(p) \/ Rec!APIUpdateContact(p) \/ Rec!APIDeleteContact(p) PROVE rows' = rows
  BY <1>1, <1>3, Zenon DEF Rec!APICreateContact, Rec!CreateContact, Rec!APIUpdateContact, Rec!UpdateContact,
     Rec!APIDeleteContact, Rec!DeleteContact
<1>4. ASSUME NEW p \in Procs, Rec!APICreateCredential(p) \/ Rec!APIUpdateCredential(p) \/ Rec!APIDeleteCredential(p) PROVE rows' = rows
  BY <1>1, <1>4, Zenon DEF Rec!APICreateCredential, Rec!CreateCredential, Rec!APIUpdateCredential, Rec!Load, Rec!UpdateCredential,
     Rec!APIDeleteCredential, Rec!DeleteCredential
<1>5. ASSUME NEW p \in Procs, Rec!APICreateLicense(p) \/ Rec!APIUpdateLicense(p) \/ Rec!APIDeleteLicense(p) PROVE rows' = rows
  BY <1>1, <1>5, Zenon DEF Rec!APICreateLicense, Rec!CreateLicense, Rec!APIUpdateLicense, Rec!Load, Rec!UpdateLicense,
     Rec!APIDeleteLicense, Rec!DeleteLicense
<1>6. ASSUME NEW p \in Procs, Rec!APICreateClassRating(p) \/ Rec!APIUpdateClassRating(p) \/ Rec!APIDeleteClassRating(p) PROVE rows' = rows
  BY <1>1, <1>6, Zenon DEF Rec!APICreateClassRating, Rec!CreateClassRating, Rec!APIUpdateClassRating, Rec!Load,
     Rec!UpdateClassRating, Rec!APIDeleteClassRating, Rec!DeleteClassRating
<1>7. ASSUME NEW p \in Procs, Rec!APIDeleteFlight(p) \/ Rec!APIDeleteAllFlights(p) PROVE rows' = rows
  BY <1>1, <1>7, Zenon DEF Rec!APIDeleteFlight, Rec!APIDeleteAllFlights
<1>8. ASSUME NEW C \in Rec!Collections, Rec!PullUpserts(C) PROVE rows' = rows
  BY <1>8, Zenon DEF Rec!PullUpserts
<1>9. Rec!PullDeletions \/ Rec!Reconcile \/ Rec!DeleteExpired \/ Rec!Tick => rows' = rows
  BY Zenon DEF Rec!PullDeletions, Rec!Reconcile, Rec!DeleteExpired, Rec!Tick
<1> QED BY <1>2, <1>3, <1>4, <1>5, <1>6, <1>7, <1>8, <1>9, Zenon DEF Rec!Next

RowWritesRight == Rec!SignedAndForeignKeptStep /\ Rec!RenameCompleteStep /\ Rec!PatchIsLocalStep

LEMMA RowWritesKeep ==
  ASSUME RowsInv, ForeignLinks, Rec!Next
  PROVE  RowWritesRight /\ ForeignLinks'
<1>1. CASE \A p \in Procs : ~Rec!Transact(p)
  <2>1. rows' = rows
    BY <1>1, TablesUntouched
  <2>2. Rec!Ids' = Rec!Ids
    BY DEF Rec!Ids
  <2> QED BY <2>1 DEF RowWritesRight, Rec!SignedAndForeignKeptStep, Rec!RenameCompleteStep, Rec!PatchIsLocalStep,
          Rec!Exists, ForeignLinks, Present
<1>2. CASE \E p \in Procs : Rec!Transact(p)
  <2>1. PICK p \in Procs : Rec!Transact(p)
    BY <1>2
  <2>2. CommitRight(p) /\ \A q \in Procs \ {p} : rowReq'[q] = rowReq[q]
    BY <2>1, TransactRight
  <2>3. Rec!SignedAndForeignKeptStep
    BY <2>2, RecIds DEF CommitRight, Rec!SignedAndForeignKeptStep, Rec!Exists, Present
  <2>4. \A q \in Procs : rowReq[q].step = "ready" /\ Rec!Idle(q)' => q = p
    <3>1. \A q \in Procs : Rec!Idle(q)' => rowReq'[q].step = "idle"
      BY DEF Rec!Idle, Rec!NoRequest
    <3> QED BY <2>2, <3>1
  <2>5. Rec!RenameCompleteStep
    BY <2>2, <2>4 DEF CommitRight, Rec!RenameCompleteStep, Rec!Exists, Present
  <2>6. Rec!PatchIsLocalStep
    BY <2>2, <2>4 DEF CommitRight, Rec!PatchIsLocalStep, Rec!Fields
  <2>7. ForeignLinks'
    BY <2>2 DEF CommitRight, ForeignLinks, Present
  <2> QED BY <2>3, <2>5, <2>6, <2>7 DEF RowWritesRight
<1> QED BY <1>1, <1>2
-----------------------------------------------------------------------------
(* The theorems about the rows and the collections. *)

\* The simple rows and the collections keep what they promise (CollectionsRight): a client that
\* follows the deletion feed reaches the server's rows and no two names are the same; the quotas,
\* withdrawn shares, adopted rules and the order of the reports hold, for every number of requests,
\* rows, users, pages and limits.
THEOREM CollectionsAreRight == LogbookSpec => []CollectionsRight
<1>1. (part = "rows" => RowsInv) /\ (part = "collections" => CollectionsKept) => CollectionsRight
  BY RowsInvSays DEF CollectionsRight, CollectionsKept
<1> QED BY <1>1, RowsSafe, CollectionsSafe, PTL

LEMMA LinksSafe == LogbookSpec => [](part = "rows" => RowsInv /\ ForeignLinks)
<1> DEFINE M == part = "rows" => RowsInv
           L == part = "rows" => RowsInv /\ ForeignLinks
<1>1. LogbookInit => L
  <2>1. ASSUME Rec!Init PROVE RowsInv /\ ForeignLinks
    <3>1. PICK s \in Start : rows = s.rows
      BY <2>1 DEF Rec!Init
    <3>2. StartOK(s)
      BY RecordsAssumption
    <3>3. ForeignLinks
      BY <3>1, <3>2 DEF StartOK, ForeignLinks, Present
    <3> QED BY <2>1, <3>3, RowsInitially
  <2> QED BY <2>1, Zenon DEF LogbookInit
<1>2. L /\ M' /\ [LogbookNext]_allVars => L'
  <2>1. ASSUME L, M', UNCHANGED <<part, rowVars>> PROVE L'
    <3>1. rows' = rows
      BY <2>1 DEF rowVars
    <3>2. ForeignLinks => ForeignLinks'
      BY <3>1 DEF ForeignLinks, Present
    <3> QED BY <2>1, <3>2
  <2>2. ASSUME L, M', part = "rows", Rec!Next, part' = part PROVE L'
    BY <2>2, RowWritesKeep
  <2>3. UNCHANGED allVars => UNCHANGED <<part, rowVars>>
    BY Zenon DEF allVars
  <2> HIDE DEF L, M
  <2> QED BY <2>1, <2>2, <2>3, Zenon DEF LogbookNext
<1>3. LogbookSpec => []M
  BY RowsSafe
<1> QED BY <1>1, <1>2, <1>3, PTL DEF LogbookSpec

=============================================================================
