----------------------------- MODULE FlightLog -----------------------------
(***************************************************************************)
(* Flights and the strict logbook: flights are written by requests that    *)
(* read a copy, classify the edit (draft or correction) from the mode, the *)
(* licences, the certifications and the signatures, and write in a         *)
(* transaction; triggers keep the replaced state as a revision while       *)
(* strict mode is on.  Other requests run between the read, the            *)
(* classification and the transaction.                                     *)
(***************************************************************************)
EXTENDS Integers, Sequences, FiniteSets, FiniteSetsExt

CONSTANTS Procs,        \* requests served at the same time
          FlightIds,
          Starts,       \* initial flights, licences and mode
          NewRows,      \* the flights a create request may carry
          Patches,      \* the bodies an update request may carry: functions of some columns
          Times,        \* block times; 0 without an on-block time
          Calculated,   \* ApplyAutoCalculations: the night time of each block time
          Crews,        \* crew lists, as one value
          Renamed,      \* a crew list after the renaming of a contact
          LastDay,      \* bound on the clock
          MaxRequests,  \* bound on the requests of a behaviour
          NoFlight, NoReason, Reason

Days == 1 .. LastDay
Nights == {Calculated[t] : t \in Times} \cup Times

Row == [date : Days, time : Times, night : Nights, over : BOOLEAN, crew : Crews, sig : BOOLEAN]

\* What revisions keep and compare of a flight: signature_id is left out.
Recorded(row) == IF row = NoFlight THEN NoFlight
                 ELSE [c \in (DOMAIN row) \ {"sig"} |-> row[c]]
States == {Recorded(r) : r \in Row}

\* A patched row is a row, and NoFlight is neither a row nor what is recorded of one.
ASSUME FlightLogAssumption ==
  /\ LastDay \in Nat /\ MaxRequests \in Nat /\ NoReason # Reason
  /\ Calculated \in [Times -> Nat] /\ Renamed \in [Crews -> Crews]
  /\ NoFlight \notin Row /\ NoFlight \notin States
  /\ \A s \in Starts : s.flight \in [FlightIds -> Row \cup {NoFlight}] /\ s.strict \in BOOLEAN /\ s.today \in Days
  /\ NewRows \subseteq Row
  /\ \A patch \in Patches, row \in Row :
       [c \in DOMAIN row |-> IF c \in DOMAIN patch THEN patch[c] ELSE row[c]] \in Row

VARIABLES flight,      \* flights and their crew: id -> row or NoFlight
          revs,        \* flight_revisions, oldest first
          strict,      \* users.strict_logbook
          switches,    \* logbook_mode_events
          licences,    \* the pilot's licences
          certified,   \* logbook_certifications: certified_through
          signed,      \* flights that have a completed or voided signature
          today,
          req,         \* the requests being served
          served       \* how many requests have begun

vars == <<flight, revs, strict, switches, licences, certified, signed, today, req, served>>

Exists(f) == flight[f] # NoFlight
Idle == [step |-> "idle"]
Finish(p) == req' = [req EXCEPT ![p] = Idle] /\ served' = served
Reply(p) == Finish(p) /\ UNCHANGED <<flight, revs, strict, switches, licences, certified, signed, today>>
Proceed(p, r) == /\ req' = [req EXCEPT ![p] = r]
                 /\ UNCHANGED <<flight, revs, strict, switches, licences, certified, signed, today, served>>
Serve(p, r) == /\ req[p] = Idle /\ served < MaxRequests /\ served' = served + 1
               /\ req' = [req EXCEPT ![p] = r]
               /\ UNCHANGED <<flight, revs, strict, switches, licences, certified, signed, today>>

-----------------------------------------------------------------------------
\* logbookrules: the draft window of a flight.

\* The terms of a licence's type that name it an ultralight, in any country or in one.
isDEUL(l) == l.authority \in {"DULV", "DAEC"} \/ l.terms \cap {"UL", "DE"} # {}
isATNational(l) == l.terms \cap {"UL", "AT"} # {}

Rule(requirement, window, downward) == [requirement |-> requirement, window |-> window, downward |-> downward]
RequiredRule == Rule("required", "flight_day", FALSE)
SuggestedRule == Rule("suggested", "none", FALSE)
NoRule == Rule("none", "none", FALSE)

\* What the issuing country demands of a logbook; without one there is no rule.
RuleFor(l) ==
  CASE l.country = "" -> NoRule
    [] l.country = "CH" -> Rule("required", "hours_48", TRUE)
    [] l.country = "DE" -> IF isDEUL(l) THEN SuggestedRule ELSE RequiredRule
    [] l.country = "AT" -> IF isATNational(l) THEN RequiredRule ELSE SuggestedRule
    [] l.country \in {"AU", "NZ", "JP", "UY"} -> RequiredRule
    [] l.country \in {"DK", "BR", "GB", "US"} -> SuggestedRule
    [] OTHER -> IF l.authority = "EASA" THEN SuggestedRule ELSE NoRule

Assess(ls) ==
  LET rules == {RuleFor(l) : l \in ls}
  IN [required |-> {r \in rules : r.requirement = "required"},
      downward |-> \E r \in rules : r.requirement = "required" /\ r.downward]
FlightDayEnd(date) == date
\* The 48 hours run from the on-block instant; without one the flight day counts.
WindowDeadline(w, row) == IF w = "hours_48" /\ row.time # 0 THEN row.date + 2 ELSE FlightDayEnd(row.date)
Deadline(a, row) == IF a.required = {} THEN FlightDayEnd(row.date)
                    ELSE Min({WindowDeadline(l.window, row) : l \in a.required})

-----------------------------------------------------------------------------
\* service/logbook.go: is an edit a correction?

LatestCertifiedThrough == IF certified = {} THEN 0 ELSE Max(certified)
LoadState == [strict |-> strict, rules |-> Assess(licences), latest |-> LatestCertifiedThrough]

hasOverride(row) == row.over
overrideChanged(old, new) == new.over /\ (~old.over \/ old.night # new.night)
\* A new override of a flight without a previous state always counts as changed.
NoOverride == [over |-> FALSE, night |-> 0]

\* Mutant: only the date the flight has now is compared with the certification.
outsideWindowOld(state, old, new) ==
  \/ today > Deadline(state.rules, old)
  \/ old.date <= state.latest
  \/ new # NoFlight /\ overrideChanged(old, new) /\ today > FlightDayEnd(old.date)
\* The draft window is over, or the flight is or becomes dated in the certified period, or an
\* override changes after the flight day.
outsideWindow(state, old, new) ==
  \/ today > Deadline(state.rules, old)
  \/ (IF new # NoFlight /\ new.date < old.date THEN new.date ELSE old.date) <= state.latest
  \/ new # NoFlight /\ overrideChanged(old, new) /\ today > FlightDayEnd(old.date)

ClassifyEditWith(state, f, old, new) ==
  state.strict /\ (outsideWindow(state, old, new) \/ f \in signed)

DeleteCorrections == {f \in FlightIds : Exists(f) /\ (f \in signed \/ outsideWindow(LoadState, flight[f], NoFlight))}

\* Where a licence allows only downward overrides, a changed override stays below what is calculated.
CheckDownwardOverridesWith(state, old, new) ==
  state.strict /\ state.rules.downward /\ hasOverride(new) /\ overrideChanged(old, new)
    => new.night <= Calculated[new.time]

-----------------------------------------------------------------------------
\* The database: row triggers capture the state a transaction replaces, and a deferred trigger
\* keeps it at commit when the flight has really changed.

Changed(old, new) == Recorded(old) # Recorded(new)
\* The edit touches the certified period or a flight whose draft window is over.
Covered(old, new) ==
  \/ \E row \in {old, new} \ {NoFlight} : row.date <= LatestCertifiedThrough
  \/ today > Deadline(Assess(licences), old)
\* Ghosts of a revision: whether the edit was a correction when it was committed, and whether
\* what classified it had changed by then.
Revision(f, new, cc) ==
  [kind |-> IF new = NoFlight THEN "delete" ELSE "update", snap |-> Recorded(flight[f]),
   source |-> cc.source, reason |-> cc.reason, correction |-> f \in cc.corrections,
   due |-> cc.source = "user_edit" /\ (Covered(flight[f], new) \/ f \in signed),
   stale |-> cc.seen # <<flight[f], LoadState, f \in signed, today>>]

\* Mutant: the revision is written only for edits.
finalizeEdits(F, new, cc) ==
  revs' = [f \in FlightIds |-> IF strict /\ f \in F /\ new[f] # NoFlight /\ Changed(flight[f], new[f])
                               THEN Append(revs[f], Revision(f, new[f], cc)) ELSE revs[f]]
flight_revision_finalize(F, new, cc) ==
  revs' = [f \in FlightIds |-> IF strict /\ f \in F /\ Changed(flight[f], new[f])
                               THEN Append(revs[f], Revision(f, new[f], cc)) ELSE revs[f]]

\* A transaction that writes the flights in F.
Commit(F, new, cc) ==
  /\ flight' = [f \in FlightIds |-> IF f \in F THEN new[f] ELSE flight[f]]
  /\ flight_revision_finalize(F, new, cc)

CreateWithCrew(f, row) == /\ ~Exists(f) /\ revs[f] = <<>>
                          /\ flight' = [flight EXCEPT ![f] = row] /\ revs' = revs

\* updateFlightRow leaves signature_id alone; the crew is replaced when the request has one.
updated(p) == [flight[req[p].f] EXCEPT !.date = req[p].new.date, !.time = req[p].new.time,
                 !.night = req[p].new.night, !.over = req[p].new.over,
                 !.crew = IF req[p].withCrew THEN req[p].new.crew ELSE @]
update(p) ==
  LET f == req[p].f IN
    IF \/ ~Exists(f)
       \/ req[p].cc.reject /\ Changed(flight[f], updated(p))     \* ErrChangeRejected
    THEN flight' = flight /\ revs' = revs
    ELSE Commit({f}, [x \in {f} |-> updated(p)], req[p].cc)

Delete(p) == IF Exists(req[p].f) THEN Commit({req[p].f}, [x \in {req[p].f} |-> NoFlight], req[p].cc)
             ELSE flight' = flight /\ revs' = revs

\* deleteClassifiedCorrections, then the other flights, in one transaction.
DeleteAllByUserID ==
  LET F == {f \in FlightIds : Exists(f)}
      \* Each flight is classified inside the transaction that deletes it.
      cc(f) == [source |-> "user_edit", reason |-> NoReason,
                corrections |-> IF strict THEN DeleteCorrections ELSE {},
                seen |-> <<flight[f], LoadState, f \in signed, today>>]
  IN /\ flight' = [f \in FlightIds |-> NoFlight]
     /\ revs' = [f \in FlightIds |-> IF strict /\ f \in F THEN Append(revs[f], Revision(f, NoFlight, cc(f))) ELSE revs[f]]

-----------------------------------------------------------------------------
\* service/flight.go

Change(source, reason, corrections, reject, f) ==
  [source |-> source, reason |-> reason, corrections |-> corrections, reject |-> reject,
   seen |-> <<flight[f], LoadState, f \in signed, today>>]

\* The second read of the flight, the lock, the override rule and the classification; then the
\* transaction of the request.
UpdateFlightWith(p, f, new, withCrew, source, reason, next) ==
  LET cls == source = "user_edit" /\ ClassifyEditWith(LoadState, f, flight[f], new) IN
    IF \/ ~Exists(f) \/ flight[f].sig
       \/ source = "user_edit" /\ ~CheckDownwardOverridesWith(LoadState, flight[f], new)
    THEN IF next = {} THEN Reply(p) ELSE Proceed(p, [step |-> "recalc", copies |-> next])
    ELSE Proceed(p, [step |-> "update", f |-> f, new |-> new, withCrew |-> withCrew, next |-> next,
                     cc |-> Change(source, IF source = "user_edit" /\ strict THEN reason ELSE NoReason,
                                   IF cls THEN {f} ELSE {}, cls /\ reason = NoReason, f)])

DeleteFlightWithReason(p, f, reason) ==
  IF ~Exists(f) \/ flight[f].sig THEN Reply(p)
  ELSE Proceed(p, [step |-> "delete", f |-> f,
                   cc |-> Change("user_edit", reason,
                                 IF ClassifyEditWith(LoadState, f, flight[f], NoFlight) THEN {f} ELSE {}, FALSE, f)])

CreateFlightChecked(p, row) ==
  IF CheckDownwardOverridesWith(LoadState, NoOverride, row) THEN Proceed(p, [step |-> "create", row |-> row])
  ELSE Reply(p)

-----------------------------------------------------------------------------
\* The handlers.

ApplyAutoCalculations(row) == IF row.over THEN row ELSE [row EXCEPT !.night = Calculated[row.time]]
applyPatch(row, patch) ==
  ApplyAutoCalculations([c \in DOMAIN row |-> IF c \in DOMAIN patch THEN patch[c] ELSE row[c]])

\* CreateFlight: an override is kept as it is sent, everything else is calculated.
CreateFlight(p) == \E row \in NewRows : Serve(p, [step |-> "check", row |-> ApplyAutoCalculations(row)])
CheckCreate(p) == req[p].step = "check" /\ CreateFlightChecked(p, req[p].row)
WriteCreate(p) == /\ req[p].step = "create"
                  /\ \E f \in FlightIds : CreateWithCrew(f, req[p].row)
                  /\ Finish(p) /\ UNCHANGED <<strict, switches, licences, certified, signed, today>>

\* UpdateFlight: the handler patches the copy it read, the service reads the flight again.
UpdateFlight(p) == \E f \in FlightIds, patch \in Patches, r \in {NoReason, Reason} :
  /\ Exists(f)
  /\ Serve(p, [step |-> "patched", f |-> f, new |-> applyPatch(flight[f], patch),
               withCrew |-> "crew" \in DOMAIN patch, reason |-> r])
CheckUpdate(p) == /\ req[p].step = "patched"
                  /\ UpdateFlightWith(p, req[p].f, req[p].new, req[p].withCrew, "user_edit", req[p].reason, {})
WriteUpdate(p) == /\ req[p].step = "update" /\ update(p)
                  /\ req' = [req EXCEPT ![p] = IF req[p].next = {} THEN Idle
                                               ELSE [step |-> "recalc", copies |-> req[p].next]]
                  /\ UNCHANGED <<strict, switches, licences, certified, signed, today, served>>

DeleteFlight(p) == \E f \in FlightIds, r \in {NoReason, Reason} :
  Exists(f) /\ Serve(p, [step |-> "deleting", f |-> f, reason |-> r])
CheckDelete(p) == req[p].step = "deleting" /\ DeleteFlightWithReason(p, req[p].f, req[p].reason)
WriteDelete(p) == /\ req[p].step = "delete" /\ Delete(p)
                  /\ Finish(p) /\ UNCHANGED <<strict, switches, licences, certified, signed, today>>

DeleteAllFlights(p) == /\ req[p] = Idle /\ served < MaxRequests /\ served' = served + 1 /\ req' = req
                       /\ DeleteAllByUserID
                       /\ UNCHANGED <<strict, switches, licences, certified, signed, today>>

\* RecalculateFlights works on the list it read at the start.  The registrations it makes
\* canonical before that, aircraft by aircraft, are UpdateAircraft in Records.
RecalculateFlights(p) ==
  \E F \in {{f \in FlightIds : Exists(f)}} :
    F # {} /\ Serve(p, [step |-> "recalc", copies |-> {<<f, ApplyAutoCalculations(flight[f])>> : f \in F}])
RecalculateOne(p) ==
  /\ req[p].step = "recalc"
  /\ \E c \in req[p].copies :
       UpdateFlightWith(p, c[1], c[2], FALSE, "recalc", NoReason, req[p].copies \ {c})

\* UpdateWithCrewRename: the crew of every unsigned flight, in one transaction.
RenameContact(p) ==
  LET F == {f \in FlightIds : Exists(f) /\ ~flight[f].sig}
      cc == [source |-> "contact_rename", reason |-> NoReason, corrections |-> {}, seen |-> NoFlight]
  IN /\ req[p] = Idle /\ served < MaxRequests /\ served' = served + 1 /\ req' = req
     /\ Commit(F, [f \in F |-> [flight[f] EXCEPT !.crew = Renamed[@]]], cc)
     /\ UNCHANGED <<strict, switches, licences, certified, signed, today>>

\* SetSignatureLock, as flight signatures use it: a completed signature locks the flight, a
\* voided one unlocks it and stays on record.
SetSignatureLock(f) ==
  /\ Exists(f)
  /\ flight' = [flight EXCEPT ![f].sig = ~@] /\ signed' = signed \cup {f}
  /\ UNCHANGED <<revs, strict, switches, licences, certified, today, req, served>>

-----------------------------------------------------------------------------
\* Mode and certifications.

setStrict(on) == IF strict = on THEN strict' = strict /\ switches' = switches
                 ELSE strict' = on /\ switches' = Append(switches, on)
UpdateLogbookMode(p) == \E on \in BOOLEAN :
  /\ req[p] = Idle /\ served < MaxRequests /\ served' = served + 1 /\ req' = req
  /\ setStrict(on)
  /\ UNCHANGED <<flight, revs, licences, certified, signed, today>>
\* SyncFromLicences, after a licence was saved: the mode and the licences are read first.
SyncFromLicences(p) == ~strict /\ Assess(licences).required # {} /\ Serve(p, [step |-> "sync"])
SwitchOn(p) == /\ req[p].step = "sync" /\ setStrict(TRUE)
               /\ Finish(p) /\ UNCHANGED <<flight, revs, licences, certified, signed, today>>

\* CreateCertification reads the mode and the latest certification, then inserts.
CreateCertification(p) == \E d \in 1 .. today :
  strict /\ d >= LatestCertifiedThrough /\ Serve(p, [step |-> "certify", day |-> d])
WriteCertification(p) == /\ req[p].step = "certify" /\ certified' = certified \cup {req[p].day}
                         /\ Finish(p) /\ UNCHANGED <<flight, revs, strict, switches, licences, signed, today>>

Tick == today < LastDay /\ today' = today + 1
        /\ UNCHANGED <<flight, revs, strict, switches, licences, certified, signed, req, served>>

Init == /\ \E s \in Starts : flight = s.flight /\ licences = s.licences /\ strict = s.strict /\ today = s.today
        /\ revs = [f \in FlightIds |-> <<>>] /\ switches = <<>> /\ certified = {} /\ signed = {}
        /\ req = [p \in Procs |-> Idle] /\ served = 0

Next == \/ \E p \in Procs :
             \/ CreateFlight(p) \/ CheckCreate(p) \/ WriteCreate(p)
             \/ UpdateFlight(p) \/ CheckUpdate(p) \/ WriteUpdate(p)
             \/ DeleteFlight(p) \/ CheckDelete(p) \/ WriteDelete(p) \/ DeleteAllFlights(p)
             \/ RecalculateFlights(p) \/ RecalculateOne(p) \/ RenameContact(p)
             \/ UpdateLogbookMode(p) \/ SyncFromLicences(p) \/ SwitchOn(p)
             \/ CreateCertification(p) \/ WriteCertification(p)
        \/ \E f \in FlightIds : SetSignatureLock(f)
        \/ Tick

Spec == Init /\ [][Next]_vars

-----------------------------------------------------------------------------
\* What is read of the history.

\* revisionViews: what an update revision changed, from the state that came after it.
Changes(f, i) ==
  LET after == IF i < Len(revs[f]) THEN revs[f][i + 1].snap ELSE Recorded(flight[f])
  IN IF revs[f][i].kind = "delete" \/ after = NoFlight THEN {}
     ELSE {c \in DOMAIN after : after[c] # revs[f][i].snap[c]}
ListRevisions(f) == [i \in 1 .. Len(revs[f]) |-> [rev |-> revs[f][Len(revs[f]) + 1 - i], changes |-> Changes(f, Len(revs[f]) + 1 - i)]]
ListVoided == {f \in FlightIds : \E i \in 1 .. Len(revs[f]) : revs[f][i].kind = "delete"}

-----------------------------------------------------------------------------
\* Every row, revision and request is well-formed, and only a flight that is gone ends its
\* revisions with a void record (flight_revision_finalize, CreateWithCrew).
TypeOK ==
  /\ flight \in [FlightIds -> Row \cup {NoFlight}]
  /\ \A f \in FlightIds : \A i \in 1 .. Len(revs[f]) :
       revs[f][i].snap \in States /\ (revs[f][i].kind = "delete" => i = Len(revs[f]) /\ flight[f] = NoFlight)
  /\ strict \in BOOLEAN /\ switches \in Seq(BOOLEAN) /\ certified \subseteq Days
  /\ signed \subseteq FlightIds /\ today \in Days /\ served \in 0 .. MaxRequests

\* The logbook keeps what it promises: the flights, the revisions and the mode implement
\* FlightHistory (triggers of migration 000079 under every writer of flights).
History == INSTANCE FlightHistory WITH Flights <- FlightIds,
             shown <- [f \in FlightIds |-> Recorded(flight[f])],
             past <- [f \in FlightIds |-> [i \in 1 .. Len(revs[f]) |-> revs[f][i].snap]]
HistoryKept == History!HistorySpec

\* An edit that was a correction when it was committed has a reason, and the deletion of a
\* certified, late or once signed flight is flagged, unless what classified it changed in between
\* (UpdateFlightWith, DeleteFlightWithReason, DeleteAllByUserID).
CorrectionsExplained ==
  \A f \in FlightIds : \A i \in 1 .. Len(revs[f]) :
    LET r == revs[f][i] IN
      r.due /\ ~r.stale => r.correction /\ (r.kind = "update" => r.reason # NoReason)

\* While strict mode is never switched off, every update revision shows what it changed
\* (flight_revision_changed against DiffFlightStates).
NoEmptyRevision ==
  (\A i \in 1 .. Len(switches) : switches[i]) =>
    \A f \in FlightIds : \A i \in 1 .. Len(revs[f]) : revs[f][i].kind = "update" => Changes(f, i) # {}

\* A signed flight changes only by the deletion of all flights or by a request that read it
\* unsigned: no other writer touches it (UpdateFlightWith, UpdateWithCrewRename).
SignedKeptStep ==
  \A f \in FlightIds :
    (Exists(f) /\ flight[f].sig /\ Changed(flight[f], flight'[f])) =>
       \/ \A g \in FlightIds : flight'[g] = NoFlight
       \/ \E p \in Procs : /\ req[p].step \in {"update", "delete"} /\ req[p].f = f
                           /\ ~req[p].cc.seen[1].sig
SignedKept == [][SignedKeptStep]_vars

\* Under a licence with downward overrides only, no edit in strict mode raises an override over
\* what is calculated, unless the mode or the flight changed after the check
\* (CheckDownwardOverridesWith).
OverridesDownwardStep ==
  \A f \in FlightIds :
    (/\ strict /\ Assess(licences).downward /\ flight'[f] # NoFlight /\ flight'[f] # flight[f]
     /\ overrideChanged(IF Exists(f) THEN flight[f] ELSE NoOverride, flight'[f])) =>
       \/ flight'[f].night <= Calculated[flight'[f].time]
       \/ \E p \in Procs : req[p].step \in {"create", "update"} /\ req'[p] # req[p]
                           /\ (req[p].step = "update" => req[p].cc.source # "user_edit" \/ req[p].cc.seen # <<flight[f], LoadState, f \in signed, today>>)
                           /\ (req[p].step = "create" => ~\A i \in 1 .. Len(switches) : ~switches[i])
OverridesDownward == [][OverridesDownwardStep]_vars
=============================================================================
