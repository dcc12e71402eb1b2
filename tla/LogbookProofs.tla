----------------------------- MODULE LogbookProofs -----------------------------
(***************************************************************************)
(* The logbook, proved for every value of the constants: flights with      *)
(* their revisions, and backups that are read and restored while other     *)
(* requests run.  Each has an inductive invariant of its own; the theorems *)
(* about LogbookSpec, which also need the rows of RecordsProofs, come last.*)
(***************************************************************************)
EXTENDS RecordsProofs

Revisions == [kind : {"update", "delete"}, snap : States,
              source : {"user_edit", "recalc", "contact_rename"}, reason : {NoReason, Reason},
              correction : BOOLEAN, due : BOOLEAN, stale : BOOLEAN]

\* What a request carries from one of its statements to the next.
ChangeOK(cc) == cc.source \in {"user_edit", "recalc"} /\ cc.reason \in {NoReason, Reason}
Copies == SUBSET (FlightIds \X Row)
ReqOK(r) ==
  /\ r.step \in {"check", "create"} => r.row \in Row
  /\ r.step = "patched" => r.f \in FlightIds /\ r.new \in Row /\ r.reason \in {NoReason, Reason}
  /\ r.step = "update" => r.f \in FlightIds /\ r.new \in Row /\ ChangeOK(r.cc) /\ r.next \in Copies
  /\ r.step = "deleting" => r.f \in FlightIds /\ r.reason \in {NoReason, Reason}
  /\ r.step = "delete" => r.f \in FlightIds /\ ChangeOK(r.cc)
  /\ r.step = "recalc" => r.copies \in Copies

FlightsOK == flight \in [FlightIds -> Row \cup {NoFlight}]
RevsOK == revs \in [FlightIds -> Seq(Revisions)]

\* The inductive invariant: the tables are well typed and so is every copy a request
\* holds, however old it is.
IInv == /\ FlightsOK /\ RevsOK /\ strict \in BOOLEAN
        /\ DOMAIN req = Procs /\ \A p \in Procs : ReqOK(req[p])

\* The snapshots of a list of revisions: what FlightHistory keeps.
Snaps(s) == [i \in 1 .. Len(s) |-> s[i].snap]

-----------------------------------------------------------------------------
(* Rows and what is recorded of them. *)

\* A row is recorded as a state, and nothing recorded of a row is NoFlight.
LEMMA RecordedRow ==
  ASSUME NEW row \in Row
  PROVE  Recorded(row) \in States /\ Recorded(row) # NoFlight
<1>1. Recorded(row) \in States
  BY DEF States
<1> QED BY <1>1, FlightLogAssumption

LEMMA RecordedNoFlight == Recorded(NoFlight) = NoFlight
BY DEF Recorded

\* The signature lock is not part of what is recorded.
LEMMA LockNotRecorded ==
  ASSUME NEW row \in Row
  PROVE  /\ [row EXCEPT !.sig = ~@] \in Row
         /\ Recorded([row EXCEPT !.sig = ~@]) = Recorded(row)
<1> DEFINE new == [row EXCEPT !.sig = ~@]
<1>1. new \in Row
  BY DEF Row
<1>2. row # NoFlight /\ new # NoFlight
  BY <1>1, FlightLogAssumption
<1>3. (DOMAIN new) = (DOMAIN row)
  OBVIOUS
<1>4. \A c \in (DOMAIN row) \ {"sig"} : new[c] = row[c]
  OBVIOUS
<1>5. [c \in (DOMAIN new) \ {"sig"} |-> new[c]] = [c \in (DOMAIN row) \ {"sig"} |-> row[c]]
  BY <1>3, <1>4
<1> QED BY <1>1, <1>2, <1>5 DEF Recorded

\* The calculations and a patch make a row of a row (ApplyAutoCalculations, applyPatch).
LEMMA CalculatedRow ==
  ASSUME NEW row \in Row
  PROVE  ApplyAutoCalculations(row) \in Row
<1>1. Calculated[row.time] \in Nights
  BY DEF Row, Nights
<1> QED BY <1>1 DEF ApplyAutoCalculations, Row

LEMMA PatchedRow ==
  ASSUME NEW row \in Row, NEW patch \in Patches
  PROVE  applyPatch(row, patch) \in Row
BY CalculatedRow, FlightLogAssumption DEF applyPatch

\* Snapshots are states.
LEMMA SnapsTyped ==
  ASSUME NEW s \in Seq(Revisions)
  PROVE  Snaps(s) \in Seq(States) /\ Len(Snaps(s)) = Len(s)
<1>1. Len(s) \in Nat /\ \A i \in 1 .. Len(s) : s[i] \in Revisions
  OBVIOUS
<1>2. \A i \in 1 .. Len(s) : s[i].snap \in States
  BY <1>1 DEF Revisions
<1>3. Snaps(s) \in [1 .. Len(s) -> States]
  BY <1>2 DEF Snaps
<1> QED BY <1>1, <1>3

\* The snapshots of a longer list are the longer list of snapshots.
LEMMA SnapsAppend ==
  ASSUME NEW s \in Seq(Revisions), NEW r \in Revisions
  PROVE  Snaps(Append(s, r)) = Append(Snaps(s), r.snap)
<1>1. Snaps(s) \in Seq(States)
  BY SnapsTyped
<1>2. Len(Snaps(s)) = Len(s)
  BY SnapsTyped
<1>3. r.snap \in States
  BY DEF Revisions
<1> DEFINE longer == Append(s, r)
<1>4. longer \in Seq(Revisions) /\ Len(longer) = Len(s) + 1 /\ Len(s) \in Nat
  OBVIOUS
<1>5. \A i \in 1 .. Len(s) + 1 : longer[i] = IF i = Len(s) + 1 THEN r ELSE s[i]
  OBVIOUS
<1>6. /\ Append(Snaps(s), r.snap) \in Seq(States)
      /\ Len(Append(Snaps(s), r.snap)) = Len(s) + 1
      /\ \A i \in 1 .. Len(s) + 1 :
           Append(Snaps(s), r.snap)[i] = IF i = Len(s) + 1 THEN r.snap ELSE Snaps(s)[i]
  BY <1>1, <1>2, <1>3, <1>4
<1> HIDE DEF longer
<1>7. \A i \in 1 .. Len(s) + 1 : Snaps(longer)[i] = longer[i].snap
  BY <1>4 DEF Snaps
<1>8. \A i \in 1 .. Len(s) : Snaps(s)[i] = s[i].snap
  BY DEF Snaps
<1>9. \A i \in 1 .. Len(s) + 1 : Snaps(longer)[i] = Append(Snaps(s), r.snap)[i]
  BY <1>4, <1>5, <1>6, <1>7, <1>8
<1>10. Snaps(longer) \in Seq(States) /\ Len(Snaps(longer)) = Len(s) + 1
  BY <1>4, SnapsTyped
<1>11. Snaps(longer) = Append(Snaps(s), r.snap)
  BY <1>6, <1>9, <1>10
<1> QED BY <1>11 DEF longer

-----------------------------------------------------------------------------
(* A step of the logbook is a step of the history. *)

Kept == [History!HistoryNext]_(History!historyVars)

\* A step that leaves the flights as recorded, the revisions and the mode alone.
LEMMA Stutters ==
  ASSUME \A f \in FlightIds : Recorded(flight'[f]) = Recorded(flight[f]), revs' = revs, strict' = strict
  PROVE  Kept
BY DEF Kept, History!historyVars

\* A transaction over flights that exist: each one that changes leaves its former state
\* behind while strict mode is on (flight_revision_capture, flight_revision_finalize).
LEMMA Transaction ==
  ASSUME IInv, FlightsOK', NEW rv, strict' = strict,
         \A f \in FlightIds : ~Exists(f) => flight'[f] = NoFlight,
         revs' = [f \in FlightIds |-> IF strict /\ Changed(flight[f], flight'[f])
                                      THEN Append(revs[f], rv[f]) ELSE revs[f]],
         \A f \in FlightIds : Changed(flight[f], flight'[f]) =>
                                rv[f] \in Revisions /\ rv[f].snap = Recorded(flight[f])
  PROVE  RevsOK' /\ Kept
<1>1. RevsOK'
  BY DEF RevsOK, IInv
<1>2. \A f \in FlightIds : Snaps(revs'[f]) = IF strict /\ Changed(flight[f], flight'[f])
                                            THEN Append(Snaps(revs[f]), Recorded(flight[f]))
                                            ELSE Snaps(revs[f])
  <2> TAKE f \in FlightIds
  <2>1. revs[f] \in Seq(Revisions)
    BY DEF IInv, RevsOK
  <2> QED BY <2>1, SnapsAppend
<1>3. CASE \E f \in FlightIds : Changed(flight[f], flight'[f])
  <2>1. \A f \in FlightIds : Changed(flight[f], flight'[f]) =>
          /\ Recorded(flight[f]) # NoFlight
          /\ Recorded(flight'[f]) \in States \cup {NoFlight}
    BY RecordedRow, RecordedNoFlight DEF IInv, FlightsOK, Exists, Changed
  <2>2. History!Replace
    BY <1>2, <1>3, <2>1 DEF History!Replace, Changed, Snaps
  <2> QED BY <1>1, <2>2 DEF Kept, History!HistoryNext
<1>4. CASE \A f \in FlightIds : ~Changed(flight[f], flight'[f])
  <2>1. revs' = revs
    BY <1>4 DEF IInv, RevsOK
  <2> QED BY <1>1, <1>4, <2>1, Stutters DEF Changed
<1> QED BY <1>3, <1>4

\* A revision is well typed and holds the state that is replaced.
LEMMA RevisionTyped ==
  ASSUME IInv, NEW f \in FlightIds, Exists(f), NEW new, NEW cc,
         cc.source \in {"user_edit", "recalc", "contact_rename"}, cc.reason \in {NoReason, Reason}
  PROVE  Revision(f, new, cc) \in Revisions /\ Revision(f, new, cc).snap = Recorded(flight[f])
<1>1. Recorded(flight[f]) \in States
  BY RecordedRow DEF IInv, FlightsOK, Exists
<1> QED BY <1>1 DEF Revision, Revisions

\* Commit writes flights that exist and is such a transaction.
LEMMA CommitKeeps ==
  ASSUME IInv, NEW F \in SUBSET FlightIds, NEW new, NEW cc, Commit(F, new, cc), strict' = strict,
         \A f \in F : Exists(f) /\ new[f] \in Row \cup {NoFlight},
         cc.source \in {"user_edit", "recalc", "contact_rename"}, cc.reason \in {NoReason, Reason}
  PROVE  FlightsOK' /\ RevsOK' /\ Kept
<1> DEFINE rv == [f \in FlightIds |-> Revision(f, new[f], cc)]
<1>1. FlightsOK'
  BY DEF Commit, IInv, FlightsOK
<1>2. \A f \in FlightIds : flight'[f] = IF f \in F THEN new[f] ELSE flight[f]
  BY DEF Commit
<1>3. \A f \in FlightIds : ~Exists(f) => flight'[f] = NoFlight
  BY <1>2 DEF Exists
<1>4. \A f \in FlightIds : Changed(flight[f], flight'[f]) =>
         rv[f] \in Revisions /\ rv[f].snap = Recorded(flight[f])
  <2> TAKE f \in FlightIds
  <2>1. Changed(flight[f], flight'[f]) => f \in F
    BY <1>2 DEF Changed
  <2> QED BY <2>1, RevisionTyped
<1>5. revs' = [f \in FlightIds |-> IF strict /\ Changed(flight[f], flight'[f])
                                   THEN Append(revs[f], rv[f]) ELSE revs[f]]
  <2>1. \A f \in FlightIds : (f \in F /\ Changed(flight[f], new[f])) <=> Changed(flight[f], flight'[f])
    BY <1>2 DEF Changed
  <2> QED BY <2>1 DEF Commit, flight_revision_finalize
<1> HIDE DEF rv
<1> QED BY <1>1, <1>3, <1>4, <1>5, Transaction

-----------------------------------------------------------------------------
(* The actions.  Each leaves the requests well formed, and its writes are one of   *)
(* the steps above.                                                                *)

\* Requests that only read, wait or answer.
LEMMA OnlyRequests ==
  ASSUME IInv, UNCHANGED <<flight, revs, strict>>, NEW p \in Procs, NEW r, ReqOK(r),
         req' = [req EXCEPT ![p] = r]
  PROVE  IInv' /\ Kept
<1>1. DOMAIN req' = Procs /\ \A q \in Procs : ReqOK(req'[q])
  BY DEF IInv
<1>2. Kept
  BY Stutters
<1> QED BY <1>1, <1>2 DEF IInv, FlightsOK, RevsOK

LEMMA IdleOK == ReqOK(Idle)
BY DEF ReqOK, Idle

LEMMA Answers == ASSUME IInv, NEW p \in Procs, Reply(p) PROVE IInv' /\ Kept
BY OnlyRequests, IdleOK DEF Reply, Finish

LEMMA Proceeds == ASSUME IInv, NEW p \in Procs, NEW r, ReqOK(r), Proceed(p, r) PROVE IInv' /\ Kept
BY OnlyRequests DEF Proceed

LEMMA Serves == ASSUME IInv, NEW p \in Procs, NEW r, ReqOK(r), Serve(p, r) PROVE IInv' /\ Kept
BY OnlyRequests DEF Serve

\* The service's second read of the flight (UpdateFlightWith).
LEMMA ServiceReads ==
  ASSUME IInv, NEW p \in Procs, NEW f \in FlightIds, NEW new \in Row, NEW withCrew,
         NEW source \in {"user_edit", "recalc"}, NEW reason \in {NoReason, Reason}, NEW next \in Copies,
         UpdateFlightWith(p, f, new, withCrew, source, reason, next)
  PROVE  IInv' /\ Kept
<1> DEFINE cls == source = "user_edit" /\ ClassifyEditWith(LoadState, f, flight[f], new)
           told == IF source = "user_edit" /\ strict THEN reason ELSE NoReason
           cc == Change(source, told, IF cls THEN {f} ELSE {}, cls /\ reason = NoReason, f)
           r == [step |-> "update", f |-> f, new |-> new, withCrew |-> withCrew, next |-> next, cc |-> cc]
           again == [step |-> "recalc", copies |-> next]
<1>1. Reply(p) \/ Proceed(p, again) \/ Proceed(p, r)
  BY DEF UpdateFlightWith
<1>2. ReqOK(again)
  BY DEF ReqOK
<1>3. ChangeOK(cc)
  BY DEF ChangeOK, Change
<1> HIDE DEF cc
<1>4. ReqOK(r)
  BY <1>3 DEF ReqOK
<1> HIDE DEF r, again
<1> QED BY <1>1, <1>2, <1>4, Answers, Proceeds

\* A request ends or goes on after a transaction.
LEMMA AfterWrite ==
  ASSUME IInv, FlightsOK', RevsOK', strict' = strict, NEW p \in Procs, NEW r, ReqOK(r),
         req' = [req EXCEPT ![p] = r] \/ req' = req
  PROVE  IInv'
BY DEF IInv

\* The transactions of an update, a deletion, the deletion of all flights and a renaming.
LEMMA UpdateKeeps ==
  ASSUME IInv, NEW p \in Procs, req[p].step = "update", update(p), strict' = strict
  PROVE  FlightsOK' /\ RevsOK' /\ Kept
<1> DEFINE f == req[p].f
<1>1. f \in FlightIds /\ req[p].new \in Row /\ ChangeOK(req[p].cc)
  BY DEF IInv, ReqOK
<1>2. CASE flight' = flight /\ revs' = revs
  BY <1>2, Stutters DEF IInv, FlightsOK, RevsOK
<1>3. CASE Exists(f) /\ Commit({f}, [x \in {f} |-> updated(p)], req[p].cc)
  <2>1. flight[f] \in Row
    BY <1>1, <1>3 DEF IInv, FlightsOK, Exists
  <2>2. updated(p) \in Row
    BY <1>1, <2>1 DEF updated, Row
  <2> DEFINE new == [x \in {f} |-> updated(p)]
  <2>3. \A x \in {f} : Exists(x) /\ new[x] \in Row \cup {NoFlight}
    BY <1>3, <2>2
  <2> HIDE DEF new
  <2> QED BY <1>1, <1>3, <2>3, CommitKeeps DEF ChangeOK, new
<1> QED BY <1>2, <1>3 DEF update

LEMMA DeleteKeeps ==
  ASSUME IInv, NEW p \in Procs, req[p].step = "delete", Delete(p), strict' = strict
  PROVE  FlightsOK' /\ RevsOK' /\ Kept
<1> DEFINE f == req[p].f
           new == [x \in {f} |-> NoFlight]
<1>1. f \in FlightIds /\ ChangeOK(req[p].cc)
  BY DEF IInv, ReqOK
<1>2. CASE flight' = flight /\ revs' = revs
  BY <1>2, Stutters DEF IInv, FlightsOK, RevsOK
<1>3. CASE Exists(f) /\ Commit({f}, new, req[p].cc)
  <2>1. \A x \in {f} : Exists(x) /\ new[x] \in Row \cup {NoFlight}
    BY <1>3
  <2> HIDE DEF new
  <2> QED BY <1>1, <1>3, <2>1, CommitKeeps DEF ChangeOK
<1> QED BY <1>2, <1>3 DEF Delete

LEMMA DeleteAllKeeps ==
  ASSUME IInv, DeleteAllByUserID, strict' = strict
  PROVE  FlightsOK' /\ RevsOK' /\ Kept
<1> DEFINE cc(f) == [source |-> "user_edit", reason |-> NoReason,
                     corrections |-> IF strict THEN DeleteCorrections ELSE {},
                     seen |-> <<flight[f], LoadState, f \in signed, today>>]
           rv == [f \in FlightIds |-> Revision(f, NoFlight, cc(f))]
<1>1. FlightsOK' /\ \A f \in FlightIds : flight'[f] = NoFlight
  BY DEF DeleteAllByUserID, FlightsOK
<1>2. \A f \in FlightIds : Changed(flight[f], flight'[f]) <=> Exists(f)
  BY <1>1, RecordedRow, RecordedNoFlight DEF Changed, Exists, IInv, FlightsOK
<1>3. revs' = [f \in FlightIds |-> IF strict /\ Changed(flight[f], flight'[f])
                                   THEN Append(revs[f], rv[f]) ELSE revs[f]]
  BY <1>2 DEF DeleteAllByUserID
<1>4. \A f \in FlightIds : Changed(flight[f], flight'[f]) =>
         rv[f] \in Revisions /\ rv[f].snap = Recorded(flight[f])
  <2> TAKE f \in FlightIds
  <2>1. cc(f).source = "user_edit" /\ cc(f).reason = NoReason
    OBVIOUS
  <2> HIDE DEF cc
  <2> QED BY <1>2, <2>1, RevisionTyped
<1> HIDE DEF rv
<1> QED BY <1>1, <1>3, <1>4, Transaction

LEMMA RenameKeeps ==
  ASSUME IInv, NEW p \in Procs, RenameContact(p)
  PROVE  FlightsOK' /\ RevsOK' /\ Kept
<1> DEFINE F == {f \in FlightIds : Exists(f) /\ ~flight[f].sig}
           cc == [source |-> "contact_rename", reason |-> NoReason, corrections |-> {}, seen |-> NoFlight]
           new == [f \in F |-> [flight[f] EXCEPT !.crew = Renamed[@]]]
<1>1. Commit(F, new, cc) /\ strict' = strict
  BY DEF RenameContact
<1>2. \A f \in F : Exists(f) /\ new[f] \in Row \cup {NoFlight}
  <2> TAKE f \in F
  <2>1. flight[f] \in Row
    BY DEF IInv, FlightsOK, Exists
  <2>2. [flight[f] EXCEPT !.crew = Renamed[@]] \in Row
    BY <2>1, FlightLogAssumption DEF Row
  <2> QED BY <2>2
<1>3. cc.source \in {"user_edit", "recalc", "contact_rename"} /\ cc.reason \in {NoReason, Reason}
  OBVIOUS
<1>4. F \in SUBSET FlightIds
  OBVIOUS
<1> HIDE DEF F, cc, new
<1> QED BY <1>1, <1>2, <1>3, <1>4, CommitKeeps

\* A new flight is entered under an id without a history.
LEMMA CreateKeeps ==
  ASSUME IInv, NEW f \in FlightIds, NEW row \in Row, CreateWithCrew(f, row), strict' = strict
  PROVE  FlightsOK' /\ RevsOK' /\ Kept
<1>1. FlightsOK' /\ RevsOK'
  BY DEF CreateWithCrew, IInv, FlightsOK, RevsOK
<1>2. Recorded(flight[f]) = NoFlight /\ Recorded(flight'[f]) \in States
  BY RecordedRow, RecordedNoFlight DEF CreateWithCrew, Exists, IInv, FlightsOK
<1>3. \A g \in FlightIds : g # f => flight'[g] = flight[g]
  BY DEF CreateWithCrew, IInv, FlightsOK
<1>4. revs' = revs /\ revs[f] = <<>>
  BY DEF CreateWithCrew
<1>5. Snaps(revs[f]) = <<>>
  BY <1>4 DEF Snaps
<1>6. History!Enter(f)
  BY <1>2, <1>3, <1>4, <1>5 DEF History!Enter, Snaps
<1> QED BY <1>1, <1>6 DEF Kept, History!HistoryNext

\* Switching the mode.
LEMMA SwitchKeeps ==
  ASSUME IInv, NEW on \in BOOLEAN, setStrict(on), UNCHANGED <<flight, revs>>
  PROVE  strict' \in BOOLEAN /\ Kept
<1>1. CASE strict' = strict
  BY <1>1, Stutters DEF IInv
<1>2. CASE strict' # strict
  <2>1. strict' = ~strict
    BY <1>2 DEF setStrict, IInv
  <2>2. History!Switch
    BY <2>1 DEF History!Switch
  <2> QED BY <2>1, <2>2 DEF Kept, History!HistoryNext, IInv
<1> QED BY <1>1, <1>2

-----------------------------------------------------------------------------
(* The theorem. *)

LEMMA InitIInv == ASSUME Init PROVE IInv /\ History!HistoryInit
<1>1. PICK s \in Starts : flight = s.flight /\ strict = s.strict
  BY DEF Init
<1>2. FlightsOK /\ strict \in BOOLEAN
  BY <1>1, FlightLogAssumption DEF FlightsOK
<1>3. revs = [f \in FlightIds |-> <<>>]
  BY DEF Init
<1>4. RevsOK /\ \A f \in FlightIds : Snaps(revs[f]) = <<>>
  BY <1>3 DEF RevsOK, Snaps
<1>5. DOMAIN req = Procs /\ \A p \in Procs : ReqOK(req[p])
  BY IdleOK DEF Init
<1>6. \A f \in FlightIds : Recorded(flight[f]) \in States \cup {NoFlight}
  BY <1>2, RecordedRow, RecordedNoFlight DEF FlightsOK
<1> QED BY <1>2, <1>4, <1>5, <1>6 DEF IInv, History!HistoryInit, Snaps

LEMMA NextIInv == ASSUME IInv, [Next]_vars PROVE IInv' /\ Kept
<1>1. ASSUME NEW p \in Procs, CreateFlight(p) PROVE IInv' /\ Kept
  <2>1. PICK row \in NewRows : Serve(p, [step |-> "check", row |-> ApplyAutoCalculations(row)])
    BY <1>1 DEF CreateFlight
  <2>2. ReqOK([step |-> "check", row |-> ApplyAutoCalculations(row)])
    BY CalculatedRow, FlightLogAssumption DEF ReqOK
  <2> QED BY <2>1, <2>2, Serves
<1>2. ASSUME NEW p \in Procs, CheckCreate(p) PROVE IInv' /\ Kept
  <2>1. ReqOK([step |-> "create", row |-> req[p].row])
    BY <1>2 DEF CheckCreate, IInv, ReqOK
  <2> QED BY <1>2, <2>1, Proceeds, Answers DEF CheckCreate, CreateFlightChecked
<1>3. ASSUME NEW p \in Procs, WriteCreate(p) PROVE IInv' /\ Kept
  <2>1. req[p].row \in Row
    BY <1>3 DEF WriteCreate, IInv, ReqOK
  <2>2. FlightsOK' /\ RevsOK' /\ Kept
    BY <1>3, <2>1, CreateKeeps DEF WriteCreate
  <2> QED BY <1>3, <2>2, AfterWrite, IdleOK DEF WriteCreate, Finish
<1>4. ASSUME NEW p \in Procs, UpdateFlight(p) PROVE IInv' /\ Kept
  <2>1. PICK f \in FlightIds, patch \in Patches, r \in {NoReason, Reason} :
          /\ Exists(f)
          /\ Serve(p, [step |-> "patched", f |-> f, new |-> applyPatch(flight[f], patch),
                       withCrew |-> "crew" \in DOMAIN patch, reason |-> r])
    BY <1>4 DEF UpdateFlight
  <2>2. applyPatch(flight[f], patch) \in Row
    BY <2>1, PatchedRow DEF IInv, FlightsOK, Exists
  <2>3. ReqOK([step |-> "patched", f |-> f, new |-> applyPatch(flight[f], patch),
               withCrew |-> "crew" \in DOMAIN patch, reason |-> r])
    BY <2>2 DEF ReqOK
  <2> QED BY <2>1, <2>3, Serves
<1>5. ASSUME NEW p \in Procs, CheckUpdate(p) PROVE IInv' /\ Kept
  <2>1. req[p].f \in FlightIds /\ req[p].new \in Row /\ req[p].reason \in {NoReason, Reason}
    BY <1>5 DEF CheckUpdate, IInv, ReqOK
  <2>2. {} \in Copies
    BY DEF Copies
  <2> QED BY <1>5, <2>1, <2>2, ServiceReads DEF CheckUpdate
<1>6. ASSUME NEW p \in Procs, WriteUpdate(p) PROVE IInv' /\ Kept
  <2>1. FlightsOK' /\ RevsOK' /\ Kept
    BY <1>6, UpdateKeeps DEF WriteUpdate
  <2>2. req[p].next \in Copies
    BY <1>6 DEF WriteUpdate, IInv, ReqOK
  <2> DEFINE again == IF req[p].next = {} THEN Idle ELSE [step |-> "recalc", copies |-> req[p].next]
  <2>3. ReqOK(again)
    BY <2>2, IdleOK DEF ReqOK
  <2>4. req' = [req EXCEPT ![p] = again] /\ strict' = strict
    BY <1>6 DEF WriteUpdate
  <2> HIDE DEF again
  <2> QED BY <2>1, <2>3, <2>4, AfterWrite
<1>7. ASSUME NEW p \in Procs, DeleteFlight(p) PROVE IInv' /\ Kept
  <2>1. PICK f \in FlightIds, r \in {NoReason, Reason} : Serve(p, [step |-> "deleting", f |-> f, reason |-> r])
    BY <1>7 DEF DeleteFlight
  <2>2. ReqOK([step |-> "deleting", f |-> f, reason |-> r])
    BY DEF ReqOK
  <2> QED BY <2>1, <2>2, Serves
<1>8. ASSUME NEW p \in Procs, CheckDelete(p) PROVE IInv' /\ Kept
  <2>1. req[p].f \in FlightIds /\ req[p].reason \in {NoReason, Reason}
    BY <1>8 DEF CheckDelete, IInv, ReqOK
  <2> DEFINE cc == Change("user_edit", req[p].reason,
                     IF ClassifyEditWith(LoadState, req[p].f, flight[req[p].f], NoFlight) THEN {req[p].f} ELSE {},
                     FALSE, req[p].f)
             r == [step |-> "delete", f |-> req[p].f, cc |-> cc]
  <2>2. Reply(p) \/ Proceed(p, r)
    BY <1>8 DEF CheckDelete, DeleteFlightWithReason
  <2>3. ChangeOK(cc)
    BY <2>1 DEF ChangeOK, Change
  <2> HIDE DEF cc
  <2>4. ReqOK(r)
    BY <2>1, <2>3 DEF ReqOK
  <2> HIDE DEF r
  <2> QED BY <2>2, <2>4, Answers, Proceeds
<1>9. ASSUME NEW p \in Procs, WriteDelete(p) PROVE IInv' /\ Kept
  <2>1. FlightsOK' /\ RevsOK' /\ Kept
    BY <1>9, DeleteKeeps DEF WriteDelete
  <2> QED BY <1>9, <2>1, AfterWrite, IdleOK DEF WriteDelete, Finish
<1>10. ASSUME NEW p \in Procs, DeleteAllFlights(p) PROVE IInv' /\ Kept
  <2>1. FlightsOK' /\ RevsOK' /\ Kept
    BY <1>10, DeleteAllKeeps DEF DeleteAllFlights
  <2> QED BY <1>10, <2>1, AfterWrite, IdleOK DEF DeleteAllFlights
<1>11. ASSUME NEW p \in Procs, RecalculateFlights(p) PROVE IInv' /\ Kept
  <2> DEFINE F == {f \in FlightIds : Exists(f)}
             copies == {<<f, ApplyAutoCalculations(flight[f])>> : f \in F}
  <2>1. Serve(p, [step |-> "recalc", copies |-> copies])
    BY <1>11 DEF RecalculateFlights
  <2>2. \A f \in F : ApplyAutoCalculations(flight[f]) \in Row
    BY CalculatedRow DEF IInv, FlightsOK, Exists
  <2>3. copies \in Copies
    BY <2>2 DEF Copies
  <2> HIDE DEF copies
  <2>4. ReqOK([step |-> "recalc", copies |-> copies])
    BY <2>3 DEF ReqOK
  <2> QED BY <2>1, <2>4, Serves
<1>12. ASSUME NEW p \in Procs, RecalculateOne(p) PROVE IInv' /\ Kept
  <2>1. req[p].copies \in Copies
    BY <1>12 DEF RecalculateOne, IInv, ReqOK
  <2>2. PICK c \in req[p].copies :
          UpdateFlightWith(p, c[1], c[2], FALSE, "recalc", NoReason, req[p].copies \ {c})
    BY <1>12 DEF RecalculateOne
  <2>3. c[1] \in FlightIds /\ c[2] \in Row /\ req[p].copies \ {c} \in Copies
    BY <2>1 DEF Copies
  <2> QED BY <2>2, <2>3, ServiceReads
<1>13. ASSUME NEW p \in Procs, RenameContact(p) PROVE IInv' /\ Kept
  <2>1. strict' = strict /\ req' = req
    BY <1>13 DEF RenameContact
  <2> QED BY <1>13, <2>1, RenameKeeps, AfterWrite, IdleOK
<1>14. ASSUME NEW p \in Procs, UpdateLogbookMode(p) PROVE IInv' /\ Kept
  <2>1. strict' \in BOOLEAN /\ Kept
    BY <1>14, SwitchKeeps DEF UpdateLogbookMode
  <2> QED BY <1>14, <2>1 DEF UpdateLogbookMode, IInv, FlightsOK, RevsOK
<1>15. ASSUME NEW p \in Procs, SyncFromLicences(p) PROVE IInv' /\ Kept
  <2>1. ReqOK([step |-> "sync"])
    BY DEF ReqOK
  <2> QED BY <1>15, <2>1, Serves DEF SyncFromLicences
<1>16. ASSUME NEW p \in Procs, SwitchOn(p) PROVE IInv' /\ Kept
  <2>1. strict' \in BOOLEAN /\ Kept
    BY <1>16, SwitchKeeps DEF SwitchOn
  <2>2. DOMAIN req' = Procs /\ \A q \in Procs : ReqOK(req'[q])
    BY <1>16, IdleOK DEF SwitchOn, Finish, IInv
  <2> QED BY <1>16, <2>1, <2>2 DEF SwitchOn, IInv, FlightsOK, RevsOK
<1>17. ASSUME NEW p \in Procs, CreateCertification(p) PROVE IInv' /\ Kept
  <2>1. PICK d \in 1 .. today : Serve(p, [step |-> "certify", day |-> d])
    BY <1>17 DEF CreateCertification
  <2>2. ReqOK([step |-> "certify", day |-> d])
    BY DEF ReqOK
  <2> QED BY <2>1, <2>2, Serves
<1>18. ASSUME NEW p \in Procs, WriteCertification(p) PROVE IInv' /\ Kept
  BY <1>18, OnlyRequests, IdleOK DEF WriteCertification, Finish
<1>19. ASSUME NEW f \in FlightIds, SetSignatureLock(f) PROVE IInv' /\ Kept
  <2>1. flight[f] \in Row
    BY <1>19 DEF SetSignatureLock, Exists, IInv, FlightsOK
  <2>2. flight' = [flight EXCEPT ![f] = [flight[f] EXCEPT !.sig = ~@]]
    BY <1>19 DEF SetSignatureLock
  <2>3. FlightsOK' /\ \A g \in FlightIds : Recorded(flight'[g]) = Recorded(flight[g])
    BY <2>1, <2>2, LockNotRecorded DEF IInv, FlightsOK
  <2>4. Kept
    BY <1>19, <2>3, Stutters DEF SetSignatureLock
  <2> QED BY <1>19, <2>3, <2>4 DEF SetSignatureLock, IInv, RevsOK
<1>20. ASSUME UNCHANGED <<flight, revs, strict, req>> PROVE IInv' /\ Kept
  BY <1>20, Stutters DEF IInv, FlightsOK, RevsOK
<1>21. CASE Tick
  BY <1>20, <1>21 DEF Tick
<1>22. CASE UNCHANGED vars
  BY <1>20, <1>22 DEF vars
<1> QED
  BY <1>1, <1>2, <1>3, <1>4, <1>5, <1>6, <1>7, <1>8, <1>9, <1>10, <1>11, <1>12, <1>13, <1>14,
     <1>15, <1>16, <1>17, <1>18, <1>19, <1>21, <1>22 DEF Next

\* The strict logbook implements FlightHistory: whoever writes a flight, from whatever stale
\* copy, each replaced or deleted state stays readable, in order and for good, and an id with a
\* history is not given to another flight (the triggers of migration 000079 under all writers).
THEOREM LogbookKeepsHistory == Spec => HistoryKept
<1>1. Init => IInv /\ History!HistoryInit
  BY InitIInv
<1>2. IInv /\ [Next]_vars => IInv'
  BY NextIInv
<1>3. IInv /\ [Next]_vars => [History!HistoryNext]_(History!historyVars)
  BY NextIInv DEF Kept
<1> QED BY <1>1, <1>2, <1>3, PTL DEF Spec, HistoryKept, History!HistorySpec

-----------------------------------------------------------------------------
(* What a request was told when it was classified, and what the revisions say. *)

OnlyOn == \A i \in 1 .. Len(switches) : switches[i]
OnlyOff == \A i \in 1 .. Len(switches) : ~switches[i]

\* outsideWindow and ClassifyEditWith on the day of the read; seen = <<row, state, signed, day>>.
OutsideAt(day, state, old, new) ==
  \/ day > Deadline(state.rules, old)
  \/ (IF new # NoFlight /\ new.date < old.date THEN new.date ELSE old.date) <= state.latest
  \/ new # NoFlight /\ overrideChanged(old, new) /\ day > FlightDayEnd(old.date)
ClassAt(seen, new) == seen[2].strict /\ (OutsideAt(seen[4], seen[2], seen[1], new) \/ seen[3])

\* A request about to write has read an unsigned flight, and a user's edit of it has passed the
\* override rule and carries the class of what it read.
EditTold(r) ==
  /\ ~r.cc.seen[1].sig
  /\ r.cc.source = "user_edit" =>
       /\ CheckDownwardOverridesWith(r.cc.seen[2], r.cc.seen[1], r.new)
       /\ ClassAt(r.cc.seen, r.new) => r.f \in r.cc.corrections /\ (r.cc.reject \/ r.cc.reason # NoReason)
DeleteTold(r) ==
  ~r.cc.seen[1].sig /\ (ClassAt(r.cc.seen, NoFlight) => r.f \in r.cc.corrections)
Told(r) == /\ r.step = "update" => EditTold(r)
           /\ r.step = "delete" => DeleteTold(r)
           /\ r.step = "certify" => r.day \in Days

\* In a logbook that was strict from the start a new flight has passed the override rule.
CreatesChecked ==
  strict /\ OnlyOff /\ Assess(licences).downward =>
    \A p \in Procs : req[p].step = "create" /\ req[p].row.over => req[p].row.night <= Calculated[req[p].row.time]

LogTypes == /\ certified \subseteq Days /\ signed \subseteq FlightIds /\ today \in Days
            /\ served \in 0 .. MaxRequests /\ switches \in Seq(BOOLEAN)

ExplainedRev(r) == r.due /\ ~r.stale => r.correction /\ (r.kind = "update" => r.reason # NoReason)
Explained == \A f \in FlightIds : \A i \in 1 .. Len(revs[f]) : ExplainedRev(revs[f][i])
VoidsLast == \A f \in FlightIds : \A i \in 1 .. Len(revs[f]) :
               revs[f][i].kind = "delete" => i = Len(revs[f]) /\ flight[f] = NoFlight
\* While strict mode is never switched off a revision differs from what came after it.
Differs(f) ==
  /\ \A i \in 1 .. Len(revs[f]) : i < Len(revs[f]) => revs[f][i].snap # revs[f][i + 1].snap
  /\ revs[f] # <<>> => /\ strict
                       /\ revs[f][Len(revs[f])].kind = "update" =>
                            Recorded(flight[f]) \notin {NoFlight, revs[f][Len(revs[f])].snap}
HistoryShows == OnlyOn => \A f \in FlightIds : Differs(f)

LogInv == /\ IInv /\ LogTypes /\ (\A p \in Procs : Told(req[p])) /\ CreatesChecked
          /\ Explained /\ VoidsLast /\ HistoryShows

\* Steps that leave the flights and the revisions alone.
LEMMA HistoryStays ==
  ASSUME LogInv, UNCHANGED <<flight, revs, strict, switches>>
  PROVE  Explained' /\ VoidsLast' /\ HistoryShows'
<1>1. Explained' /\ VoidsLast'
  BY DEF LogInv, Explained, VoidsLast, ExplainedRev
<1>2. \A f : Differs(f)' <=> Differs(f)
  BY DEF Differs
<1> QED BY <1>1, <1>2 DEF LogInv, HistoryShows, OnlyOn

\* A revision is added when strict mode is on and the flight changes, and to every one that
\* changes.
LEMMA TransactionTells ==
  ASSUME LogInv, FlightsOK', NEW rv, strict' = strict, switches' = switches,
         \A f \in FlightIds : ~Exists(f) => flight'[f] = NoFlight,
         revs' = [f \in FlightIds |-> IF strict /\ Changed(flight[f], flight'[f])
                                      THEN Append(revs[f], rv[f]) ELSE revs[f]],
         \A f \in FlightIds : Changed(flight[f], flight'[f]) =>
                                /\ rv[f] \in Revisions /\ rv[f].snap = Recorded(flight[f])
                                /\ rv[f].kind = (IF flight'[f] = NoFlight THEN "delete" ELSE "update")
                                /\ strict => ExplainedRev(rv[f])
  PROVE  Explained' /\ VoidsLast' /\ HistoryShows'
<1>0. \A f \in FlightIds : /\ revs[f] \in Seq(Revisions) /\ flight[f] \in Row \cup {NoFlight}
                           /\ flight'[f] \in Row \cup {NoFlight}
  BY DEF LogInv, IInv, FlightsOK, RevsOK
<1>1. ASSUME NEW f \in FlightIds, strict, Changed(flight[f], flight'[f])
      PROVE  /\ revs'[f] \in Seq(Revisions) /\ Len(revs'[f]) = Len(revs[f]) + 1 /\ Len(revs[f]) \in Nat
             /\ revs'[f][Len(revs[f]) + 1] = rv[f] /\ Exists(f)
             /\ \A i \in 1 .. Len(revs[f]) : revs'[f][i] = revs[f][i]
  <2>1. revs'[f] = Append(revs[f], rv[f]) /\ rv[f] \in Revisions
    BY <1>1
  <2>2. Exists(f)
    BY <1>1 DEF Changed, Exists
  <2> QED BY <1>0, <2>1, <2>2
<1>2. ASSUME NEW f \in FlightIds, ~(strict /\ Changed(flight[f], flight'[f]))
      PROVE  revs'[f] = revs[f]
  BY <1>2
<1>3. Explained'
  <2> SUFFICES ASSUME NEW f \in FlightIds, NEW i \in 1 .. Len(revs'[f]) PROVE ExplainedRev(revs'[f][i])
    BY DEF Explained, ExplainedRev
  <2>1. CASE strict /\ Changed(flight[f], flight'[f])
    <3>1. CASE i = Len(revs[f]) + 1
      BY <1>1, <2>1, <3>1
    <3>2. CASE i \in 1 .. Len(revs[f])
      BY <1>1, <2>1, <3>2 DEF LogInv, Explained
    <3> QED BY <1>1, <2>1, <3>1, <3>2
  <2>2. CASE ~(strict /\ Changed(flight[f], flight'[f]))
    BY <1>2, <2>2 DEF LogInv, Explained
  <2> QED BY <2>1, <2>2
<1>4. VoidsLast'
  <2> SUFFICES ASSUME NEW f \in FlightIds, NEW i \in 1 .. Len(revs'[f]), revs'[f][i].kind = "delete"
               PROVE  i = Len(revs'[f]) /\ flight'[f] = NoFlight
    BY DEF VoidsLast
  <2>1. CASE strict /\ Changed(flight[f], flight'[f])
    <3>1. CASE i = Len(revs[f]) + 1
      BY <1>1, <2>1, <3>1
    <3>2. CASE i \in 1 .. Len(revs[f])
      <4>1. revs[f][i].kind = "delete" /\ Exists(f)
        BY <1>1, <2>1, <3>2
      <4> QED BY <3>2, <4>1 DEF LogInv, VoidsLast, Exists
    <3> QED BY <1>1, <2>1, <3>1, <3>2
  <2>2. CASE ~(strict /\ Changed(flight[f], flight'[f]))
    BY <1>2, <2>2 DEF LogInv, VoidsLast, Exists
  <2> QED BY <2>1, <2>2
<1>5. HistoryShows'
  <2> SUFFICES ASSUME OnlyOn', NEW f \in FlightIds PROVE Differs(f)'
    BY DEF HistoryShows
  <2>0. Differs(f)
    BY DEF LogInv, HistoryShows, OnlyOn
  <2>1. CASE strict /\ Changed(flight[f], flight'[f])
    <3>1. Len(revs'[f]) = Len(revs[f]) + 1 /\ Len(revs[f]) \in Nat /\ revs'[f][Len(revs[f]) + 1] = rv[f]
          /\ Exists(f) /\ \A i \in 1 .. Len(revs[f]) : revs'[f][i] = revs[f][i]
      BY <1>1, <2>1
    <3>2. \A i \in 1 .. Len(revs'[f]) : i < Len(revs'[f]) => revs'[f][i].snap # revs'[f][i + 1].snap
      <4> SUFFICES ASSUME NEW i \in 1 .. Len(revs'[f]), i < Len(revs'[f]) PROVE revs'[f][i].snap # revs'[f][i + 1].snap
        OBVIOUS
      <4>0. i \in 1 .. Len(revs[f])
        BY <3>1
      <4>1. CASE i < Len(revs[f])
        BY <2>0, <3>1, <4>0, <4>1 DEF Differs
      <4>2. CASE i = Len(revs[f])
        <5>1. revs[f] # <<>> /\ revs'[f][i] = revs[f][i] /\ revs'[f][i + 1] = rv[f]
          BY <3>1, <4>0, <4>2
        <5>2. rv[f].snap = Recorded(flight[f])
          BY <2>1
        <5>3. revs[f][i] \in Revisions
          BY <1>0, <4>0
        <5>4. revs[f][i].kind = "update"
          BY <3>1, <4>0, <5>3 DEF LogInv, VoidsLast, Exists, Revisions
        <5> QED BY <2>0, <4>2, <5>1, <5>2, <5>4 DEF Differs
      <4> QED BY <3>1, <4>0, <4>1, <4>2
    <3>3. rv[f].kind = "update" => Recorded(flight'[f]) \notin {NoFlight, rv[f].snap}
      <4>1. rv[f].snap = Recorded(flight[f]) /\ rv[f].kind = (IF flight'[f] = NoFlight THEN "delete" ELSE "update")
        BY <2>1
      <4>2. flight'[f] # NoFlight => Recorded(flight'[f]) # NoFlight
        BY <1>0, RecordedRow
      <4> QED BY <2>1, <4>1, <4>2 DEF Changed
    <3> QED BY <2>1, <3>1, <3>2, <3>3 DEF Differs
  <2>2. CASE ~(strict /\ Changed(flight[f], flight'[f]))
    <3>1. revs'[f] = revs[f]
      BY <1>2, <2>2
    <3>2. revs[f] # <<>> => Recorded(flight'[f]) = Recorded(flight[f])
      BY <2>0, <2>2 DEF Differs, Changed
    <3> QED BY <2>0, <3>1, <3>2 DEF Differs
  <2> QED BY <2>1, <2>2
<1> QED BY <1>3, <1>4, <1>5

\* The latest certified day is a number.
LEMMA LatestTyped ==
  ASSUME certified \subseteq Days
  PROVE  LatestCertifiedThrough \in Nat
<1>0. LastDay \in Nat
  BY FlightLogAssumption
<1>1. IsFiniteSet(Days) /\ Days \subseteq Nat
  BY <1>0, FS_Interval DEF Days
<1>2. IsFiniteSet(certified) /\ certified \in SUBSET Nat
  BY <1>1, FS_Subset
<1>3. certified # {} => Max(certified) \in certified
  BY <1>2, Greatest DEF Max
<1> QED BY <1>2, <1>3 DEF LatestCertifiedThrough

LEMMA CommitTells ==
  ASSUME LogInv, NEW F \in SUBSET FlightIds, NEW new, NEW cc, Commit(F, new, cc),
         strict' = strict, switches' = switches,
         \A f \in F : Exists(f) /\ new[f] \in Row \cup {NoFlight},
         cc.source \in {"user_edit", "recalc", "contact_rename"}, cc.reason \in {NoReason, Reason},
         \A f \in F : strict /\ Changed(flight[f], new[f]) => ExplainedRev(Revision(f, new[f], cc))
  PROVE  Explained' /\ VoidsLast' /\ HistoryShows'
<1> DEFINE rv == [f \in FlightIds |-> Revision(f, new[f], cc)]
<1>0. IInv
  BY DEF LogInv
<1>1. FlightsOK'
  BY <1>0, CommitKeeps
<1>2. \A f \in FlightIds : flight'[f] = IF f \in F THEN new[f] ELSE flight[f]
  BY DEF Commit
<1>3. \A f \in FlightIds : ~Exists(f) => flight'[f] = NoFlight
  BY <1>2 DEF Exists
<1>4. \A f \in FlightIds : Changed(flight[f], flight'[f]) =>
         /\ rv[f] \in Revisions /\ rv[f].snap = Recorded(flight[f])
         /\ rv[f].kind = (IF flight'[f] = NoFlight THEN "delete" ELSE "update")
         /\ strict => ExplainedRev(rv[f])
  <2> SUFFICES ASSUME NEW f \in FlightIds, Changed(flight[f], flight'[f])
               PROVE  /\ rv[f] \in Revisions /\ rv[f].snap = Recorded(flight[f])
                      /\ rv[f].kind = (IF flight'[f] = NoFlight THEN "delete" ELSE "update")
                      /\ strict => ExplainedRev(rv[f])
    OBVIOUS
  <2>1. f \in F /\ flight'[f] = new[f]
    BY <1>2 DEF Changed
  <2>2. rv[f] = Revision(f, new[f], cc)
    OBVIOUS
  <2>3. Revision(f, new[f], cc).kind = IF new[f] = NoFlight THEN "delete" ELSE "update"
    BY DEF Revision
  <2>4. Revision(f, new[f], cc) \in Revisions /\ Revision(f, new[f], cc).snap = Recorded(flight[f])
    BY <1>0, <2>1, RevisionTyped
  <2> HIDE DEF rv
  <2> QED BY <2>1, <2>2, <2>3, <2>4
<1>5. revs' = [f \in FlightIds |-> IF strict /\ Changed(flight[f], flight'[f])
                                   THEN Append(revs[f], rv[f]) ELSE revs[f]]
  <2>1. \A f \in FlightIds : (f \in F /\ Changed(flight[f], new[f])) <=> Changed(flight[f], flight'[f])
    BY <1>2 DEF Changed
  <2> QED BY <2>1 DEF Commit, flight_revision_finalize
<1> HIDE DEF rv
<1> QED BY <1>1, <1>3, <1>4, <1>5, TransactionTells

\* The revision of an edit whose class was still right carries the class and a reason.
LEMMA EditExplained ==
  ASSUME LogInv, NEW p \in Procs, req[p].step = "update", Exists(req[p].f), strict,
         ~(req[p].cc.reject /\ Changed(flight[req[p].f], updated(p))), Changed(flight[req[p].f], updated(p))
  PROVE  ExplainedRev(Revision(req[p].f, updated(p), req[p].cc))
<1> DEFINE f == req[p].f
           cc == req[p].cc
           new == req[p].new
           r == Revision(f, updated(p), cc)
<1>1. f \in FlightIds /\ new \in Row /\ EditTold(req[p]) /\ flight[f] \in Row
  BY DEF LogInv, IInv, ReqOK, Told, FlightsOK, Exists
<1>2. new # NoFlight /\ flight[f] # NoFlight
  BY <1>1, FlightLogAssumption
<1>3. /\ r.due = (cc.source = "user_edit" /\ (Covered(flight[f], updated(p)) \/ f \in signed))
      /\ r.stale = (cc.seen # <<flight[f], LoadState, f \in signed, today>>)
      /\ r.correction = (f \in cc.corrections) /\ r.reason = cc.reason
  BY DEF Revision
<1>4. updated(p).date = new.date /\ updated(p) \in Row
  BY <1>1 DEF updated, Row
<1>5. flight[f].date \in Int /\ new.date \in Int
  BY <1>1, FlightLogAssumption DEF Row, Days
<1>6. LatestCertifiedThrough \in Nat
  BY LatestTyped DEF LogInv, LogTypes
<1> SUFFICES ASSUME cc.source = "user_edit", Covered(flight[f], updated(p)) \/ f \in signed,
                    cc.seen = <<flight[f], LoadState, f \in signed, today>>
             PROVE  f \in cc.corrections /\ cc.reason # NoReason
  BY <1>3 DEF ExplainedRev
<1>7. /\ cc.seen[1] = flight[f] /\ cc.seen[2] = LoadState /\ cc.seen[3] = (f \in signed) /\ cc.seen[4] = today
  OBVIOUS
<1>8. LoadState.strict = strict /\ LoadState.rules = Assess(licences) /\ LoadState.latest = LatestCertifiedThrough
  BY DEF LoadState
<1>9. Covered(flight[f], updated(p)) => OutsideAt(today, LoadState, flight[f], new)
  <2>1. CASE today > Deadline(Assess(licences), flight[f])
    BY <1>8, <2>1 DEF OutsideAt
  <2>2. CASE \E row \in {flight[f], updated(p)} \ {NoFlight} : row.date <= LatestCertifiedThrough
    <3>1. flight[f].date <= LatestCertifiedThrough \/ new.date <= LatestCertifiedThrough
      BY <1>4, <2>2
    <3>2. (IF new # NoFlight /\ new.date < flight[f].date THEN new.date ELSE flight[f].date) <= LatestCertifiedThrough
      BY <1>2, <1>5, <1>6, <3>1
    <3> QED BY <1>8, <3>2 DEF OutsideAt
  <2> QED BY <2>1, <2>2 DEF Covered
<1>10. ClassAt(cc.seen, new)
  BY <1>7, <1>8, <1>9 DEF ClassAt
<1> QED BY <1>1, <1>10 DEF EditTold

LEMMA DeleteExplained ==
  ASSUME LogInv, NEW p \in Procs, req[p].step = "delete", Exists(req[p].f), strict
  PROVE  ExplainedRev(Revision(req[p].f, NoFlight, req[p].cc))
<1> DEFINE f == req[p].f
           cc == req[p].cc
           r == Revision(f, NoFlight, cc)
<1>1. f \in FlightIds /\ DeleteTold(req[p]) /\ flight[f] \in Row
  BY DEF LogInv, IInv, ReqOK, Told, FlightsOK, Exists
<1>3. /\ r.due = (cc.source = "user_edit" /\ (Covered(flight[f], NoFlight) \/ f \in signed))
      /\ r.stale = (cc.seen # <<flight[f], LoadState, f \in signed, today>>)
      /\ r.correction = (f \in cc.corrections) /\ r.kind = "delete"
  BY DEF Revision
<1> SUFFICES ASSUME Covered(flight[f], NoFlight) \/ f \in signed,
                    cc.seen = <<flight[f], LoadState, f \in signed, today>>
             PROVE  f \in cc.corrections
  BY <1>3 DEF ExplainedRev
<1>7. /\ cc.seen[1] = flight[f] /\ cc.seen[2] = LoadState /\ cc.seen[3] = (f \in signed) /\ cc.seen[4] = today
  OBVIOUS
<1>8. LoadState.strict = strict /\ LoadState.rules = Assess(licences) /\ LoadState.latest = LatestCertifiedThrough
  BY DEF LoadState
<1>9. Covered(flight[f], NoFlight) => OutsideAt(today, LoadState, flight[f], NoFlight)
  BY <1>8 DEF OutsideAt, Covered
<1>10. ClassAt(cc.seen, NoFlight)
  BY <1>7, <1>8, <1>9 DEF ClassAt
<1> QED BY <1>1, <1>10 DEF DeleteTold

\* The deletion of all flights classifies each of them in its transaction.
LEMMA DeleteAllTells ==
  ASSUME LogInv, DeleteAllByUserID, strict' = strict, switches' = switches
  PROVE  Explained' /\ VoidsLast' /\ HistoryShows'
<1> DEFINE cc(f) == [source |-> "user_edit", reason |-> NoReason,
                     corrections |-> IF strict THEN DeleteCorrections ELSE {},
                     seen |-> <<flight[f], LoadState, f \in signed, today>>]
           rv == [f \in FlightIds |-> Revision(f, NoFlight, cc(f))]
<1>0. IInv
  BY DEF LogInv
<1>1. FlightsOK' /\ \A f \in FlightIds : flight'[f] = NoFlight
  BY DEF DeleteAllByUserID, FlightsOK
<1>2. \A f \in FlightIds : Changed(flight[f], flight'[f]) <=> Exists(f)
  BY <1>0, <1>1, RecordedRow, RecordedNoFlight DEF Changed, Exists, IInv, FlightsOK
<1>3. revs' = [f \in FlightIds |-> IF strict /\ Changed(flight[f], flight'[f])
                                   THEN Append(revs[f], rv[f]) ELSE revs[f]]
  BY <1>2 DEF DeleteAllByUserID
<1>4. \A f \in FlightIds : Changed(flight[f], flight'[f]) =>
         /\ rv[f] \in Revisions /\ rv[f].snap = Recorded(flight[f])
         /\ rv[f].kind = (IF flight'[f] = NoFlight THEN "delete" ELSE "update")
         /\ strict => ExplainedRev(rv[f])
  <2> SUFFICES ASSUME NEW f \in FlightIds, Exists(f)
               PROVE  /\ rv[f] \in Revisions /\ rv[f].snap = Recorded(flight[f]) /\ rv[f].kind = "delete"
                      /\ strict => ExplainedRev(rv[f])
    BY <1>1, <1>2, Zenon
  <2>1. /\ cc(f).source = "user_edit" /\ cc(f).reason = NoReason
        /\ strict => cc(f).corrections = DeleteCorrections
    OBVIOUS
  <2>2. rv[f] = Revision(f, NoFlight, cc(f))
    OBVIOUS
  <2> HIDE DEF cc, rv
  <2>3. Revision(f, NoFlight, cc(f)) \in Revisions /\ Revision(f, NoFlight, cc(f)).snap = Recorded(flight[f])
    BY <1>0, <2>1, RevisionTyped
  <2>4. /\ Revision(f, NoFlight, cc(f)).kind = "delete"
        /\ Revision(f, NoFlight, cc(f)).due => Covered(flight[f], NoFlight) \/ f \in signed
        /\ Revision(f, NoFlight, cc(f)).correction = (f \in cc(f).corrections)
    BY DEF Revision
  <2>5. (Covered(flight[f], NoFlight) \/ f \in signed) => f \in DeleteCorrections
    <3>1. LoadState.rules = Assess(licences) /\ LoadState.latest = LatestCertifiedThrough
      BY DEF LoadState
    <3>2. Covered(flight[f], NoFlight) => outsideWindow(LoadState, flight[f], NoFlight)
      BY <3>1 DEF Covered, outsideWindow
    <3> QED BY <3>2 DEF DeleteCorrections
  <2> QED BY <2>1, <2>2, <2>3, <2>4, <2>5 DEF ExplainedRev
<1> HIDE DEF rv
<1> QED BY <1>1, <1>3, <1>4, <1>2, TransactionTells DEF Exists

\* A new flight has an id without a history, and the lock of a signature is not recorded.
LEMMA CreateTells ==
  ASSUME LogInv, NEW f \in FlightIds, NEW row \in Row, CreateWithCrew(f, row), strict' = strict, switches' = switches
  PROVE  Explained' /\ VoidsLast' /\ HistoryShows'
<1>1. revs' = revs /\ revs[f] = <<>> /\ \A g \in FlightIds : g # f => flight'[g] = flight[g]
  BY DEF CreateWithCrew, LogInv, IInv, FlightsOK
<1>2. \A i \in 1 .. Len(revs[f]) : FALSE
  BY <1>1
<1>3. Explained'
  BY <1>1 DEF LogInv, Explained, ExplainedRev
<1>4. VoidsLast'
  BY <1>1, <1>2 DEF LogInv, VoidsLast
<1>5. \A g \in FlightIds : Differs(g) => Differs(g)'
  <2> SUFFICES ASSUME NEW g \in FlightIds, Differs(g) PROVE Differs(g)'
    OBVIOUS
  <2>1. CASE g = f
    BY <1>1, <1>2, <2>1 DEF Differs
  <2>2. CASE g # f
    BY <1>1, <2>2 DEF Differs
  <2> QED BY <2>1, <2>2
<1> QED BY <1>3, <1>4, <1>5 DEF LogInv, HistoryShows, OnlyOn

LEMMA LockTells ==
  ASSUME LogInv, NEW f \in FlightIds, SetSignatureLock(f)
  PROVE  Explained' /\ VoidsLast' /\ HistoryShows'
<1>1. flight[f] \in Row
  BY DEF SetSignatureLock, Exists, LogInv, IInv, FlightsOK
<1>2. flight' = [flight EXCEPT ![f] = [flight[f] EXCEPT !.sig = ~@]]
  BY DEF SetSignatureLock
<1>3. /\ \A g \in FlightIds : Recorded(flight'[g]) = Recorded(flight[g])
      /\ \A g \in FlightIds : flight[g] = NoFlight => flight'[g] = NoFlight
  BY <1>1, <1>2, LockNotRecorded, FlightLogAssumption DEF LogInv, IInv, FlightsOK
<1>4. revs' = revs /\ strict' = strict /\ switches' = switches
  BY DEF SetSignatureLock
<1>5. Explained' /\ VoidsLast'
  BY <1>3, <1>4 DEF LogInv, Explained, ExplainedRev, VoidsLast
<1>6. \A g \in FlightIds : Differs(g) => Differs(g)'
  BY <1>3, <1>4 DEF Differs
<1> QED BY <1>4, <1>5, <1>6 DEF LogInv, HistoryShows, OnlyOn

-----------------------------------------------------------------------------
(* Every step keeps the invariant. *)

LEMMA LogKeeps ==
  ASSUME LogInv, IInv', LogTypes', Explained', VoidsLast', HistoryShows', UNCHANGED <<strict, switches, licences>>,
         NEW p \in Procs, NEW r, Told(r),
         r.step = "create" /\ strict /\ Assess(licences).downward /\ r.row.over => r.row.night <= Calculated[r.row.time],
         req' = [req EXCEPT ![p] = r] \/ req' = req
  PROVE  LogInv'
<1>1. DOMAIN req = Procs
  BY DEF LogInv, IInv
<1>2. \A q \in Procs : req'[q] = req[q] \/ req'[q] = r
  BY <1>1
<1>3. \A q \in Procs : Told(req'[q])
  BY <1>2 DEF LogInv
<1>4. CreatesChecked'
  <2>1. Assess(licences)' = Assess(licences) /\ OnlyOff' = OnlyOff
    BY DEF Assess, OnlyOff
  <2> SUFFICES ASSUME strict, OnlyOff, Assess(licences).downward, NEW q \in Procs, req'[q].step = "create", req'[q].row.over
               PROVE  req'[q].row.night <= Calculated[req'[q].row.time]
    BY <2>1 DEF CreatesChecked
  <2>2. CASE req'[q] = req[q]
    BY <2>2 DEF LogInv, CreatesChecked
  <2>3. CASE req'[q] = r
    BY <2>3
  <2> QED BY <1>2, <2>2, <2>3
<1> QED BY <1>3, <1>4 DEF LogInv

LEMMA IdleTold == Told(Idle) /\ Idle.step # "create"
BY DEF Told, Idle

\* Requests that only read, wait or answer.
LEMMA LogReads ==
  ASSUME LogInv, IInv', UNCHANGED <<flight, revs, strict, switches, licences, certified, signed, today>>,
         served' \in 0 .. MaxRequests, NEW p \in Procs, NEW r, Told(r),
         r.step = "create" /\ strict /\ Assess(licences).downward /\ r.row.over => r.row.night <= Calculated[r.row.time],
         req' = [req EXCEPT ![p] = r]
  PROVE  LogInv'
<1>1. LogTypes'
  BY DEF LogInv, LogTypes
<1>2. Explained' /\ VoidsLast' /\ HistoryShows'
  BY HistoryStays
<1> QED BY <1>1, <1>2, LogKeeps

LEMMA ServedMore == ASSUME LogInv PROVE /\ served \in 0 .. MaxRequests
                                        /\ served < MaxRequests => served + 1 \in 0 .. MaxRequests
BY FlightLogAssumption DEF LogInv, LogTypes

LEMMA LogAnswers == ASSUME LogInv, NEW p \in Procs, Reply(p) PROVE LogInv'
<1>1. IInv'
  BY Answers DEF LogInv
<1> QED BY <1>1, IdleTold, ServedMore, LogReads DEF Reply, Finish

LEMMA LogProceeds ==
  ASSUME LogInv, NEW p \in Procs, NEW r, ReqOK(r), Told(r), Proceed(p, r),
         r.step = "create" /\ strict /\ Assess(licences).downward /\ r.row.over => r.row.night <= Calculated[r.row.time]
  PROVE  LogInv'
<1>1. IInv'
  BY Proceeds DEF LogInv
<1> QED BY <1>1, ServedMore, LogReads DEF Proceed

LEMMA LogServes ==
  ASSUME LogInv, NEW p \in Procs, NEW r, ReqOK(r), Serve(p, r),
         r.step \notin {"update", "delete", "create"}, r.step = "certify" => r.day \in Days
  PROVE  LogInv'
<1>1. IInv'
  BY Serves DEF LogInv
<1>2. Told(r)
  BY DEF Told
<1> QED BY <1>1, <1>2, ServedMore, LogReads DEF Serve

LEMMA ServiceTells ==
  ASSUME LogInv, NEW p \in Procs, NEW f \in FlightIds, NEW new \in Row, NEW withCrew,
         NEW source \in {"user_edit", "recalc"}, NEW reason \in {NoReason, Reason}, NEW next \in Copies,
         UpdateFlightWith(p, f, new, withCrew, source, reason, next)
  PROVE  LogInv'
<1> DEFINE cls == source = "user_edit" /\ ClassifyEditWith(LoadState, f, flight[f], new)
           told == IF source = "user_edit" /\ strict THEN reason ELSE NoReason
           cc == Change(source, told, IF cls THEN {f} ELSE {}, cls /\ reason = NoReason, f)
           r == [step |-> "update", f |-> f, new |-> new, withCrew |-> withCrew, next |-> next, cc |-> cc]
           again == [step |-> "recalc", copies |-> next]
<1>1. \/ Reply(p) \/ Proceed(p, again)
      \/ /\ Proceed(p, r) /\ Exists(f) /\ ~flight[f].sig
         /\ source = "user_edit" => CheckDownwardOverridesWith(LoadState, flight[f], new)
  BY DEF UpdateFlightWith
<1>2. ReqOK(again) /\ Told(again) /\ again.step # "create"
  BY DEF ReqOK, Told
<1>3. ChangeOK(cc)
  BY DEF ChangeOK, Change
<1>4. /\ cc.source = source /\ cc.reason = told /\ cc.corrections = (IF cls THEN {f} ELSE {})
      /\ cc.reject = (cls /\ reason = NoReason)
      /\ cc.seen = <<flight[f], LoadState, f \in signed, today>>
  BY DEF Change
<1> HIDE DEF cc
<1>5. ReqOK(r)
  BY <1>3 DEF ReqOK
<1>6. r.f = f /\ r.new = new /\ r.cc = cc /\ r.step = "update"
  OBVIOUS
<1> HIDE DEF r, again
<1>7. ASSUME ~flight[f].sig, source = "user_edit" => CheckDownwardOverridesWith(LoadState, flight[f], new)
      PROVE  EditTold(r)
  <2>1. cc.seen[1] = flight[f] /\ cc.seen[2] = LoadState /\ cc.seen[3] = (f \in signed) /\ cc.seen[4] = today
    BY <1>4
  <2>2. ASSUME source = "user_edit", ClassAt(cc.seen, new)
        PROVE  f \in cc.corrections /\ (cc.reject \/ cc.reason # NoReason)
    <3>1. LoadState.strict /\ LoadState.strict = strict
      BY <2>1, <2>2 DEF ClassAt, LoadState
    <3>2. cls
      BY <2>1, <2>2 DEF ClassAt, ClassifyEditWith, OutsideAt, outsideWindow
    <3>3. told = reason
      BY <2>2, <3>1
    <3> HIDE DEF cls, told
    <3> QED BY <1>4, <3>2, <3>3
  <2> QED BY <1>4, <1>6, <1>7, <2>1, <2>2 DEF EditTold
<1>8. CASE Proceed(p, r) /\ ~flight[f].sig /\ (source = "user_edit" => CheckDownwardOverridesWith(LoadState, flight[f], new))
  <2>1. Told(r) /\ r.step # "create"
    BY <1>6, <1>7, <1>8 DEF Told
  <2> QED BY <1>5, <1>8, <2>1, LogProceeds
<1> QED BY <1>1, <1>2, <1>8, LogAnswers, LogProceeds

LEMMA LogUpdateKeeps ==
  ASSUME LogInv, IInv', NEW p \in Procs, WriteUpdate(p)
  PROVE  LogInv'
<1> DEFINE f == req[p].f
           again == IF req[p].next = {} THEN Idle ELSE [step |-> "recalc", copies |-> req[p].next]
<1>1. f \in FlightIds /\ req[p].new \in Row /\ ChangeOK(req[p].cc) /\ req[p].step = "update" /\ update(p)
  BY DEF LogInv, IInv, ReqOK, WriteUpdate
<1>2. UNCHANGED <<strict, switches, licences, certified, signed, today, served>> /\ req' = [req EXCEPT ![p] = again]
  BY DEF WriteUpdate
<1>3. Explained' /\ VoidsLast' /\ HistoryShows'
  <2>1. CASE flight' = flight /\ revs' = revs
    BY <1>2, <2>1, HistoryStays
  <2>2. CASE /\ Exists(f) /\ ~(req[p].cc.reject /\ Changed(flight[f], updated(p)))
             /\ Commit({f}, [x \in {f} |-> updated(p)], req[p].cc)
    <3>1. flight[f] \in Row
      BY <1>1, <2>2 DEF LogInv, IInv, FlightsOK, Exists
    <3>2. updated(p) \in Row
      BY <1>1, <3>1 DEF updated, Row
    <3>3. strict /\ Changed(flight[f], updated(p)) => ExplainedRev(Revision(f, updated(p), req[p].cc))
      BY <1>1, <2>2, EditExplained
    <3> DEFINE new == [x \in {f} |-> updated(p)]
    <3>4. new[f] = updated(p) /\ {f} \in SUBSET FlightIds
      BY <1>1
    <3> HIDE DEF new
    <3>5. /\ \A x \in {f} : Exists(x) /\ new[x] \in Row \cup {NoFlight}
          /\ \A x \in {f} : strict /\ Changed(flight[x], new[x]) => ExplainedRev(Revision(x, new[x], req[p].cc))
      BY <2>2, <3>2, <3>3, <3>4
    <3>6. Commit({f}, new, req[p].cc)
      BY <2>2 DEF new
    <3> QED BY <1>1, <1>2, <3>4, <3>5, <3>6, CommitTells DEF ChangeOK
  <2> QED BY <1>1, <2>1, <2>2 DEF update
<1>4. Told(again) /\ again.step # "create"
  BY IdleTold DEF Told
<1> HIDE DEF again
<1>5. LogTypes'
  BY <1>2 DEF LogInv, LogTypes
<1> QED BY <1>2, <1>3, <1>4, <1>5, LogKeeps

LEMMA LogDeleteKeeps ==
  ASSUME LogInv, IInv', NEW p \in Procs, WriteDelete(p)
  PROVE  LogInv'
<1> DEFINE f == req[p].f
           new == [x \in {f} |-> NoFlight]
<1>1. f \in FlightIds /\ ChangeOK(req[p].cc) /\ req[p].step = "delete" /\ Delete(p)
  BY DEF LogInv, IInv, ReqOK, WriteDelete
<1>2. UNCHANGED <<strict, switches, licences, certified, signed, today, served>> /\ req' = [req EXCEPT ![p] = Idle]
  BY DEF WriteDelete, Finish
<1>3. Explained' /\ VoidsLast' /\ HistoryShows'
  <2>1. CASE flight' = flight /\ revs' = revs
    BY <1>2, <2>1, HistoryStays
  <2>2. CASE Exists(f) /\ Commit({f}, new, req[p].cc)
    <3>1. strict => ExplainedRev(Revision(f, NoFlight, req[p].cc))
      BY <1>1, <2>2, DeleteExplained
    <3>2. new[f] = NoFlight /\ {f} \in SUBSET FlightIds
      BY <1>1
    <3> HIDE DEF new
    <3>3. /\ \A x \in {f} : Exists(x) /\ new[x] \in Row \cup {NoFlight}
          /\ \A x \in {f} : strict /\ Changed(flight[x], new[x]) => ExplainedRev(Revision(x, new[x], req[p].cc))
      BY <2>2, <3>1, <3>2
    <3> QED BY <1>1, <1>2, <2>2, <3>2, <3>3, CommitTells DEF ChangeOK
  <2> QED BY <1>1, <2>1, <2>2 DEF Delete
<1>5. LogTypes'
  BY <1>2 DEF LogInv, LogTypes
<1> QED BY <1>2, <1>3, <1>5, IdleTold, LogKeeps

LEMMA LogRenameKeeps ==
  ASSUME LogInv, IInv', NEW p \in Procs, RenameContact(p)
  PROVE  LogInv'
<1> DEFINE F == {f \in FlightIds : Exists(f) /\ ~flight[f].sig}
           cc == [source |-> "contact_rename", reason |-> NoReason, corrections |-> {}, seen |-> NoFlight]
           new == [f \in F |-> [flight[f] EXCEPT !.crew = Renamed[@]]]
<1>1. Commit(F, new, cc) /\ UNCHANGED <<strict, switches, licences, certified, signed, today>> /\ req' = req
      /\ served < MaxRequests /\ served' = served + 1
  BY DEF RenameContact
<1>2. \A f \in F : Exists(f) /\ new[f] \in Row \cup {NoFlight}
  <2> TAKE f \in F
  <2>1. flight[f] \in Row
    BY DEF LogInv, IInv, FlightsOK, Exists
  <2>2. [flight[f] EXCEPT !.crew = Renamed[@]] \in Row
    BY <2>1, FlightLogAssumption DEF Row
  <2> QED BY <2>2
<1>3. cc.source = "contact_rename" /\ cc.reason = NoReason
  OBVIOUS
<1>4. F \in SUBSET FlightIds
  OBVIOUS
<1> HIDE DEF F, cc, new
<1>5. \A f \in F : ExplainedRev(Revision(f, new[f], cc))
  <2> TAKE f \in F
  <2>1. Revision(f, new[f], cc).due = FALSE
    BY <1>3 DEF Revision
  <2> QED BY <2>1 DEF ExplainedRev
<1>6. Explained' /\ VoidsLast' /\ HistoryShows'
  BY <1>1, <1>2, <1>3, <1>4, <1>5, CommitTells
<1>7. LogTypes'
  BY <1>1, ServedMore DEF LogInv, LogTypes
<1> QED BY <1>1, <1>6, <1>7, IdleTold, LogKeeps

\* The mode: an entry of its own for every switch.
LEMMA LogSwitchKeeps ==
  ASSUME LogInv, IInv', NEW on \in BOOLEAN, setStrict(on),
         UNCHANGED <<flight, revs, licences, certified, signed, today>>, served' \in 0 .. MaxRequests,
         NEW p \in Procs, req' = req \/ req' = [req EXCEPT ![p] = Idle]
  PROVE  LogInv'
<1>1. strict \in BOOLEAN /\ switches \in Seq(BOOLEAN)
  BY DEF LogInv, IInv, LogTypes
<1>2. CASE strict' = strict /\ switches' = switches
  <2>1. LogTypes'
    BY <1>2 DEF LogInv, LogTypes
  <2> QED BY <1>2, <2>1, HistoryStays, IdleTold, LogKeeps
<1>3. CASE strict' = on /\ strict # on /\ switches' = Append(switches, on)
  <2>1. switches' \in Seq(BOOLEAN) /\ Len(switches) \in Nat /\ Len(switches') = Len(switches) + 1 /\ switches'[Len(switches')] = on
        /\ \A i \in 1 .. Len(switches) : switches'[i] = switches[i]
    BY <1>1, <1>3
  <2>2. LogTypes'
    BY <2>1 DEF LogInv, LogTypes
  <2>3. Explained' /\ VoidsLast'
    BY DEF LogInv, Explained, ExplainedRev, VoidsLast
  <2>4. HistoryShows'
    <3> SUFFICES ASSUME OnlyOn', NEW f \in FlightIds PROVE Differs(f)'
      BY DEF HistoryShows
    <3>1. on
      BY <2>1 DEF OnlyOn
    <3>2. OnlyOn
      BY <2>1 DEF OnlyOn
    <3>3. Differs(f)
      BY <3>2 DEF LogInv, HistoryShows
    <3>4. strict = FALSE /\ strict' = TRUE
      BY <1>1, <1>3, <3>1
    <3> QED BY <3>3, <3>4 DEF Differs
  <2>5. CreatesChecked'
    <3>1. ~(strict' /\ OnlyOff')
      <4>1. OnlyOff' => ~on
        BY <2>1 DEF OnlyOff
      <4> QED BY <1>3, <4>1
    <3> QED BY <3>1 DEF CreatesChecked
  <2>6. \A q \in Procs : Told(req'[q])
    <3>1. \A q \in Procs : req'[q] = req[q] \/ req'[q] = Idle
      BY DEF LogInv, IInv
    <3> QED BY <3>1, IdleTold DEF LogInv
  <2> QED BY <2>2, <2>3, <2>4, <2>5, <2>6 DEF LogInv
<1> QED BY <1>1, <1>2, <1>3 DEF setStrict

LEMMA LogNextKeeps == ASSUME LogInv, [Next]_vars PROVE LogInv'
<1>0. IInv /\ IInv'
  BY NextIInv DEF LogInv
<1>1. ASSUME NEW p \in Procs, CreateFlight(p) PROVE LogInv'
  <2>1. PICK row \in NewRows : Serve(p, [step |-> "check", row |-> ApplyAutoCalculations(row)])
    BY <1>1 DEF CreateFlight
  <2>2. ReqOK([step |-> "check", row |-> ApplyAutoCalculations(row)])
    BY CalculatedRow, FlightLogAssumption DEF ReqOK
  <2> QED BY <2>1, <2>2, LogServes
<1>2. ASSUME NEW p \in Procs, CheckCreate(p) PROVE LogInv'
  <2> DEFINE r == [step |-> "create", row |-> req[p].row]
  <2>1. ReqOK(r) /\ Told(r) /\ r.row = req[p].row /\ req[p].row \in Row
    BY <1>0, <1>2 DEF CheckCreate, IInv, ReqOK, Told
  <2>2. Reply(p) \/ (Proceed(p, r) /\ CheckDownwardOverridesWith(LoadState, NoOverride, req[p].row))
    BY <1>2 DEF CheckCreate, CreateFlightChecked
  <2> HIDE DEF r
  <2>3. CheckDownwardOverridesWith(LoadState, NoOverride, req[p].row) =>
          (strict /\ Assess(licences).downward /\ r.row.over => r.row.night <= Calculated[r.row.time])
    <3>1. LoadState.strict = strict /\ LoadState.rules = Assess(licences)
      BY DEF LoadState
    <3>2. r.row.over => hasOverride(r.row) /\ overrideChanged(NoOverride, r.row)
      BY DEF hasOverride, overrideChanged, NoOverride
    <3> QED BY <2>1, <3>1, <3>2 DEF CheckDownwardOverridesWith
  <2> QED BY <2>1, <2>2, <2>3, LogProceeds, LogAnswers
<1>3. ASSUME NEW p \in Procs, WriteCreate(p) PROVE LogInv'
  <2>1. req[p].row \in Row
    BY <1>0, <1>3 DEF WriteCreate, IInv, ReqOK
  <2>2. /\ UNCHANGED <<strict, switches, licences, certified, signed, today, served>> /\ req' = [req EXCEPT ![p] = Idle]
        /\ \E f \in FlightIds : CreateWithCrew(f, req[p].row)
    BY <1>3 DEF WriteCreate, Finish
  <2>3. LogTypes'
    BY <2>2 DEF LogInv, LogTypes
  <2> QED BY <1>0, <2>1, <2>2, <2>3, CreateTells, IdleTold, LogKeeps
<1>4. ASSUME NEW p \in Procs, UpdateFlight(p) PROVE LogInv'
  <2>1. PICK f \in FlightIds, patch \in Patches, r \in {NoReason, Reason} :
          /\ Exists(f)
          /\ Serve(p, [step |-> "patched", f |-> f, new |-> applyPatch(flight[f], patch),
                       withCrew |-> "crew" \in DOMAIN patch, reason |-> r])
    BY <1>4 DEF UpdateFlight
  <2>2. applyPatch(flight[f], patch) \in Row
    BY <1>0, <2>1, PatchedRow DEF IInv, FlightsOK, Exists
  <2>3. ReqOK([step |-> "patched", f |-> f, new |-> applyPatch(flight[f], patch),
               withCrew |-> "crew" \in DOMAIN patch, reason |-> r])
    BY <2>2 DEF ReqOK
  <2> QED BY <2>1, <2>3, LogServes
<1>5. ASSUME NEW p \in Procs, CheckUpdate(p) PROVE LogInv'
  <2>1. req[p].f \in FlightIds /\ req[p].new \in Row /\ req[p].reason \in {NoReason, Reason}
    BY <1>0, <1>5 DEF CheckUpdate, IInv, ReqOK
  <2>2. {} \in Copies
    BY DEF Copies
  <2> QED BY <1>5, <2>1, <2>2, ServiceTells DEF CheckUpdate
<1>6. ASSUME NEW p \in Procs, WriteUpdate(p) PROVE LogInv'
  BY <1>0, <1>6, LogUpdateKeeps
<1>7. ASSUME NEW p \in Procs, DeleteFlight(p) PROVE LogInv'
  <2>1. PICK f \in FlightIds, r \in {NoReason, Reason} : Serve(p, [step |-> "deleting", f |-> f, reason |-> r])
    BY <1>7 DEF DeleteFlight
  <2>2. ReqOK([step |-> "deleting", f |-> f, reason |-> r])
    BY DEF ReqOK
  <2> QED BY <2>1, <2>2, LogServes
<1>8. ASSUME NEW p \in Procs, CheckDelete(p) PROVE LogInv'
  <2> DEFINE f == req[p].f
             cls == ClassifyEditWith(LoadState, f, flight[f], NoFlight)
             cc == Change("user_edit", req[p].reason, IF cls THEN {f} ELSE {}, FALSE, f)
             r == [step |-> "delete", f |-> f, cc |-> cc]
  <2>1. f \in FlightIds /\ req[p].reason \in {NoReason, Reason}
    BY <1>0, <1>8 DEF CheckDelete, IInv, ReqOK
  <2>2. Reply(p) \/ (Proceed(p, r) /\ ~flight[f].sig)
    BY <1>8 DEF CheckDelete, DeleteFlightWithReason
  <2>3. /\ ChangeOK(cc) /\ cc.corrections = (IF cls THEN {f} ELSE {})
        /\ cc.seen = <<flight[f], LoadState, f \in signed, today>>
    BY <2>1 DEF ChangeOK, Change
  <2> HIDE DEF cc
  <2>4. ReqOK(r) /\ r.step = "delete" /\ r.cc = cc /\ r.f = f
    BY <2>1, <2>3 DEF ReqOK
  <2> HIDE DEF r
  <2>5. ~flight[f].sig => Told(r)
    <3>1. cc.seen[1] = flight[f] /\ cc.seen[2] = LoadState /\ cc.seen[3] = (f \in signed) /\ cc.seen[4] = today
      BY <2>3
    <3>2. ClassAt(cc.seen, NoFlight) => cls
      BY <3>1 DEF ClassAt, ClassifyEditWith, OutsideAt, outsideWindow
    <3> HIDE DEF cls
    <3> QED BY <2>3, <2>4, <3>1, <3>2 DEF Told, DeleteTold
  <2> QED BY <2>2, <2>4, <2>5, LogAnswers, LogProceeds
<1>9. ASSUME NEW p \in Procs, WriteDelete(p) PROVE LogInv'
  BY <1>0, <1>9, LogDeleteKeeps
<1>10. ASSUME NEW p \in Procs, DeleteAllFlights(p) PROVE LogInv'
  <2>1. /\ DeleteAllByUserID /\ UNCHANGED <<strict, switches, licences, certified, signed, today>> /\ req' = req
        /\ served < MaxRequests /\ served' = served + 1
    BY <1>10 DEF DeleteAllFlights
  <2>2. LogTypes'
    BY <2>1, ServedMore DEF LogInv, LogTypes
  <2> QED BY <1>0, <2>1, <2>2, DeleteAllTells, IdleTold, LogKeeps
<1>11. ASSUME NEW p \in Procs, RecalculateFlights(p) PROVE LogInv'
  <2> DEFINE F == {f \in FlightIds : Exists(f)}
             copies == {<<f, ApplyAutoCalculations(flight[f])>> : f \in F}
  <2>1. Serve(p, [step |-> "recalc", copies |-> copies])
    BY <1>11 DEF RecalculateFlights
  <2>2. \A f \in F : ApplyAutoCalculations(flight[f]) \in Row
    BY <1>0, CalculatedRow DEF IInv, FlightsOK, Exists
  <2>3. copies \in Copies
    BY <2>2 DEF Copies
  <2> HIDE DEF copies
  <2>4. ReqOK([step |-> "recalc", copies |-> copies])
    BY <2>3 DEF ReqOK
  <2> QED BY <2>1, <2>4, LogServes
<1>12. ASSUME NEW p \in Procs, RecalculateOne(p) PROVE LogInv'
  <2>1. req[p].copies \in Copies
    BY <1>0, <1>12 DEF RecalculateOne, IInv, ReqOK
  <2>2. PICK c \in req[p].copies :
          UpdateFlightWith(p, c[1], c[2], FALSE, "recalc", NoReason, req[p].copies \ {c})
    BY <1>12 DEF RecalculateOne
  <2>3. c[1] \in FlightIds /\ c[2] \in Row /\ req[p].copies \ {c} \in Copies
    BY <2>1 DEF Copies
  <2> QED BY <2>2, <2>3, ServiceTells
<1>13. ASSUME NEW p \in Procs, RenameContact(p) PROVE LogInv'
  BY <1>0, <1>13, LogRenameKeeps
<1>14. ASSUME NEW p \in Procs, UpdateLogbookMode(p) PROVE LogInv'
  BY <1>0, <1>14, ServedMore, LogSwitchKeeps DEF UpdateLogbookMode
<1>15. ASSUME NEW p \in Procs, SyncFromLicences(p) PROVE LogInv'
  <2>1. ReqOK([step |-> "sync"])
    BY DEF ReqOK
  <2> QED BY <1>15, <2>1, LogServes DEF SyncFromLicences
<1>16. ASSUME NEW p \in Procs, SwitchOn(p) PROVE LogInv'
  <2>1. setStrict(TRUE) /\ UNCHANGED <<flight, revs, licences, certified, signed, today>> /\ served' = served
        /\ req' = [req EXCEPT ![p] = Idle]
    BY <1>16 DEF SwitchOn, Finish
  <2> QED BY <1>0, <2>1, ServedMore, LogSwitchKeeps
<1>17. ASSUME NEW p \in Procs, CreateCertification(p) PROVE LogInv'
  <2>1. PICK d \in 1 .. today : Serve(p, [step |-> "certify", day |-> d])
    BY <1>17 DEF CreateCertification
  <2>2. ReqOK([step |-> "certify", day |-> d])
    BY DEF ReqOK
  <2>3. d \in Days
    BY FlightLogAssumption DEF LogInv, LogTypes, Days
  <2> QED BY <2>1, <2>2, <2>3, LogServes
<1>18. ASSUME NEW p \in Procs, WriteCertification(p) PROVE LogInv'
  <2>1. /\ certified' = certified \cup {req[p].day} /\ req' = [req EXCEPT ![p] = Idle]
        /\ UNCHANGED <<flight, revs, strict, switches, licences, signed, today, served>>
    BY <1>18 DEF WriteCertification, Finish
  <2>2. req[p].day \in Days
    BY <1>18 DEF WriteCertification, LogInv, Told
  <2>3. LogTypes'
    BY <2>1, <2>2 DEF LogInv, LogTypes
  <2> QED BY <1>0, <2>1, <2>3, HistoryStays, IdleTold, LogKeeps
<1>19. ASSUME NEW f \in FlightIds, SetSignatureLock(f) PROVE LogInv'
  <2>1. signed' = signed \cup {f} /\ UNCHANGED <<strict, switches, licences, certified, today, req, served>>
    BY <1>19 DEF SetSignatureLock
  <2>2. LogTypes'
    BY <2>1 DEF LogInv, LogTypes
  <2>3. Explained' /\ VoidsLast' /\ HistoryShows'
    BY <1>19, LockTells
  <2>4. Assess(licences)' = Assess(licences) /\ OnlyOff' = OnlyOff
    BY <2>1 DEF Assess, OnlyOff
  <2>5. CreatesChecked' /\ \A q \in Procs : Told(req'[q])
    BY <2>1, <2>4 DEF LogInv, CreatesChecked
  <2> QED BY <1>0, <2>2, <2>3, <2>5 DEF LogInv
<1>20. ASSUME UNCHANGED <<flight, revs, strict, switches, licences, certified, signed, req, served>>, today' \in Days PROVE LogInv'
  <2>1. LogTypes'
    BY <1>20 DEF LogInv, LogTypes
  <2>2. Explained' /\ VoidsLast' /\ HistoryShows'
    BY <1>20, HistoryStays
  <2>4. Assess(licences)' = Assess(licences) /\ OnlyOff' = OnlyOff
    BY <1>20 DEF Assess, OnlyOff
  <2>5. CreatesChecked' /\ \A q \in Procs : Told(req'[q])
    BY <1>20, <2>4 DEF LogInv, CreatesChecked
  <2> QED BY <1>0, <2>1, <2>2, <2>5 DEF LogInv
<1>21. CASE Tick
  <2>1. today' \in Days
    BY <1>21, FlightLogAssumption DEF Tick, LogInv, LogTypes, Days
  <2> QED BY <1>20, <1>21, <2>1 DEF Tick
<1>22. CASE UNCHANGED vars
  <2>1. today' \in Days
    BY <1>22 DEF vars, LogInv, LogTypes
  <2> QED BY <1>20, <1>22, <2>1 DEF vars
<1> QED
  BY <1>1, <1>2, <1>3, <1>4, <1>5, <1>6, <1>7, <1>8, <1>9, <1>10, <1>11, <1>12, <1>13, <1>14,
     <1>15, <1>16, <1>17, <1>18, <1>19, <1>21, <1>22 DEF Next

LEMMA LogInitially == ASSUME Init PROVE LogInv
<1>1. IInv
  BY InitIInv
<1>2. PICK s \in Starts : today = s.today
  BY DEF Init
<1>3. LogTypes
  BY <1>2, FlightLogAssumption DEF Init, LogTypes
<1>4. \A p \in Procs : Told(req[p]) /\ req[p].step # "create"
  BY IdleTold DEF Init
<1>5. \A f \in FlightIds : revs[f] = <<>>
  BY DEF Init
<1>6. Explained /\ VoidsLast /\ HistoryShows
  BY <1>5 DEF Explained, VoidsLast, HistoryShows, Differs
<1> QED BY <1>1, <1>3, <1>4, <1>6 DEF LogInv, CreatesChecked

LEMMA LogInvSays ==
  ASSUME LogInv
  PROVE  TypeOK /\ CorrectionsExplained /\ NoEmptyRevision
<1>1. \A f \in FlightIds : revs[f] \in Seq(Revisions) /\ flight[f] \in Row \cup {NoFlight}
  BY DEF LogInv, IInv, RevsOK, FlightsOK
<1>2. \A f \in FlightIds : \A i \in 1 .. Len(revs[f]) : revs[f][i] \in Revisions /\ revs[f][i].snap \in States
  <2> SUFFICES ASSUME NEW f \in FlightIds, NEW i \in 1 .. Len(revs[f])
               PROVE  revs[f][i] \in Revisions /\ revs[f][i].snap \in States
    OBVIOUS
  <2>1. revs[f][i] \in Revisions
    BY <1>1
  <2> QED BY <2>1 DEF Revisions
<1>3. TypeOK
  BY <1>2 DEF TypeOK, LogInv, IInv, FlightsOK, LogTypes, VoidsLast
<1>4. CorrectionsExplained
  BY DEF LogInv, Explained, ExplainedRev, CorrectionsExplained
<1>5. ASSUME NEW a \in States, NEW b \in States, a # b PROVE {c \in DOMAIN a : a[c] # b[c]} # {}
  <2>1. PICK r \in Row : a = Recorded(r)
    BY <1>5 DEF States
  <2>2. PICK s \in Row : b = Recorded(s)
    BY <1>5 DEF States
  <2>3. r # NoFlight /\ s # NoFlight /\ DOMAIN r = DOMAIN s
    BY FlightLogAssumption DEF Row
  <2>4. a = [c \in (DOMAIN r) \ {"sig"} |-> r[c]] /\ b = [c \in (DOMAIN r) \ {"sig"} |-> s[c]]
    BY <2>1, <2>2, <2>3 DEF Recorded
  <2> QED BY <1>5, <2>4
<1>6. NoEmptyRevision
  <2> SUFFICES ASSUME OnlyOn, NEW f \in FlightIds, NEW i \in 1 .. Len(revs[f]), revs[f][i].kind = "update"
               PROVE  Changes(f, i) # {}
    BY DEF NoEmptyRevision, OnlyOn
  <2> DEFINE after == IF i < Len(revs[f]) THEN revs[f][i + 1].snap ELSE Recorded(flight[f])
  <2>1. Differs(f)
    BY DEF LogInv, HistoryShows
  <2>2. Len(revs[f]) \in Nat /\ revs[f] # <<>> /\ revs[f][i].snap \in States
    BY <1>1, <1>2
  <2>3. after \in States /\ after # revs[f][i].snap
    <3>1. CASE i < Len(revs[f])
      <4>1. i + 1 \in 1 .. Len(revs[f])
        BY <2>2, <3>1
      <4> QED BY <1>2, <2>1, <3>1, <4>1 DEF Differs
    <3>2. CASE i = Len(revs[f])
      <4>1. Recorded(flight[f]) \notin {NoFlight, revs[f][i].snap}
        BY <2>1, <2>2, <3>2 DEF Differs
      <4>2. flight[f] # NoFlight
        BY <4>1, RecordedNoFlight
      <4>3. Recorded(flight[f]) \in States
        BY <1>1, <4>2, RecordedRow
      <4> QED BY <2>2, <3>2, <4>1, <4>3
    <3> QED BY <2>2, <3>1, <3>2
  <2>4. after # NoFlight
    BY <2>3, FlightLogAssumption
  <2> HIDE DEF after
  <2>5. {c \in DOMAIN after : after[c] # revs[f][i].snap[c]} # {}
    BY <1>5, <2>2, <2>3
  <2> QED BY <2>4, <2>5 DEF Changes, after
<1> QED BY <1>3, <1>4, <1>6

-----------------------------------------------------------------------------
(* What no write of a flight does. *)

FlightWritesRight == SignedKeptStep /\ OverridesDownwardStep

\* A step that changes at most the crew or the lock of a flight, and the crew of unsigned ones.
LEMMA HarmlessWrite ==
  ASSUME \A f \in FlightIds :
           \/ flight'[f] = flight[f]
           \/ /\ Exists(f) /\ flight'[f].over = flight[f].over /\ flight'[f].night = flight[f].night
              /\ (~flight[f].sig \/ ~Changed(flight[f], flight'[f]))
  PROVE  FlightWritesRight
<1>1. SignedKeptStep
  BY DEF SignedKeptStep, Changed
<1>2. OverridesDownwardStep
  BY DEF OverridesDownwardStep, overrideChanged
<1> QED BY <1>1, <1>2 DEF FlightWritesRight

LEMMA CreateWrites ==
  ASSUME LogInv, NEW p \in Procs, WriteCreate(p)
  PROVE  FlightWritesRight
<1>1. PICK g \in FlightIds : CreateWithCrew(g, req[p].row)
  BY DEF WriteCreate
<1>2. req[p].step = "create" /\ req[p].row \in Row /\ req' = [req EXCEPT ![p] = Idle]
  BY DEF WriteCreate, Finish, LogInv, IInv, ReqOK
<1>3. ~Exists(g) /\ flight'[g] = req[p].row /\ \A f \in FlightIds \ {g} : flight'[f] = flight[f]
  BY <1>1 DEF CreateWithCrew, LogInv, IInv, FlightsOK
<1>4. SignedKeptStep
  BY <1>3 DEF SignedKeptStep, Changed
<1>5. OverridesDownwardStep
  <2> SUFFICES ASSUME strict, Assess(licences).downward, overrideChanged(NoOverride, req[p].row), OnlyOff
               PROVE  req[p].row.night <= Calculated[req[p].row.time]
    <3>1. req'[p] # req[p]
      BY <1>2 DEF Idle, LogInv, IInv
    <3> QED BY <1>2, <1>3, <3>1 DEF OverridesDownwardStep, OnlyOff
  <2>1. req[p].row.over
    BY DEF overrideChanged
  <2> QED BY <1>2, <2>1 DEF LogInv, CreatesChecked
<1> QED BY <1>4, <1>5 DEF FlightWritesRight

LEMMA UpdateWrites ==
  ASSUME LogInv, NEW p \in Procs, WriteUpdate(p)
  PROVE  FlightWritesRight
<1> DEFINE g == req[p].f
           again == IF req[p].next = {} THEN Idle ELSE [step |-> "recalc", copies |-> req[p].next]
<1>1. /\ g \in FlightIds /\ req[p].new \in Row /\ req[p].step = "update" /\ update(p) /\ EditTold(req[p])
      /\ req' = [req EXCEPT ![p] = again]
  BY DEF LogInv, IInv, ReqOK, Told, WriteUpdate
<1>2. CASE flight' = flight
  BY <1>2, HarmlessWrite
<1>3. CASE Exists(g) /\ Commit({g}, [x \in {g} |-> updated(p)], req[p].cc)
  <2>1. flight[g] \in Row
    BY <1>1, <1>3 DEF LogInv, IInv, FlightsOK, Exists
  <2>2. /\ updated(p).night = req[p].new.night /\ updated(p).over = req[p].new.over
        /\ updated(p).time = req[p].new.time
    BY <1>1, <2>1 DEF updated, Row
  <2>3. flight'[g] = updated(p) /\ \A f \in FlightIds \ {g} : flight'[f] = flight[f]
    BY <1>1, <1>3 DEF Commit
  <2>4. SignedKeptStep
    BY <1>1, <2>3 DEF SignedKeptStep, Changed, EditTold
  <2>5. OverridesDownwardStep
    <3>1. req'[p] # req[p]
      <4>1. again.step # "update"
        BY DEF Idle
      <4> HIDE DEF again
      <4> QED BY <1>1, <4>1 DEF LogInv, IInv
    <3> SUFFICES ASSUME strict, Assess(licences).downward, overrideChanged(flight[g], updated(p)),
                        req[p].cc.source = "user_edit", req[p].cc.seen = <<flight[g], LoadState, g \in signed, today>>
                 PROVE  req[p].new.night <= Calculated[req[p].new.time]
      BY <1>1, <1>3, <2>2, <2>3, <3>1 DEF OverridesDownwardStep
    <3>2. CheckDownwardOverridesWith(LoadState, flight[g], req[p].new)
      BY <1>1 DEF EditTold
    <3>3. LoadState.strict = strict /\ LoadState.rules = Assess(licences)
      BY DEF LoadState
    <3>4. hasOverride(req[p].new) /\ overrideChanged(flight[g], req[p].new)
      BY <2>2 DEF hasOverride, overrideChanged
    <3> QED BY <3>2, <3>3, <3>4 DEF CheckDownwardOverridesWith
  <2> QED BY <2>4, <2>5 DEF FlightWritesRight
<1> QED BY <1>1, <1>2, <1>3 DEF update

LEMMA DeleteWrites ==
  ASSUME LogInv, NEW p \in Procs, WriteDelete(p)
  PROVE  FlightWritesRight
<1> DEFINE g == req[p].f
<1>1. g \in FlightIds /\ req[p].step = "delete" /\ Delete(p) /\ DeleteTold(req[p])
  BY DEF LogInv, IInv, ReqOK, Told, WriteDelete
<1>2. CASE flight' = flight
  BY <1>2, HarmlessWrite
<1>3. CASE Exists(g) /\ Commit({g}, [x \in {g} |-> NoFlight], req[p].cc)
  <2>1. flight'[g] = NoFlight /\ \A f \in FlightIds \ {g} : flight'[f] = flight[f]
    BY <1>1, <1>3 DEF Commit
  <2>2. SignedKeptStep
    BY <1>1, <2>1 DEF SignedKeptStep, Changed, DeleteTold
  <2>3. OverridesDownwardStep
    BY <2>1 DEF OverridesDownwardStep
  <2> QED BY <2>2, <2>3 DEF FlightWritesRight
<1> QED BY <1>1, <1>2, <1>3 DEF Delete

LEMMA FlightWritesKeep == ASSUME LogInv, Next PROVE FlightWritesRight
<1>1. ASSUME flight' = flight PROVE FlightWritesRight
  BY <1>1, HarmlessWrite
<1>2. ASSUME NEW p \in Procs, NEW r, Reply(p) \/ Proceed(p, r) \/ Serve(p, r) PROVE flight' = flight
  BY <1>2 DEF Reply, Proceed, Serve
<1>3. ASSUME NEW p \in Procs, CreateFlight(p) \/ CheckCreate(p) \/ UpdateFlight(p) \/ DeleteFlight(p) \/ CheckDelete(p)
      PROVE  flight' = flight
  BY <1>2, <1>3, Zenon DEF CreateFlight, CheckCreate, CreateFlightChecked, UpdateFlight, DeleteFlight, CheckDelete,
     DeleteFlightWithReason
<1>4. ASSUME NEW p \in Procs, CheckUpdate(p) \/ RecalculateFlights(p) \/ RecalculateOne(p) PROVE flight' = flight
  BY <1>2, <1>4, Zenon DEF CheckUpdate, UpdateFlightWith, RecalculateFlights, RecalculateOne
<1>5. ASSUME NEW p \in Procs, \/ UpdateLogbookMode(p) \/ SyncFromLicences(p) \/ SwitchOn(p)
                              \/ CreateCertification(p) \/ WriteCertification(p)
      PROVE  flight' = flight
  BY <1>2, <1>5, Zenon DEF UpdateLogbookMode, SyncFromLicences, SwitchOn, CreateCertification, WriteCertification
<1>6. Tick => flight' = flight
  BY DEF Tick
<1>7. ASSUME NEW p \in Procs, DeleteAllFlights(p) PROVE FlightWritesRight
  <2>1. \A f \in FlightIds : flight'[f] = NoFlight
    BY <1>7 DEF DeleteAllFlights, DeleteAllByUserID
  <2> QED BY <2>1 DEF FlightWritesRight, SignedKeptStep, OverridesDownwardStep
<1>8. ASSUME NEW p \in Procs, RenameContact(p) PROVE FlightWritesRight
  <2> DEFINE F == {f \in FlightIds : Exists(f) /\ ~flight[f].sig}
  <2>1. \A f \in FlightIds : flight'[f] = IF f \in F THEN [flight[f] EXCEPT !.crew = Renamed[@]] ELSE flight[f]
    BY <1>8 DEF RenameContact, Commit
  <2>2. \A f \in F : flight[f] \in Row
    BY DEF LogInv, IInv, FlightsOK, Exists
  <2>3. \A f \in F : flight'[f].over = flight[f].over /\ flight'[f].night = flight[f].night
    BY <2>1, <2>2 DEF Row
  <2> QED BY <2>1, <2>3, HarmlessWrite
<1>9. ASSUME NEW f \in FlightIds, SetSignatureLock(f) PROVE FlightWritesRight
  <2>1. flight[f] \in Row /\ Exists(f)
    BY <1>9 DEF SetSignatureLock, Exists, LogInv, IInv, FlightsOK
  <2>2. flight' = [flight EXCEPT ![f] = [flight[f] EXCEPT !.sig = ~@]]
    BY <1>9 DEF SetSignatureLock
  <2>3. flight'[f] = [flight[f] EXCEPT !.sig = ~@] /\ \A g \in FlightIds \ {f} : flight'[g] = flight[g]
    BY <2>2 DEF LogInv, IInv, FlightsOK
  <2>4. ~Changed(flight[f], flight'[f])
    BY <2>1, <2>3, LockNotRecorded DEF Changed
  <2>5. flight'[f].over = flight[f].over /\ flight'[f].night = flight[f].night
    BY <2>1, <2>3 DEF Row
  <2> QED BY <2>1, <2>3, <2>4, <2>5, HarmlessWrite
<1> QED BY <1>1, <1>3, <1>4, <1>5, <1>6, <1>7, <1>8, <1>9, CreateWrites, UpdateWrites, DeleteWrites, Zenon DEF Next

-----------------------------------------------------------------------------
(* Restored backups. *)

RevisionRow == [owner : Users, kind : {"update", "delete"}, snap : FileFlight]
FileRevision == [kind : {"update", "delete"}, snap : FileFlight]
NoVoid(s) == \A n \in 1 .. Len(s) : s[n].kind # "delete"
FlightIdSet == 1 .. MaxId

BackTypes ==
  /\ flights \in [FlightIdSet -> Back!Flight \cup {Nothing}] /\ nextId \in 1 .. MaxId + 1
  /\ backupRevs \in [FlightIdSet -> Seq(RevisionRow)]
  /\ (DOMAIN account) = Users /\ (\A u \in Users : AccountOK(account[u])) /\ (DOMAIN job) = Users
  /\ \A i \in FlightIdSet : i >= nextId => flights[i] = Nothing /\ backupRevs[i] = <<>>

SameRevision(r, s) == r.kind = s.kind /\ r.snap = s.snap
\* A file names ids that were given out, and what it has of a flight's history is the beginning
\* of what the account has of it.
FileOK(x) ==
  /\ ContentOK(x.content) /\ (DOMAIN x.content.flights) \subseteq 1 .. nextId - 1
  /\ (DOMAIN x.logbook.revs) \subseteq 1 .. nextId - 1
  /\ \A o \in DOMAIN x.logbook.revs :
       /\ x.logbook.revs[o] \in Seq(FileRevision)
       /\ Len(x.logbook.revs[o]) <= Len(backupRevs[o])
       /\ \A n \in 1 .. Len(x.logbook.revs[o]) : SameRevision(x.logbook.revs[o][n], backupRevs[o][n])

\* An export has read flights that were there; a restore into an empty account still finds no
\* contacts, and a replacement began without a signed flight.
BackJobOK(u) ==
  /\ job[u].step = "gather" =>
       /\ ContentOK(job[u].content) /\ (DOMAIN job[u].content.flights) \subseteq 1 .. nextId - 1
       /\ (DOMAIN job[u].content.flights) = (DOMAIN job[u].seen[1])
  /\ job[u].step = "apply" =>
       /\ job[u].file \in backupFiles
       /\ \/ job[u].mode = "replace" /\ job[u].sigs = {}
          \/ job[u].mode = "restore" /\ account[u].contacts = {}

OneOwner(i) ==
  /\ \A n, m \in 1 .. Len(backupRevs[i]) : backupRevs[i][n].owner = backupRevs[i][m].owner
  /\ flights[i] # Nothing => \A n \in 1 .. Len(backupRevs[i]) : backupRevs[i][n].owner = flights[i].owner

CrewLinked == \A i \in FlightIdSet : flights[i] # Nothing /\ flights[i].link # Nothing =>
                \E n \in account[flights[i].owner].contacts : KeyOf[n] = flights[i].link

\* While no file was read in the middle of a change, no file has both a flight and its voiding,
\* and neither has an account.
AllWhole == \A x \in backupFiles : ~x.torn
VoidsGone == \A i \in FlightIdSet : flights[i] # Nothing => NoVoid(backupRevs[i])
WholeFiles == \A x \in backupFiles : \A o \in (DOMAIN x.content.flights) \cap (DOMAIN x.logbook.revs) : NoVoid(x.logbook.revs[o])

BackInv == /\ BackTypes /\ (\A x \in backupFiles : FileOK(x)) /\ (\A u \in Users : BackJobOK(u))
           /\ (\A i \in FlightIdSet : OneOwner(i)) /\ CrewLinked /\ (AllWhole => WholeFiles /\ VoidsGone)

LEMMA FileLength ==
  ASSUME NEW x, FileOK(x), NEW o \in DOMAIN x.logbook.revs
  PROVE  Len(x.logbook.revs[o]) \in Nat
<1>1. x.logbook.revs[o] \in Seq(FileRevision)
  BY DEF FileOK
<1> HIDE DEF FileOK
<1> QED BY <1>1

Grows(i) == \A n \in 1 .. Len(backupRevs[i]) : n <= Len(backupRevs'[i]) /\ backupRevs'[i][n] = backupRevs[i][n]

LEMMA BackIds == Back!IdSet = FlightIdSet /\ MaxId \in Nat
BY RestoreAssumption DEF Back!IdSet, FlightIdSet

\* What was given out stays given out.
LEMMA Below ==
  ASSUME NEW a \in Nat, NEW b \in Nat, a <= b
  PROVE  \A m \in Nat : a \in 1 .. m + 1 => 1 .. a - 1 \subseteq 1 .. b - 1 /\ 1 .. a - 1 \subseteq 1 .. m
OBVIOUS

LEMMA FileStays ==
  ASSUME BackInv, nextId' \in Nat, nextId' >= nextId, \A i \in FlightIdSet : Grows(i),
         backupRevs' \in [FlightIdSet -> Seq(RevisionRow)], NEW x \in backupFiles
  PROVE  FileOK(x)'
<1>1. FileOK(x) /\ nextId \in 1 .. MaxId + 1
  BY DEF BackInv, BackTypes
<1>2. 1 .. nextId - 1 \subseteq 1 .. nextId' - 1 /\ 1 .. nextId - 1 \subseteq FlightIdSet
  <2>1. MaxId \in Nat /\ nextId \in 1 .. MaxId + 1
    BY <1>1, BackIds
  <2>2. nextId \in Nat
    BY <2>1
  <2>3. nextId <= nextId'
    BY <2>2
  <2> QED BY <2>1, <2>2, <2>3, Below, Zenon DEF FlightIdSet
<1>3. ASSUME NEW o \in DOMAIN x.logbook.revs
      PROVE  /\ Len(x.logbook.revs[o]) <= Len(backupRevs'[o])
             /\ \A n \in 1 .. Len(x.logbook.revs[o]) : SameRevision(x.logbook.revs[o][n], backupRevs'[o][n])
  <2>1. /\ o \in FlightIdSet /\ x.logbook.revs[o] \in Seq(FileRevision) /\ Len(x.logbook.revs[o]) <= Len(backupRevs[o])
        /\ \A n \in 1 .. Len(x.logbook.revs[o]) : SameRevision(x.logbook.revs[o][n], backupRevs[o][n])
    BY <1>1, <1>2 DEF FileOK
  <2>2. /\ backupRevs[o] \in Seq(RevisionRow) /\ backupRevs'[o] \in Seq(RevisionRow)
        /\ Len(backupRevs[o]) \in Nat /\ Len(backupRevs'[o]) \in Nat /\ Len(x.logbook.revs[o]) \in Nat
    BY <2>1 DEF BackInv, BackTypes
  <2>3. Grows(o)
    BY <2>1
  <2>4. Len(backupRevs[o]) <= Len(backupRevs'[o])
    BY <2>2, <2>3 DEF Grows
  <2>5. Len(x.logbook.revs[o]) <= Len(backupRevs'[o])
    BY <2>1, <2>2, <2>4
  <2>6. \A n \in 1 .. Len(x.logbook.revs[o]) : n \in 1 .. Len(backupRevs[o])
    BY <2>1, <2>2
  <2> QED BY <2>1, <2>3, <2>5, <2>6 DEF Grows
<1> QED BY <1>1, <1>2, <1>3 DEF FileOK

\* At its commit a transaction adds to the history of what it touched, while the owner is strict:
\* a voiding when the flight is gone and an update when it differs.
Finalized(F, after, have, T) ==
  /\ T \in [FlightIdSet -> Seq(RevisionRow)]
  /\ \A i \in FlightIdSet :
       /\ Len(have[i]) \in Nat /\ Len(have[i]) <= Len(T[i])
       /\ \A n \in 1 .. Len(have[i]) : T[i][n] = have[i][n]
       /\ \A n \in 1 .. Len(T[i]) : n > Len(have[i]) =>
            T[i][n].owner = flights[i].owner /\ (after[i] # Nothing => T[i][n].kind = "update")
       /\ i \notin F => T[i] = have[i]
       /\ after[i] # Nothing /\ Back!Snap(after[i]) = Back!Snap(flights[i]) => T[i] = have[i]
LEMMA FinalizeSays ==
  ASSUME BackInv, NEW F \in SUBSET FlightIdSet, \A i \in F : flights[i] # Nothing,
         NEW after, NEW have \in [FlightIdSet -> Seq(RevisionRow)], NEW T, T = Back!finalize(F, after, have)
  PROVE  Finalized(F, after, have, T)
<1> DEFINE kind(i) == IF after[i] = Nothing THEN "delete" ELSE "update"
           new(i) == [owner |-> flights[i].owner, kind |-> kind(i), snap |-> Back!Snap(flights[i])]
           P(i) == i \in F /\ account[flights[i].owner].strict /\ (after[i] = Nothing \/ Back!Snap(after[i]) # Back!Snap(flights[i]))
<1>1. ASSUME NEW i \in F PROVE new(i) \in RevisionRow
  <2>1. flights[i] \in Back!Flight
    BY DEF BackInv, BackTypes
  <2>2. Back!Snap(flights[i]) \in FileFlight
    <3>1. flights[i].reg \in Regs
      BY <2>1, RestoreAssumption DEF Back!Flight
    <3>2. flights[i].crew \in Names \cup {Nothing}
      BY <2>1 DEF Back!Flight
    <3> QED BY <3>1, <3>2 DEF Back!Snap, FileFlight
  <2>3. flights[i].owner \in Users
    BY <2>1 DEF Back!Flight
  <2>4. kind(i) \in {"update", "delete"}
    OBVIOUS
  <2> HIDE DEF kind
  <2> QED BY <2>2, <2>3, <2>4 DEF RevisionRow
<1>2. T = [i \in FlightIdSet |-> IF P(i) THEN Append(have[i], new(i)) ELSE have[i]]
  BY BackIds DEF Back!finalize, Back!Revision
<1>3. \A i \in FlightIdSet : have[i] \in Seq(RevisionRow) /\ Len(have[i]) \in Nat
  OBVIOUS
<1>4. \A i \in FlightIdSet : new(i).owner = flights[i].owner /\ (after[i] # Nothing => new(i).kind = "update")
  OBVIOUS
<1>7. \A i \in FlightIdSet : /\ P(i) => i \in F
                             /\ after[i] # Nothing /\ Back!Snap(after[i]) = Back!Snap(flights[i]) => ~P(i)
  OBVIOUS
<1> HIDE DEF new, P
<1>5. T \in [FlightIdSet -> Seq(RevisionRow)]
  BY <1>1, <1>2, <1>3, <1>7
<1>6. ASSUME NEW i \in FlightIdSet
      PROVE  /\ Len(have[i]) <= Len(T[i])
             /\ \A n \in 1 .. Len(have[i]) : T[i][n] = have[i][n]
             /\ \A n \in 1 .. Len(T[i]) : n > Len(have[i]) =>
                  T[i][n].owner = flights[i].owner /\ (after[i] # Nothing => T[i][n].kind = "update")
             /\ ~P(i) => T[i] = have[i]
  <2>1. CASE P(i)
    <3>1. T[i] = Append(have[i], new(i)) /\ new(i) \in RevisionRow
      BY <1>1, <1>2, <1>7, <2>1
    <3>2. /\ Len(T[i]) = Len(have[i]) + 1 /\ T[i][Len(have[i]) + 1] = new(i)
          /\ \A n \in 1 .. Len(have[i]) : T[i][n] = have[i][n]
      BY <1>3, <3>1
    <3> QED BY <1>3, <1>4, <2>1, <3>2
  <2>2. CASE ~P(i)
    BY <1>2, <1>3, <2>2
  <2> QED BY <2>1, <2>2
<1> QED BY <1>3, <1>5, <1>6, <1>7 DEF Finalized

\* The columns of an account after some of them are written.
Written(a, c, f, l, r, s, t, e) ==
  [a EXCEPT !.contacts = c, !.fleet = f, !.licences = l, !.reports = r, !.rules = s, !.strict = t, !.certified = e]
Bare(a) == [Back!Emptied(a) EXCEPT !.rules = {}, !.reports = {}]

LEMMA AccountWritten ==
  ASSUME NEW a, AccountOK(a)
  PROVE  /\ AccountOK(Back!Emptied(a)) /\ Back!Emptied(a).contacts = {} /\ Back!Emptied(a).rules = a.rules
         /\ AccountOK(Bare(a)) /\ Bare(a).contacts = {}
         /\ \A c \in SUBSET Names : \A f, l, r, s, t, e :
              (\A m, n \in c : m # n => KeyOf[m] # KeyOf[n]) =>
                AccountOK(Written(a, c, f, l, r, s, t, e)) /\ Written(a, c, f, l, r, s, t, e).contacts = c
<1>1. (DOMAIN a) = {"contacts", "fleet", "licences", "reports", "rules", "strict", "certified", "documents"}
  BY DEF AccountOK
<1>2. (DOMAIN Back!Emptied(a)) = DOMAIN a /\ Back!Emptied(a).contacts = {} /\ Back!Emptied(a).rules = a.rules
  BY <1>1 DEF Back!Emptied
<1>3. ASSUME NEW c, NEW f, NEW l, NEW r, NEW s, NEW t, NEW e
      PROVE  (DOMAIN Written(a, c, f, l, r, s, t, e)) = DOMAIN a /\ Written(a, c, f, l, r, s, t, e).contacts = c
  BY <1>1 DEF Written
<1>4. (DOMAIN Bare(a)) = DOMAIN a /\ Bare(a).contacts = {}
  BY <1>1, <1>2 DEF Bare
<1>5. ASSUME NEW b, (DOMAIN b) = DOMAIN a, b.contacts \in SUBSET Names, \A m, n \in b.contacts : m # n => KeyOf[m] # KeyOf[n]
      PROVE  AccountOK(b)
  BY <1>1, <1>5, Zenon DEF AccountOK
<1>6. AccountOK(Back!Emptied(a)) /\ AccountOK(Bare(a))
  BY <1>2, <1>4, <1>5
<1>8. ASSUME NEW c \in SUBSET Names, NEW f, NEW l, NEW r, NEW s, NEW t, NEW e, \A m, n \in c : m # n => KeyOf[m] # KeyOf[n]
      PROVE  AccountOK(Written(a, c, f, l, r, s, t, e))
  BY <1>3, <1>5, <1>8
<1>9. \A c \in SUBSET Names : \A f, l, r, s, t, e :
        (\A m, n \in c : m # n => KeyOf[m] # KeyOf[n]) =>
          AccountOK(Written(a, c, f, l, r, s, t, e)) /\ Written(a, c, f, l, r, s, t, e).contacts = c
  BY <1>3, <1>8
<1> QED BY <1>2, <1>4, <1>6, <1>9

\* Steps that keep the ids, files and jobs: flights change in place or go, each with its revision,
\* and contacts stay or go with all flights of their account.
LEMMA OrdinaryKeeps ==
  ASSUME BackInv, NEW F \in SUBSET FlightIdSet, \A i \in F : flights[i] # Nothing,
         backupRevs' = Back!finalize(F, flights', backupRevs),
         flights' \in [FlightIdSet -> Back!Flight \cup {Nothing}],
         \A i \in FlightIdSet : flights'[i] # Nothing =>
           /\ flights[i] # Nothing /\ flights'[i].owner = flights[i].owner /\ flights'[i].link = flights[i].link,
         (DOMAIN account') = Users, \A u \in Users : AccountOK(account'[u]),
         \A u \in Users : \/ account'[u].contacts = account[u].contacts
                          \/ /\ account'[u].contacts = {}
                             /\ \A i \in FlightIdSet : flights'[i] # Nothing => flights'[i].owner # u,
         UNCHANGED <<nextId, backupFiles, job>>
  PROVE  BackInv' /\ \A i \in FlightIdSet : Grows(i)
<1>1. /\ backupRevs' \in [FlightIdSet -> Seq(RevisionRow)]
      /\ \A i \in FlightIdSet :
           /\ Len(backupRevs[i]) \in Nat /\ Len(backupRevs[i]) <= Len(backupRevs'[i])
           /\ \A n \in 1 .. Len(backupRevs[i]) : backupRevs'[i][n] = backupRevs[i][n]
           /\ \A n \in 1 .. Len(backupRevs'[i]) : n > Len(backupRevs[i]) =>
                backupRevs'[i][n].owner = flights[i].owner /\ (flights'[i] # Nothing => backupRevs'[i][n].kind = "update")
           /\ i \notin F => backupRevs'[i] = backupRevs[i]
  <2>1. PICK T, after : after = flights' /\ T = Back!finalize(F, after, backupRevs)
    OBVIOUS
  <2>2. backupRevs' = T /\ backupRevs \in [FlightIdSet -> Seq(RevisionRow)]
    BY <2>1 DEF BackInv, BackTypes
  <2>3. Finalized(F, after, backupRevs, T)
    BY <2>1, <2>2, FinalizeSays
  <2> QED BY <2>1, <2>2, <2>3 DEF Finalized
<1>2. \A i \in FlightIdSet : Grows(i)
  <2> SUFFICES ASSUME NEW i \in FlightIdSet, NEW n \in 1 .. Len(backupRevs[i])
               PROVE  n <= Len(backupRevs'[i]) /\ backupRevs'[i][n] = backupRevs[i][n]
    BY DEF Grows
  <2>1. Len(backupRevs'[i]) \in Nat
    BY <1>1
  <2> QED BY <1>1, <2>1
<1>3. BackTypes'
  <2>1. nextId' \in 1 .. MaxId + 1 /\ (DOMAIN job') = Users
    BY DEF BackInv, BackTypes
  <2>2. \A i \in FlightIdSet : i >= nextId => flights'[i] = Nothing /\ backupRevs'[i] = <<>>
    <3> SUFFICES ASSUME NEW i \in FlightIdSet, i >= nextId PROVE flights'[i] = Nothing /\ backupRevs'[i] = <<>>
      OBVIOUS
    <3>1. flights[i] = Nothing /\ backupRevs[i] = <<>>
      BY DEF BackInv, BackTypes
    <3> QED BY <1>1, <3>1
  <2> QED BY <1>1, <2>1, <2>2 DEF BackTypes
<1>4. \A x \in backupFiles' : FileOK(x)'
  BY <1>1, <1>2, FileStays DEF BackInv, BackTypes
<1>5. \A u \in Users : BackJobOK(u)'
  BY DEF BackInv, BackJobOK
<1>6. \A i \in FlightIdSet : OneOwner(i)'
  <2> SUFFICES ASSUME NEW i \in FlightIdSet PROVE OneOwner(i)'
    OBVIOUS
  <2>0. OneOwner(i)
    BY DEF BackInv
  <2>1. CASE i \in F
    <3>1. \A n \in 1 .. Len(backupRevs'[i]) : backupRevs'[i][n].owner = flights[i].owner
      <4> SUFFICES ASSUME NEW n \in 1 .. Len(backupRevs'[i]) PROVE backupRevs'[i][n].owner = flights[i].owner
        OBVIOUS
      <4>1. n \in 1 .. Len(backupRevs[i]) \/ n > Len(backupRevs[i])
        BY <1>1
      <4>2. flights[i] # Nothing
        BY <2>1
      <4> QED BY <1>1, <2>0, <4>1, <4>2 DEF OneOwner
    <3> QED BY <3>1 DEF OneOwner
  <2>2. CASE i \notin F
    <3>1. backupRevs'[i] = backupRevs[i]
      BY <1>1, <2>2
    <3> QED BY <2>0, <3>1 DEF OneOwner
  <2> QED BY <2>1, <2>2
<1>7. CrewLinked'
  <2> SUFFICES ASSUME NEW i \in FlightIdSet, flights'[i] # Nothing, flights'[i].link # Nothing
               PROVE  \E n \in account'[flights'[i].owner].contacts : KeyOf[n] = flights'[i].link
    BY DEF CrewLinked
  <2>1. flights'[i] \in Back!Flight
    OBVIOUS
  <2>2. flights'[i].owner \in Users
    BY <2>1 DEF Back!Flight
  <2>3. account'[flights'[i].owner].contacts = account[flights'[i].owner].contacts
    BY <2>2
  <2>4. flights[i] # Nothing /\ flights'[i].owner = flights[i].owner /\ flights'[i].link = flights[i].link
    OBVIOUS
  <2>5. \E n \in account[flights[i].owner].contacts : KeyOf[n] = flights[i].link
    BY <2>4 DEF BackInv, CrewLinked
  <2> QED BY <2>3, <2>4, <2>5
<1>8. AllWhole' => WholeFiles' /\ VoidsGone'
  <2> SUFFICES ASSUME AllWhole' PROVE WholeFiles' /\ VoidsGone'
    OBVIOUS
  <2>1. AllWhole
    BY DEF AllWhole
  <2>2. WholeFiles /\ VoidsGone
    BY <2>1 DEF BackInv
  <2>3. WholeFiles'
    BY <2>2 DEF WholeFiles
  <2>4. ASSUME NEW i \in FlightIdSet, flights'[i] # Nothing, NEW n \in 1 .. Len(backupRevs'[i])
        PROVE  backupRevs'[i][n].kind # "delete"
    <3>1. flights[i] # Nothing
      BY <2>4
    <3>2. n \in 1 .. Len(backupRevs[i]) \/ n > Len(backupRevs[i])
      BY <1>1, <2>4
    <3>3. CASE n \in 1 .. Len(backupRevs[i])
      BY <1>1, <2>2, <3>1, <3>3 DEF VoidsGone, NoVoid
    <3>4. CASE n > Len(backupRevs[i])
      BY <1>1, <2>4, <3>4
    <3> QED BY <3>2, <3>3, <3>4
  <2> QED BY <2>3, <2>4 DEF VoidsGone, NoVoid
<1> QED BY <1>2, <1>3, <1>4, <1>5, <1>6, <1>7, <1>8 DEF BackInv

\* What a step keeps of the history, of signed flights and of what a restore brings back.
RestoreStepRight == Back!RestoredWithHistoryStep /\ Back!OwnBackupChangesNothingStep
BackStepRight == Back!HistoryOnlyGrowsStep /\ Back!NothingSignedDroppedStep /\ RestoreStepRight

LEMMA GrowthRight ==
  ASSUME BackInv', \A i \in FlightIdSet : Grows(i)
  PROVE  Back!HistoryOnlyGrowsStep
BY BackIds DEF BackInv, OneOwner, Grows, Back!HistoryOnlyGrowsStep

\* Nothing is restored by a step that ends no restore.
LEMMA NoRestoreRight ==
  ASSUME \A u \in Users : job[u].step = "apply" => job'[u] = job[u] \/ (flights' = flights /\ backupRevs' = backupRevs)
  PROVE  RestoreStepRight
<1>1. Back!Free.step = "idle"
  BY DEF Back!Free
<1>2. Back!RestoredWithHistoryStep
  BY <1>1 DEF Back!RestoredWithHistoryStep
<1>3. Back!OwnBackupChangesNothingStep
  BY <1>1 DEF Back!OwnBackupChangesNothingStep, Back!FlightsOf
<1> QED BY <1>2, <1>3 DEF RestoreStepRight

LEMMA ChangeFlightKeeps ==
  ASSUME BackInv, NEW u \in Users, Back!ChangeFlight(u)
  PROVE  BackInv' /\ BackStepRight
<1>1. PICK i \in Back!FlightsOf(u), r \in Regs :
        /\ flights[i].sig # "locked" /\ flights' = [flights EXCEPT ![i].reg = Canonical[r]]
        /\ backupRevs' = Back!finalize({i}, flights', backupRevs) /\ UNCHANGED <<account, nextId, backupFiles, job, lost>>
  BY DEF Back!ChangeFlight
<1>2. i \in FlightIdSet /\ flights[i] \in Back!Flight /\ flights[i] # Nothing
  BY BackIds DEF Back!FlightsOf, BackInv, BackTypes
<1>3. [flights[i] EXCEPT !.reg = Canonical[r]] \in Back!Flight
  BY <1>2, RestoreAssumption DEF Back!Flight
<1>4. /\ flights'[i].owner = flights[i].owner /\ flights'[i].link = flights[i].link
      /\ flights'[i] = [flights[i] EXCEPT !.reg = Canonical[r]]
      /\ \A j \in FlightIdSet : j # i => flights'[j] = flights[j]
      /\ flights' \in [FlightIdSet -> Back!Flight \cup {Nothing}]
  BY <1>1, <1>2, <1>3 DEF BackInv, BackTypes, Back!Flight
<1>5. (DOMAIN account') = Users /\ \A v \in Users : AccountOK(account'[v]) /\ account'[v].contacts = account[v].contacts
  BY <1>1 DEF BackInv, BackTypes
<1>6. BackInv' /\ \A j \in FlightIdSet : Grows(j)
  <2>1. {i} \in SUBSET FlightIdSet /\ \A j \in {i} : flights[j] # Nothing
    BY <1>2
  <2>2. \A j \in FlightIdSet : flights'[j] # Nothing =>
           /\ flights[j] # Nothing /\ flights'[j].owner = flights[j].owner /\ flights'[j].link = flights[j].link
    BY <1>2, <1>4
  <2> QED BY <1>1, <1>4, <1>5, <2>1, <2>2, OrdinaryKeeps
<1>7. Back!NothingSignedDroppedStep
  BY <1>1, <1>4, BackIds DEF Back!NothingSignedDroppedStep
<1>8. RestoreStepRight
  BY <1>1, NoRestoreRight
<1> QED BY <1>6, <1>7, <1>8, GrowthRight DEF BackStepRight

LEMMA DeleteOneKeeps ==
  ASSUME BackInv, NEW u \in Users, Back!DeleteFlight(u)
  PROVE  BackInv' /\ BackStepRight
<1>1. PICK i \in Back!FlightsOf(u) :
        /\ flights[i].sig # "locked" /\ flights' = [flights EXCEPT ![i] = Nothing]
        /\ backupRevs' = Back!finalize({i}, flights', backupRevs) /\ UNCHANGED <<account, nextId, backupFiles, job, lost>>
  BY DEF Back!DeleteFlight
<1>2. i \in FlightIdSet /\ flights[i] # Nothing
  BY BackIds DEF Back!FlightsOf
<1>4. /\ flights'[i] = Nothing
      /\ \A j \in FlightIdSet : j # i => flights'[j] = flights[j]
      /\ flights' \in [FlightIdSet -> Back!Flight \cup {Nothing}]
  BY <1>1, <1>2 DEF BackInv, BackTypes
<1>5. (DOMAIN account') = Users /\ \A v \in Users : AccountOK(account'[v]) /\ account'[v].contacts = account[v].contacts
  BY <1>1 DEF BackInv, BackTypes
<1>6. BackInv' /\ \A j \in FlightIdSet : Grows(j)
  <2>1. {i} \in SUBSET FlightIdSet /\ \A j \in {i} : flights[j] # Nothing
    BY <1>2
  <2>2. \A j \in FlightIdSet : flights'[j] # Nothing => j # i /\ flights'[j] = flights[j]
    BY <1>2, <1>4
  <2>3. \A j \in FlightIdSet : flights'[j] # Nothing =>
           /\ flights[j] # Nothing /\ flights'[j].owner = flights[j].owner /\ flights'[j].link = flights[j].link
           /\ j \notin {i}
    BY <2>2
  <2> QED BY <1>1, <1>4, <1>5, <2>1, <2>3, OrdinaryKeeps
<1>7. Back!NothingSignedDroppedStep
  BY <1>1, <1>4, BackIds DEF Back!NothingSignedDroppedStep
<1>8. RestoreStepRight
  BY <1>1, NoRestoreRight
<1> QED BY <1>6, <1>7, <1>8, GrowthRight DEF BackStepRight

\* A step that leaves the revisions alone is one that touches no flight for the trigger.
LEMMA NoTrigger == ASSUME BackInv PROVE backupRevs = Back!finalize({}, flights', backupRevs)
<1>1. backupRevs \in [FlightIdSet -> Seq(RevisionRow)]
  BY DEF BackInv, BackTypes
<1>2. Back!finalize({}, flights', backupRevs) = [i \in FlightIdSet |-> backupRevs[i]]
  BY BackIds DEF Back!finalize
<1> QED BY <1>1, <1>2

LEMMA SignFlightKeeps ==
  ASSUME BackInv, NEW u \in Users, Back!SignFlight(u)
  PROVE  BackInv' /\ BackStepRight
<1>1. PICK i \in Back!FlightsOf(u), to \in {"open", "locked"} :
        /\ flights' = [flights EXCEPT ![i].sig = to]
        /\ UNCHANGED <<backupRevs, account, nextId, backupFiles, job, lost>>
  BY DEF Back!SignFlight
<1>2. i \in FlightIdSet /\ flights[i] \in Back!Flight /\ flights[i] # Nothing
  BY BackIds DEF Back!FlightsOf, BackInv, BackTypes
<1>3. [flights[i] EXCEPT !.sig = to] \in Back!Flight
  BY <1>2 DEF Back!Flight
<1>4. /\ flights'[i].owner = flights[i].owner /\ flights'[i].link = flights[i].link
      /\ flights'[i] = [flights[i] EXCEPT !.sig = to]
      /\ \A j \in FlightIdSet : j # i => flights'[j] = flights[j]
      /\ flights' \in [FlightIdSet -> Back!Flight \cup {Nothing}]
  BY <1>1, <1>2, <1>3 DEF BackInv, BackTypes, Back!Flight
<1>5. (DOMAIN account') = Users /\ \A v \in Users : AccountOK(account'[v]) /\ account'[v].contacts = account[v].contacts
  BY <1>1 DEF BackInv, BackTypes
<1>6. BackInv' /\ \A j \in FlightIdSet : Grows(j)
  <2>1. backupRevs' = Back!finalize({}, flights', backupRevs)
    BY <1>1, NoTrigger
  <2>2. \A j \in FlightIdSet : flights'[j] # Nothing =>
           /\ flights[j] # Nothing /\ flights'[j].owner = flights[j].owner /\ flights'[j].link = flights[j].link
    BY <1>2, <1>4
  <2>3. {} \in SUBSET FlightIdSet /\ \A j \in {} : flights[j] # Nothing
    OBVIOUS
  <2> QED BY <1>1, <1>4, <1>5, <2>1, <2>2, <2>3, OrdinaryKeeps
<1>7. Back!NothingSignedDroppedStep
  <2> SUFFICES ASSUME NEW j \in FlightIdSet, flights[j] # Nothing, flights[j].sig = "locked" PROVE flights'[j] # Nothing /\ flights'[j].sig # "none"
    BY BackIds, Zenon DEF Back!NothingSignedDroppedStep
  <2>1. CASE j = i
    <3>1. flights'[i] \in Back!Flight /\ flights'[i].sig = to
      BY <1>2, <1>3, <1>4 DEF Back!Flight
    <3>2. Nothing \notin Back!Flight
      BY RestoreAssumption
    <3> QED BY <2>1, <3>1, <3>2
  <2>2. CASE j # i
    BY <1>4, <2>2
  <2> QED BY <2>1, <2>2
<1>8. RestoreStepRight
  BY <1>1, NoRestoreRight
<1> QED BY <1>6, <1>7, <1>8, GrowthRight DEF BackStepRight

LEMMA WipeKeeps ==
  ASSUME BackInv, NEW u \in Users, Back!DeleteAllContent(u) \/ Back!DeleteFlightsAndHistory(u)
  PROVE  BackInv' /\ BackStepRight
<1> DEFINE F == Back!FlightsOf(u)
<1>1. /\ flights' = Back!Wiped(u) /\ backupRevs' = Back!finalize(F, flights', backupRevs)
      /\ account' = account \/ account' = [account EXCEPT ![u] = Back!Emptied(@)]
      /\ UNCHANGED <<nextId, backupFiles, job, lost>>
  BY DEF Back!DeleteAllContent, Back!DeleteFlightsAndHistory
<1>2. F \in SUBSET FlightIdSet /\ \A i \in FlightIdSet : i \in F <=> flights[i] # Nothing /\ flights[i].owner = u
  BY BackIds DEF Back!FlightsOf
<1>3. /\ \A i \in FlightIdSet : flights'[i] = IF i \in F THEN Nothing ELSE flights[i]
      /\ flights' \in [FlightIdSet -> Back!Flight \cup {Nothing}]
  BY <1>1, BackIds DEF Back!Wiped, BackInv, BackTypes
<1>4. AccountOK(Back!Emptied(account[u])) /\ Back!Emptied(account[u]).contacts = {} /\ Back!Emptied(account[u]).rules = account[u].rules
  <2>1. AccountOK(account[u])
    BY DEF BackInv, BackTypes
  <2> QED BY <2>1, AccountWritten
<1>5. /\ (DOMAIN account') = Users /\ \A v \in Users : AccountOK(account'[v]) /\ account'[v].rules = account[v].rules
      /\ \A v \in Users : account'[v].contacts = account[v].contacts \/ (v = u /\ account'[v].contacts = {})
  BY <1>1, <1>4 DEF BackInv, BackTypes
<1> HIDE DEF F
<1>6. BackInv' /\ \A j \in FlightIdSet : Grows(j)
  <2>1. \A j \in F : flights[j] # Nothing
    BY <1>2
  <2>2. \A j \in FlightIdSet : flights'[j] # Nothing =>
           /\ flights[j] # Nothing /\ flights'[j].owner = flights[j].owner /\ flights'[j].link = flights[j].link
           /\ j \notin F /\ flights'[j].owner # u
    BY <1>2, <1>3
  <2> QED BY <1>1, <1>2, <1>3, <1>5, <2>1, <2>2, OrdinaryKeeps
<1>7. Back!NothingSignedDroppedStep
  <2> SUFFICES ASSUME NEW i \in FlightIdSet, flights[i] # Nothing, flights'[i] # flights[i],
                      NEW j \in Back!FlightsOf(flights[i].owner)
               PROVE  flights'[j] = Nothing /\ account'[flights[i].owner].rules = account[flights[i].owner].rules
    BY BackIds DEF Back!NothingSignedDroppedStep
  <2>1. flights[i].owner = u
    BY <1>2, <1>3
  <2> QED BY <1>2, <1>3, <1>5, <2>1 DEF F
<1>8. RestoreStepRight
  BY <1>1, NoRestoreRight
<1> QED BY <1>6, <1>7, <1>8, GrowthRight DEF BackStepRight

LEMMA LogFlightKeeps ==
  ASSUME BackInv, NEW u \in Users, Back!LogFlight(u)
  PROVE  BackInv' /\ BackStepRight
<1>1. PICK r \in Regs, n \in account[u].contacts \cup {Nothing} :
        /\ nextId <= MaxId
        /\ flights' = [flights EXCEPT ![nextId] = [owner |-> u, reg |-> Canonical[r], crew |-> n,
                                                   link |-> IF n = Nothing THEN Nothing ELSE KeyOf[n], sig |-> "none"]]
        /\ nextId' = nextId + 1
        /\ UNCHANGED <<backupRevs, account, backupFiles, job, lost>>
  BY DEF Back!LogFlight
<1> DEFINE row == [owner |-> u, reg |-> Canonical[r], crew |-> n,
                   link |-> IF n = Nothing THEN Nothing ELSE KeyOf[n], sig |-> "none"]
<1>2. account[u].contacts \subseteq Names
  BY DEF BackInv, BackTypes, AccountOK
<1>3. row \in Back!Flight
  BY <1>2, RestoreAssumption DEF Back!Flight
<1>4. row.owner = u /\ row.link = IF n = Nothing THEN Nothing ELSE KeyOf[n]
  OBVIOUS
<1>5. flights' = [flights EXCEPT ![nextId] = row]
  BY <1>1
<1> HIDE DEF row
<1>6. nextId \in Nat /\ nextId >= 1 /\ nextId \in FlightIdSet /\ nextId \in 1 .. MaxId + 1 /\ nextId' \in 1 .. MaxId + 1
  <2>1. MaxId \in Nat /\ nextId \in 1 .. MaxId + 1
    BY BackIds DEF BackInv, BackTypes
  <2> QED BY <1>1, <2>1 DEF FlightIdSet
<1>7. /\ flights' \in [FlightIdSet -> Back!Flight \cup {Nothing}] /\ flights'[nextId] = row
      /\ \A j \in FlightIdSet : j # nextId => flights'[j] = flights[j]
  BY <1>3, <1>5, <1>6 DEF BackInv, BackTypes
<1>8. flights[nextId] = Nothing /\ backupRevs[nextId] = <<>> /\ row # Nothing
  BY <1>3, <1>6, RestoreAssumption DEF BackInv, BackTypes
<1>9. \A j \in FlightIdSet : Grows(j)
  <2>1. \A j \in FlightIdSet : Len(backupRevs[j]) \in Nat
    BY DEF BackInv, BackTypes
  <2> QED BY <1>1, <2>1 DEF Grows
<1>10. BackTypes'
  <2>1. \A j \in FlightIdSet : j >= nextId' => flights'[j] = Nothing /\ backupRevs'[j] = <<>>
    <3> SUFFICES ASSUME NEW j \in FlightIdSet, j >= nextId' PROVE flights'[j] = Nothing /\ backupRevs'[j] = <<>>
      OBVIOUS
    <3>1. j >= nextId /\ j # nextId
      BY <1>1, <1>6 DEF FlightIdSet
    <3> QED BY <1>1, <1>7, <3>1 DEF BackInv, BackTypes
  <2>2. /\ backupRevs' \in [FlightIdSet -> Seq(RevisionRow)] /\ (DOMAIN account') = Users
        /\ (\A v \in Users : AccountOK(account'[v])) /\ (DOMAIN job') = Users
    BY <1>1 DEF BackInv, BackTypes
  <2> QED BY <1>6, <1>7, <2>1, <2>2 DEF BackTypes
<1>11. \A x \in backupFiles' : FileOK(x)'
  <2>1. nextId' \in Nat /\ nextId' >= nextId /\ backupRevs' \in [FlightIdSet -> Seq(RevisionRow)]
    BY <1>1, <1>6 DEF BackInv, BackTypes
  <2> QED BY <1>1, <1>9, <2>1, FileStays
<1>12. \A v \in Users : BackJobOK(v)'
  <2>1. 1 .. nextId - 1 \subseteq 1 .. nextId' - 1
    BY <1>1, <1>6
  <2> QED BY <1>1, <2>1 DEF BackInv, BackJobOK
<1>13. \A i \in FlightIdSet : OneOwner(i)'
  <2> SUFFICES ASSUME NEW i \in FlightIdSet PROVE OneOwner(i)'
    OBVIOUS
  <2>1. CASE i = nextId
    <3>1. backupRevs'[i] = <<>>
      BY <1>1, <1>8, <2>1
    <3> QED BY <3>1 DEF OneOwner
  <2>2. CASE i # nextId
    BY <1>1, <1>7, <2>2 DEF BackInv, OneOwner
  <2> QED BY <2>1, <2>2
<1>14. CrewLinked'
  <2> SUFFICES ASSUME NEW i \in FlightIdSet, flights'[i] # Nothing, flights'[i].link # Nothing
               PROVE  \E m \in account'[flights'[i].owner].contacts : KeyOf[m] = flights'[i].link
    BY DEF CrewLinked
  <2>1. CASE i = nextId
    <3>1. flights'[i].owner = u /\ n # Nothing /\ flights'[i].link = KeyOf[n]
      BY <1>4, <1>7, <2>1
    <3> QED BY <1>1, <3>1
  <2>2. CASE i # nextId
    BY <1>1, <1>7, <2>2 DEF BackInv, CrewLinked
  <2> QED BY <2>1, <2>2
<1>15. AllWhole' => WholeFiles' /\ VoidsGone'
  <2> SUFFICES ASSUME AllWhole' PROVE WholeFiles' /\ VoidsGone'
    OBVIOUS
  <2>1. WholeFiles /\ VoidsGone
    BY <1>1 DEF BackInv, AllWhole
  <2>2. WholeFiles'
    BY <1>1, <2>1 DEF WholeFiles
  <2>3. ASSUME NEW i \in FlightIdSet, flights'[i] # Nothing PROVE NoVoid(backupRevs'[i])
    <3>1. CASE i = nextId
      <4>1. backupRevs'[i] = <<>>
        BY <1>1, <1>8, <3>1
      <4> QED BY <4>1 DEF NoVoid
    <3>2. CASE i # nextId
      BY <1>1, <1>7, <2>1, <2>3, <3>2 DEF VoidsGone
    <3> QED BY <3>1, <3>2
  <2> QED BY <2>2, <2>3 DEF VoidsGone, NoVoid
<1>16. BackInv'
  BY <1>10, <1>11, <1>12, <1>13, <1>14, <1>15 DEF BackInv
<1>17. Back!NothingSignedDroppedStep
  BY <1>7, <1>8, BackIds DEF Back!NothingSignedDroppedStep
<1>18. RestoreStepRight
  BY <1>1, NoRestoreRight
<1> QED BY <1>9, <1>16, <1>17, <1>18, GrowthRight DEF BackStepRight

\* Steps that move a job on and write nothing.
LEMMA JobStepKeeps ==
  ASSUME BackInv, UNCHANGED <<flights, backupRevs, account, nextId>>,
         backupFiles' = backupFiles \/ (\E x : backupFiles' = backupFiles \cup {x} /\ FileOK(x)' /\
            (AllWhole' => \A o \in (DOMAIN x.content.flights) \cap (DOMAIN x.logbook.revs) : NoVoid(x.logbook.revs[o]))),
         (DOMAIN job') = Users, \A u \in Users : BackJobOK(u)'
  PROVE  BackInv' /\ BackStepRight
<1>1. backupFiles \subseteq backupFiles'
  OBVIOUS
<1>2. BackTypes' /\ CrewLinked' /\ \A i \in FlightIdSet : OneOwner(i)' /\ Grows(i)
  <2>1. BackTypes'
    BY DEF BackInv, BackTypes
  <2>2. CrewLinked'
    BY DEF BackInv, CrewLinked
  <2>3. \A i \in FlightIdSet : OneOwner(i)'
    BY DEF BackInv, OneOwner
  <2>4. \A i \in FlightIdSet : Len(backupRevs[i]) \in Nat
    BY DEF BackInv, BackTypes
  <2>5. \A i \in FlightIdSet : Grows(i)
    BY <2>4 DEF Grows
  <2> QED BY <2>1, <2>2, <2>3, <2>5
<1>3. \A x \in backupFiles : FileOK(x)'
  BY DEF BackInv, FileOK
<1>4. \A x \in backupFiles' : FileOK(x)'
  BY <1>3
<1>5. AllWhole' => WholeFiles' /\ VoidsGone'
  <2> SUFFICES ASSUME AllWhole' PROVE WholeFiles' /\ VoidsGone'
    OBVIOUS
  <2>1. AllWhole
    BY <1>1 DEF AllWhole
  <2>2. WholeFiles /\ VoidsGone
    BY <2>1 DEF BackInv
  <2>3. WholeFiles'
    BY <2>2 DEF WholeFiles
  <2> QED BY <2>2, <2>3 DEF VoidsGone
<1>6. BackInv'
  BY <1>2, <1>4, <1>5 DEF BackInv
<1>7. Back!NothingSignedDroppedStep /\ RestoreStepRight
  <2>1. \A i \in FlightIdSet : flights[i] # Nothing /\ flights[i].sig = "locked" => ~(flights'[i] = Nothing \/ flights'[i].sig = "none")
    OBVIOUS
  <2> QED BY <2>1, BackIds, NoRestoreRight DEF Back!NothingSignedDroppedStep
<1> QED BY <1>2, <1>6, <1>7, GrowthRight DEF BackStepRight

LEMMA FreeJobOK == ASSUME NEW u \in Users, job'[u] = Back!Free PROVE BackJobOK(u)'
<1>1. Back!Free.step = "idle"
  BY DEF Back!Free
<1> QED BY <1>1 DEF BackJobOK

LEMMA OtherJobs ==
  ASSUME BackInv, NEW u \in Users, UNCHANGED <<flights, backupRevs, account, nextId>>, backupFiles \subseteq backupFiles',
         NEW j, job' = [job EXCEPT ![u] = j], BackJobOK(u)'
  PROVE  (DOMAIN job') = Users /\ \A v \in Users : BackJobOK(v)'
<1>1. (DOMAIN job') = Users /\ \A v \in Users : v # u => job'[v] = job[v]
  BY DEF BackInv, BackTypes
<1>2. ASSUME NEW v \in Users, v # u PROVE BackJobOK(v)'
  BY <1>1, <1>2 DEF BackInv, BackJobOK
<1> QED BY <1>1, <1>2

LEMMA RollbackKeeps ==
  ASSUME BackInv, NEW u \in Users, Back!Rollback(u)
  PROVE  BackInv' /\ BackStepRight
<1>1. job' = [job EXCEPT ![u] = Back!Free] /\ UNCHANGED <<flights, backupRevs, account, nextId, backupFiles>>
  BY DEF Back!Rollback
<1>2. job'[u] = Back!Free
  BY <1>1 DEF BackInv, BackTypes
<1>3. (DOMAIN job') = Users /\ \A v \in Users : BackJobOK(v)'
  BY <1>1, <1>2, FreeJobOK, OtherJobs
<1> QED BY <1>1, <1>3, JobStepKeeps

LEMMA RestoreBackupKeeps ==
  ASSUME BackInv, NEW u \in Users, Back!RestoreBackup(u)
  PROVE  BackInv' /\ BackStepRight
<1>1. PICK x \in backupFiles, mode \in {"restore", "replace"} :
        /\ Back!CheckMode(u, mode)
        /\ job' = [job EXCEPT ![u] = [step |-> "apply", file |-> x, mode |-> mode, sigs |-> {i \in Back!FlightsOf(u) : flights[i].sig = "locked"}]]
        /\ UNCHANGED <<flights, backupRevs, account, nextId, backupFiles, lost>>
  BY DEF Back!RestoreBackup
<1> DEFINE j == [step |-> "apply", file |-> x, mode |-> mode, sigs |-> {i \in Back!FlightsOf(u) : flights[i].sig = "locked"}]
<1>2. job'[u] = j
  BY <1>1 DEF BackInv, BackTypes
<1>3. j.step = "apply" /\ j.file = x /\ j.mode = mode /\ j.sigs = {i \in Back!FlightsOf(u) : flights[i].sig = "locked"}
  OBVIOUS
<1>4. mode = "replace" => j.sigs = {}
  BY <1>1, <1>3 DEF Back!CheckMode, Back!CountAttachments
<1>5. mode = "restore" => account[u].contacts = {}
  <2>1. AccountOK(account[u])
    BY DEF BackInv, BackTypes
  <2>2. Back!Emptied(account[u]).contacts = {}
    BY <2>1, AccountWritten
  <2> QED BY <1>1, <2>2 DEF Back!CheckMode, Back!CountContent
<1>6. job' = [job EXCEPT ![u] = j]
  BY <1>1
<1> HIDE DEF j
<1>7. BackJobOK(u)'
  BY <1>1, <1>2, <1>3, <1>4, <1>5 DEF BackJobOK
<1>8. (DOMAIN job') = Users /\ \A v \in Users : BackJobOK(v)'
  BY <1>1, <1>6, <1>7, OtherJobs
<1> QED BY <1>1, <1>8, JobStepKeeps

\* Flights and histories that exist were given out.
LEMMA GivenOut ==
  ASSUME BackInv, NEW u \in Users
  PROVE  Back!FlightsOf(u) \subseteq 1 .. nextId - 1 /\ Back!OwnRevs(u) \subseteq 1 .. nextId - 1
<1>1. nextId \in Nat /\ MaxId \in Nat /\ FlightIdSet \subseteq Nat \ {0}
  BY BackIds DEF BackInv, BackTypes, FlightIdSet
<1>2. \A i \in FlightIdSet : i >= nextId => flights[i] = Nothing /\ backupRevs[i] = <<>>
  BY DEF BackInv, BackTypes
<1>3. ASSUME NEW i \in FlightIdSet, ~(i >= nextId) PROVE i \in 1 .. nextId - 1
  BY <1>1, <1>3
<1>4. ASSUME NEW i \in Back!FlightsOf(u) PROVE i \in 1 .. nextId - 1
  BY <1>2, <1>3, BackIds DEF Back!FlightsOf
<1>5. ASSUME NEW i \in Back!OwnRevs(u) PROVE i \in 1 .. nextId - 1
  <2>1. i \in FlightIdSet /\ backupRevs[i] # <<>>
    BY BackIds DEF Back!OwnRevs
  <2> QED BY <1>2, <1>3, <2>1
<1> QED BY <1>4, <1>5

LEMMA ExportBackupKeeps ==
  ASSUME BackInv, NEW u \in Users, Back!ExportBackup(u)
  PROVE  BackInv' /\ BackStepRight
<1>1. /\ job' = [job EXCEPT ![u] = [step |-> "gather", content |-> Back!gatherContent(u), seen |-> Back!World(u)]]
      /\ UNCHANGED <<flights, backupRevs, account, nextId, backupFiles, lost>>
  BY DEF Back!ExportBackup
<1> DEFINE j == [step |-> "gather", content |-> Back!gatherContent(u), seen |-> Back!World(u)]
<1>2. job'[u] = j /\ job' = [job EXCEPT ![u] = j]
  BY <1>1 DEF BackInv, BackTypes
<1>3. j.step = "gather" /\ j.content = Back!gatherContent(u) /\ j.seen = Back!World(u)
  OBVIOUS
<1> HIDE DEF j
<1>4. /\ Back!gatherContent(u).flights = [i \in Back!FlightsOf(u) |-> [reg |-> flights[i].reg, crew |-> flights[i].crew]]
      /\ Back!gatherContent(u).contacts = account[u].contacts
  BY DEF Back!gatherContent
<1>5. ContentOK(Back!gatherContent(u))
  <2>1. account[u].contacts \subseteq Names
    BY DEF BackInv, BackTypes, AccountOK
  <2>2. ASSUME NEW i \in Back!FlightsOf(u) PROVE [reg |-> flights[i].reg, crew |-> flights[i].crew] \in FileFlight
    <3>1. flights[i] \in Back!Flight
      BY BackIds DEF Back!FlightsOf, BackInv, BackTypes
    <3>2. flights[i].reg \in Regs
      BY <3>1, RestoreAssumption DEF Back!Flight
    <3> QED BY <3>1, <3>2 DEF Back!Flight, FileFlight
  <2> QED BY <1>4, <2>1, <2>2 DEF ContentOK
<1>6. (DOMAIN Back!World(u)[1]) = Back!FlightsOf(u)
  BY DEF Back!World
<1>7. (DOMAIN Back!gatherContent(u).flights) = Back!FlightsOf(u) /\ Back!FlightsOf(u) \subseteq 1 .. nextId - 1
  BY <1>4, GivenOut
<1>8. BackJobOK(u)'
  BY <1>1, <1>2, <1>3, <1>5, <1>6, <1>7 DEF BackJobOK
<1>9. (DOMAIN job') = Users /\ \A v \in Users : BackJobOK(v)'
  BY <1>1, <1>2, <1>8, OtherJobs
<1> QED BY <1>1, <1>9, JobStepKeeps

LEMMA FinishBackupKeeps ==
  ASSUME BackInv, NEW u \in Users, Back!FinishBackup(u)
  PROVE  BackInv' /\ BackStepRight
<1>0. PICK x : x = [content |-> job[u].content, logbook |-> Back!gatherLogbook(u), torn |-> Back!World(u) # job[u].seen]
  OBVIOUS
<1>1. /\ job[u].step = "gather" /\ backupFiles' = backupFiles \cup {x} /\ job' = [job EXCEPT ![u] = Back!Free]
      /\ UNCHANGED <<flights, backupRevs, account, nextId, lost>>
  BY <1>0 DEF Back!FinishBackup
<1>2. x.content = job[u].content /\ x.logbook = Back!gatherLogbook(u) /\ (x.torn <=> Back!World(u) # job[u].seen)
  BY <1>0
<1>3. x.logbook.revs = [i \in Back!OwnRevs(u) |-> [n \in 1 .. Len(backupRevs[i]) |-> [kind |-> backupRevs[i][n].kind, snap |-> backupRevs[i][n].snap]]]
  BY <1>2 DEF Back!gatherLogbook
<1>4. /\ ContentOK(x.content) /\ (DOMAIN x.content.flights) \subseteq 1 .. nextId - 1
      /\ (DOMAIN x.content.flights) = (DOMAIN job[u].seen[1])
  BY <1>1, <1>2 DEF BackInv, BackJobOK
<1>5. ASSUME NEW o \in DOMAIN x.logbook.revs
      PROVE  /\ x.logbook.revs[o] \in Seq(FileRevision) /\ Len(x.logbook.revs[o]) = Len(backupRevs[o]) /\ o \in FlightIdSet
             /\ \A n \in 1 .. Len(x.logbook.revs[o]) :
                  x.logbook.revs[o][n].snap = backupRevs[o][n].snap /\ x.logbook.revs[o][n].kind = backupRevs[o][n].kind
  <2>1. o \in Back!OwnRevs(u) /\ o \in FlightIdSet
    BY <1>3, <1>5, BackIds DEF Back!OwnRevs
  <2>2. x.logbook.revs[o] = [n \in 1 .. Len(backupRevs[o]) |-> [kind |-> backupRevs[o][n].kind, snap |-> backupRevs[o][n].snap]]
    BY <1>3, <2>1
  <2>3. backupRevs[o] \in Seq(RevisionRow) /\ Len(backupRevs[o]) \in Nat
    BY <2>1 DEF BackInv, BackTypes
  <2>4. ASSUME NEW n \in 1 .. Len(backupRevs[o]) PROVE [kind |-> backupRevs[o][n].kind, snap |-> backupRevs[o][n].snap] \in FileRevision
    <3>1. backupRevs[o][n] \in RevisionRow
      BY <2>3
    <3> QED BY <3>1 DEF RevisionRow, FileRevision
  <2>5. x.logbook.revs[o] \in Seq(FileRevision)
    BY <2>2, <2>3, <2>4
  <2>6. Len(x.logbook.revs[o]) = Len(backupRevs[o])
    BY <2>2, <2>3
  <2> QED BY <2>1, <2>2, <2>3, <2>5, <2>6
<1>6. FileOK(x)'
  <2>1. (DOMAIN x.logbook.revs) \subseteq 1 .. nextId - 1
    BY <1>3, GivenOut
  <2>2. \A o \in DOMAIN x.logbook.revs : Len(x.logbook.revs[o]) <= Len(backupRevs[o])
    <3> SUFFICES ASSUME NEW o \in DOMAIN x.logbook.revs PROVE Len(x.logbook.revs[o]) <= Len(backupRevs[o])
      OBVIOUS
    <3>1. backupRevs[o] \in Seq(RevisionRow) /\ Len(x.logbook.revs[o]) = Len(backupRevs[o])
      BY <1>5 DEF BackInv, BackTypes
    <3> QED BY <3>1
  <2>3. FileOK(x)
    BY <1>4, <1>5, <2>1, <2>2 DEF FileOK, SameRevision
  <2> QED BY <1>1, <2>3 DEF FileOK
<1>7. ASSUME AllWhole', NEW o \in (DOMAIN x.content.flights) \cap (DOMAIN x.logbook.revs) PROVE NoVoid(x.logbook.revs[o])
  <2>1. ~x.torn /\ AllWhole
    BY <1>1, <1>7 DEF AllWhole
  <2>2. VoidsGone
    BY <2>1 DEF BackInv
  <2>3. job[u].seen = Back!World(u)
    BY <1>2, <2>1
  <2>4. (DOMAIN Back!World(u)[1]) = Back!FlightsOf(u)
    BY DEF Back!World
  <2>5. o \in Back!FlightsOf(u)
    BY <1>4, <1>7, <2>3, <2>4
  <2>6. o \in FlightIdSet /\ flights[o] # Nothing
    BY <2>5, BackIds DEF Back!FlightsOf
  <2>7. NoVoid(backupRevs[o])
    BY <2>2, <2>6 DEF VoidsGone
  <2> QED BY <1>5, <1>7, <2>7 DEF NoVoid
<1>8. job'[u] = Back!Free
  BY <1>1 DEF BackInv, BackTypes
<1>9. (DOMAIN job') = Users /\ \A v \in Users : BackJobOK(v)'
  BY <1>1, <1>8, FreeJobOK, OtherJobs
<1>10. AllWhole' => \A o \in (DOMAIN x.content.flights) \cap (DOMAIN x.logbook.revs) : NoVoid(x.logbook.revs[o])
  BY <1>7
<1>11. \E y : backupFiles' = backupFiles \cup {y} /\ FileOK(y)' /\
         (AllWhole' => \A o \in (DOMAIN y.content.flights) \cap (DOMAIN y.logbook.revs) : NoVoid(y.logbook.revs[o]))
  <2> QED BY <1>1, <1>6, <1>10, Zenon
<1> QED BY <1>1, <1>9, <1>11, JobStepKeeps

LEMMA BackCardinality == ASSUME NEW S PROVE Back!Cardinality(S) = Cardinality(S)
BY Zenon DEF Back!Cardinality, Cardinality

\* The places of a set's members are counted from 1 and follow their order.
LEMMA NthRight ==
  ASSUME NEW S \in SUBSET Nat, IsFiniteSet(S)
  PROVE  /\ Cardinality(S) \in Nat
         /\ \A i \in S : Back!Nth(S, i) \in Nat /\ 1 <= Back!Nth(S, i) /\ Back!Nth(S, i) <= Cardinality(S)
         /\ \A i, j \in S : i < j => Back!Nth(S, i) < Back!Nth(S, j)
<1> DEFINE upTo(i) == {j \in S : j <= i}
<1>1. \A i : Back!Nth(S, i) = Cardinality(upTo(i))
  BY BackCardinality, Zenon DEF Back!Nth
<1>2. \A i : upTo(i) \subseteq S
  OBVIOUS
<1>3. \A i : IsFiniteSet(upTo(i)) /\ Cardinality(upTo(i)) \in Nat /\ Cardinality(upTo(i)) <= Cardinality(S)
  <2> HIDE DEF upTo
  <2> QED BY <1>2, FS_Subset, FS_CardinalityType
<1>4. ASSUME NEW i \in S PROVE 1 <= Cardinality(upTo(i))
  <2>1. upTo(i) # {}
    <3>1. i <= i
      OBVIOUS
    <3> QED BY <3>1
  <2>2. Cardinality(upTo(i)) # 0
    <3> HIDE DEF upTo
    <3>1. IsFiniteSet(upTo(i)) /\ (Cardinality(upTo(i)) = 0 <=> upTo(i) = {})
      BY <1>3, FS_EmptySet, Zenon
    <3> QED BY <2>1, <3>1
  <2> HIDE DEF upTo
  <2> QED BY <1>3, <2>2
<1>5. ASSUME NEW i \in S, NEW j \in S, i < j PROVE Cardinality(upTo(i)) < Cardinality(upTo(j))
  <2>1. upTo(i) \subseteq upTo(j) /\ j \in upTo(j) /\ j \notin upTo(i)
    <3>1. i \in Nat /\ j \in Nat
      OBVIOUS
    <3>2. (\A k \in Nat : k <= i => k <= j) /\ ~(j <= i) /\ j <= j
      BY <1>5, <3>1
    <3> QED BY <3>2
  <2> HIDE DEF upTo
  <2>2. Cardinality(upTo(i)) <= Cardinality(upTo(j)) /\ Cardinality(upTo(i)) # Cardinality(upTo(j))
    BY <1>3, <2>1, FS_Subset
  <2> QED BY <1>3, <2>2
<1>6. Cardinality(S) \in Nat
  BY FS_CardinalityType
<1> HIDE DEF upTo
<1> QED BY <1>1, <1>3, <1>4, <1>5, <1>6

LEMMA BackMax ==
  ASSUME NEW a \in Nat, NEW b \in Nat
  PROVE  Back!Max({a, b}) = IF a >= b THEN a ELSE b
<1>1. Back!Max({a, b}) = CHOOSE x \in {a, b} : \A y \in {a, b} : x >= y
  BY DEF Back!Max
<1>2. \E x \in {a, b} : \A y \in {a, b} : x >= y
  OBVIOUS
<1>3. Back!Max({a, b}) \in {a, b} /\ \A y \in {a, b} : Back!Max({a, b}) >= y
  <2> DEFINE Q(x) == x \in {a, b} /\ \A y \in {a, b} : x >= y
  <2>1. \E x : Q(x)
    BY <1>2
  <2>2. Back!Max({a, b}) = CHOOSE x : Q(x)
    BY <1>1
  <2> HIDE DEF Q
  <2>3. Q(Back!Max({a, b}))
    BY <2>1, <2>2
  <2> QED BY <2>3 DEF Q
<1> QED BY <1>3

\* ON CONFLICT DO NOTHING: a history that has as many entries as the file's stays as it is; a new
\* flight gets the file's.
LEMMA ImportSays ==
  ASSUME NEW u \in Users, NEW have \in Seq(RevisionRow), NEW r \in Seq(FileRevision)
  PROVE  /\ Len(r) <= Len(have) => Back!Import(u, have, r) = have
         /\ have = <<>> =>
              /\ Back!Import(u, have, r) \in Seq(RevisionRow) /\ Len(Back!Import(u, have, r)) = Len(r)
              /\ \A n \in 1 .. Len(r) : /\ Back!Import(u, have, r)[n].owner = u /\ Back!Import(u, have, r)[n].kind = r[n].kind
                                        /\ Back!Import(u, have, r)[n].snap = r[n].snap
<1>1. Len(have) \in Nat /\ Len(r) \in Nat
  OBVIOUS
<1>2. Back!Max({Len(have), Len(r)}) = IF Len(have) >= Len(r) THEN Len(have) ELSE Len(r)
  BY <1>1, BackMax
<1>3. ASSUME Len(r) <= Len(have) PROVE Back!Import(u, have, r) = have
  <2>1. Back!Max({Len(have), Len(r)}) = Len(have)
    BY <1>1, <1>2, <1>3
  <2>2. Back!Import(u, have, r) = [n \in 1 .. Len(have) |-> IF n <= Len(have) THEN have[n] ELSE [owner |-> u, kind |-> r[n].kind, snap |-> r[n].snap]]
    BY <2>1 DEF Back!Import
  <2>3. \A n \in 1 .. Len(have) : n <= Len(have)
    BY <1>1
  <2>4. Back!Import(u, have, r) = [n \in 1 .. Len(have) |-> have[n]]
    BY <2>2, <2>3
  <2> QED BY <1>1, <2>4
<1>4. ASSUME have = <<>>
      PROVE  /\ Back!Import(u, have, r) \in Seq(RevisionRow) /\ Len(Back!Import(u, have, r)) = Len(r)
             /\ \A n \in 1 .. Len(r) : /\ Back!Import(u, have, r)[n].owner = u /\ Back!Import(u, have, r)[n].kind = r[n].kind
                                       /\ Back!Import(u, have, r)[n].snap = r[n].snap
  <2>1. Len(have) = 0
    BY <1>4
  <2>2. Back!Max({Len(have), Len(r)}) = Len(r)
    BY <1>1, <1>2, <2>1
  <2>3. Back!Import(u, have, r) = [n \in 1 .. Len(r) |-> IF n <= Len(have) THEN have[n] ELSE [owner |-> u, kind |-> r[n].kind, snap |-> r[n].snap]]
    BY <2>2 DEF Back!Import
  <2>4. \A n \in 1 .. Len(r) : ~(n <= Len(have))
    BY <1>1, <2>1
  <2>5. Back!Import(u, have, r) = [n \in 1 .. Len(r) |-> [owner |-> u, kind |-> r[n].kind, snap |-> r[n].snap]]
    BY <2>3, <2>4
  <2>6. ASSUME NEW n \in 1 .. Len(r) PROVE [owner |-> u, kind |-> r[n].kind, snap |-> r[n].snap] \in RevisionRow
    <3>1. r[n] \in FileRevision
      OBVIOUS
    <3>2. r[n].kind \in {"update", "delete"} /\ r[n].snap \in FileFlight
      BY <3>1 DEF FileRevision
    <3> QED BY <3>2 DEF RevisionRow
  <2> QED BY <1>1, <2>5, <2>6
<1> QED BY <1>3, <1>4

\* The contacts of a restored account: one of every key, and one for every crew name.
PlannedOf(c) == Back!planContacts(c) \cup Back!crewContacts(c)
LEMMA PlannedContacts ==
  ASSUME NEW c, ContentOK(c)
  PROVE  /\ PlannedOf(c) \in SUBSET Names
         /\ \A m, n \in PlannedOf(c) : m # n => KeyOf[m] # KeyOf[n]
         /\ \A i \in DOMAIN c.flights : c.flights[i].crew # Nothing => \E n \in PlannedOf(c) : KeyOf[n] = KeyOf[c.flights[i].crew]
<1>0. PICK P : P = PlannedOf(c) /\ P = Back!planContacts(c) \cup Back!crewContacts(c)
  BY DEF PlannedOf
<1> DEFINE missing == {c.flights[i].crew : i \in DOMAIN c.flights} \ {Nothing}
           known == {KeyOf[n] : n \in c.contacts}
           one(S, k) == CHOOSE n \in S : KeyOf[n] = k
<1>1. c.contacts \subseteq Names /\ missing \subseteq Names
  BY DEF ContentOK, FileFlight
<1>2. /\ Back!planContacts(c) = {one(c.contacts, k) : k \in known}
      /\ Back!crewContacts(c) = {one(missing, k) : k \in {KeyOf[n] : n \in missing} \ known}
  BY DEF Back!planContacts, Back!crewContacts
<1>3. \A S : \A k \in {KeyOf[n] : n \in S} : one(S, k) \in S /\ KeyOf[one(S, k)] = k
  OBVIOUS
<1> HIDE DEF one
<1>4. \A n \in Back!planContacts(c) : n \in c.contacts /\ KeyOf[n] \in known /\ n = one(c.contacts, KeyOf[n])
  <2> SUFFICES ASSUME NEW n \in Back!planContacts(c)
               PROVE  n \in c.contacts /\ KeyOf[n] \in known /\ n = one(c.contacts, KeyOf[n])
    OBVIOUS
  <2>1. PICK k \in known : n = one(c.contacts, k)
    BY <1>2
  <2> QED BY <1>3, <2>1
<1>5. \A n \in Back!crewContacts(c) : n \in missing /\ KeyOf[n] \notin known /\ n = one(missing, KeyOf[n])
  <2> SUFFICES ASSUME NEW n \in Back!crewContacts(c)
               PROVE  n \in missing /\ KeyOf[n] \notin known /\ n = one(missing, KeyOf[n])
    OBVIOUS
  <2>1. PICK k \in {KeyOf[m] : m \in missing} \ known : n = one(missing, k)
    BY <1>2
  <2> HIDE DEF missing, known
  <2> QED BY <1>3, <2>1
<1>6. \A m, n \in P : m # n => KeyOf[m] # KeyOf[n]
  BY <1>0, <1>4, <1>5
<1>7. ASSUME NEW i \in DOMAIN c.flights, c.flights[i].crew # Nothing PROVE \E n \in P : KeyOf[n] = KeyOf[c.flights[i].crew]
  <2> DEFINE k == KeyOf[c.flights[i].crew]
  <2>1. c.flights[i].crew \in missing /\ k \in {KeyOf[n] : n \in missing}
    BY <1>7
  <2>2. CASE k \in known
    <3>1. one(c.contacts, k) \in P /\ KeyOf[one(c.contacts, k)] = k
      BY <1>0, <1>2, <1>3, <2>2
    <3> QED BY <3>1
  <2>3. CASE k \notin known
    <3>1. one(missing, k) \in P /\ KeyOf[one(missing, k)] = k
      BY <1>0, <1>2, <1>3, <2>1, <2>3
    <3> QED BY <3>1
  <2> QED BY <2>2, <2>3
<1>8. ASSUME NEW n \in P PROVE n \in Names
  <2>1. n \in c.contacts \/ n \in missing
    BY <1>0, <1>4, <1>5
  <2> HIDE DEF missing
  <2> QED BY <1>1, <2>1
<1> QED BY <1>0, <1>6, <1>7, <1>8

\* assignFlightIDs: the ids are new or the file's own, no two rows share one, a flight keeps the
\* file's id only where its user's history of that id has no voiding, and nothing else moves.
Rows(x) == (DOMAIN x.content.flights) \cup (DOMAIN x.logbook.revs)
IdsOK(u, x, gone, ids, moved, next) ==
  /\ (DOMAIN ids) = Rows(x) /\ moved \subseteq Rows(x)
  /\ next \in 1 .. MaxId + 1 /\ next >= nextId
  /\ \A o \in Rows(x) : o \notin moved => ids[o] = o
  /\ \A o \in moved : ids[o] \in FlightIdSet /\ ids[o] >= nextId /\ ids[o] < next
  /\ \A o, p \in Rows(x) : ids[o] = ids[p] => o = p
  /\ \A o \in DOMAIN x.content.flights : o \notin moved =>
       /\ flights[o] = Nothing \/ o \in gone
       /\ \A n \in 1 .. Len(backupRevs[o]) : backupRevs[o][n].owner = u /\ backupRevs[o][n].kind # "delete"
  /\ \A o \in moved : Back!Taken(u, gone, o) \/ (o \in DOMAIN x.content.flights /\ Back!Voided(u, o))

LEMMA IdsRight ==
  ASSUME BackInv, NEW u \in Users, NEW x, FileOK(x), NEW gone, gone = {} \/ gone = Back!FlightsOf(u),
         NEW ids, ids = Back!assignFlightIDs(u, x, gone),
         nextId + Back!Cardinality(DOMAIN ids) - 1 <= MaxId,
         NEW next, next = nextId + Back!Cardinality({o \in DOMAIN ids : ids[o] >= nextId})
  PROVE  \E moved : IdsOK(u, x, gone, ids, moved, next)
<1> DEFINE M == {i \in Rows(x) : Back!Taken(u, gone, i) \/ (i \in DOMAIN x.content.flights /\ Back!Voided(u, i))}
<1>1. ids = [i \in Rows(x) |-> IF i \in M THEN nextId - 1 + Back!Nth(M, i) ELSE i]
  BY DEF Back!assignFlightIDs, Rows
<1>2. Rows(x) \subseteq 1 .. nextId - 1 /\ nextId \in Nat /\ nextId >= 1 /\ MaxId \in Nat
  BY BackIds DEF FileOK, Rows, BackInv, BackTypes
<1>3. /\ \A o \in DOMAIN x.content.flights : o \notin M => ~Back!Taken(u, gone, o) /\ ~Back!Voided(u, o)
      /\ \A o \in M : Back!Taken(u, gone, o) \/ (o \in DOMAIN x.content.flights /\ Back!Voided(u, o))
  BY DEF Rows
<1>4. M \subseteq Rows(x) /\ (DOMAIN ids) = Rows(x)
  BY <1>1 DEF Rows
<1> HIDE DEF M
<1>5. IsFiniteSet(Rows(x)) /\ IsFiniteSet(M) /\ Cardinality(Rows(x)) \in Nat /\ Cardinality(M) \in Nat /\ Cardinality(M) <= Cardinality(Rows(x))
  <2>1. IsFiniteSet(1 .. nextId - 1)
    BY <1>2, FS_Interval
  <2> QED BY <1>2, <1>4, <2>1, FS_Subset, FS_CardinalityType
<1>6. M \in SUBSET Nat /\ Rows(x) \subseteq Nat
  BY <1>2, <1>4
<1>7. PICK nth \in [M -> Nat] : /\ \A i \in M : nth[i] = Back!Nth(M, i) /\ 1 <= nth[i] /\ nth[i] <= Cardinality(M)
                                /\ \A i, j \in M : i < j => nth[i] < nth[j]
  <2> DEFINE f == [i \in M |-> Back!Nth(M, i)]
  <2>1. /\ \A i \in M : Back!Nth(M, i) \in Nat /\ 1 <= Back!Nth(M, i) /\ Back!Nth(M, i) <= Cardinality(M)
        /\ \A i, j \in M : i < j => Back!Nth(M, i) < Back!Nth(M, j)
    BY <1>5, <1>6, NthRight
  <2>2. f \in [M -> Nat] /\ \A i \in M : f[i] = Back!Nth(M, i)
    BY <2>1
  <2> HIDE DEF f
  <2> QED BY <2>1, <2>2
<1>8. \A o \in Rows(x) : o \notin M => ids[o] = o
  BY <1>1
<1>9. \A o \in M : ids[o] = nextId - 1 + nth[o]
  BY <1>1, <1>4, <1>7
<1>10. PICK k \in Nat : k = Cardinality(M)
  BY <1>5
<1>11. nextId + k - 1 <= MaxId
  <2>1. Back!Cardinality(DOMAIN ids) = Cardinality(Rows(x))
    BY <1>4, BackCardinality, Zenon
  <2>2. nextId + Cardinality(Rows(x)) - 1 <= MaxId
    BY <2>1
  <2> QED BY <1>2, <1>5, <1>10, <2>2
<1>12. \A o \in M : ids[o] >= nextId /\ ids[o] < nextId + k /\ ids[o] \in FlightIdSet
  <2> SUFFICES ASSUME NEW o \in M PROVE ids[o] >= nextId /\ ids[o] < nextId + k /\ ids[o] \in FlightIdSet
    OBVIOUS
  <2>1. nth[o] \in Nat /\ 1 <= nth[o] /\ nth[o] <= k
    BY <1>7, <1>10
  <2> QED BY <1>2, <1>9, <1>11, <2>1 DEF FlightIdSet
<1>13. \A o \in Rows(x) : o \notin M => ids[o] < nextId /\ ids[o] \in Nat
  BY <1>2, <1>8
<1>14. next = nextId + k
  <2>1. {o \in DOMAIN ids : ids[o] >= nextId} = M
    <3>1. \A o \in Rows(x) : ids[o] >= nextId <=> o \in M
      BY <1>2, <1>12, <1>13
    <3> QED BY <1>4, <3>1
  <2>2. Back!Cardinality({o \in DOMAIN ids : ids[o] >= nextId}) = k
    BY <1>10, <2>1, BackCardinality, Zenon
  <2> QED BY <2>2
<1>15. \A o, p \in Rows(x) : ids[o] = ids[p] => o = p
  <2> SUFFICES ASSUME NEW o \in Rows(x), NEW p \in Rows(x), ids[o] = ids[p] PROVE o = p
    OBVIOUS
  <2>1. CASE o \in M /\ p \in M
    <3>1. nth[o] = nth[p]
      BY <1>2, <1>7, <1>9, <2>1
    <3>2. o \in Nat /\ p \in Nat /\ nth[o] \in Nat /\ nth[p] \in Nat
      BY <1>6, <1>7, <2>1
    <3>3. ~(o < p) /\ ~(p < o)
      BY <1>7, <2>1, <3>1, <3>2
    <3> QED BY <3>2, <3>3
  <2>2. CASE o \notin M /\ p \notin M
    BY <1>8, <2>2
  <2>3. CASE o \in M /\ p \notin M
    BY <1>2, <1>12, <1>13, <2>3
  <2>4. CASE o \notin M /\ p \in M
    BY <1>2, <1>12, <1>13, <2>4
  <2> QED BY <2>1, <2>2, <2>3, <2>4
<1>16. ASSUME NEW o \in DOMAIN x.content.flights, o \notin M
       PROVE  /\ flights[o] = Nothing \/ o \in gone
              /\ \A n \in 1 .. Len(backupRevs[o]) : backupRevs[o][n].owner = u /\ backupRevs[o][n].kind # "delete"
  BY <1>3, <1>16 DEF Back!Taken, Back!Voided
<1>17. next \in 1 .. MaxId + 1 /\ next >= nextId
  BY <1>2, <1>11, <1>14
<1>18. \A o \in M : ids[o] \in FlightIdSet /\ ids[o] >= nextId /\ ids[o] < next
  BY <1>12, <1>14
<1>19. IdsOK(u, x, gone, ids, M, next)
  BY <1>3, <1>4, <1>8, <1>15, <1>16, <1>17, <1>18 DEF IdsOK
<1> QED BY <1>19, Zenon

\* What the transaction writes.
RowsWritten(u, x, gone, ids) ==
  /\ \A o \in DOMAIN x.content.flights : flights'[ids[o]] = Back!planFlight(u, x.content.flights[o])
  /\ \A i \in FlightIdSet : \/ flights'[i] = IF i \in gone THEN Nothing ELSE flights[i]
                            \/ \E o \in DOMAIN x.content.flights : ids[o] = i
Imported(u, x, ids, moved, have) ==
  /\ have \in [FlightIdSet -> Seq(RevisionRow)]
  /\ \A i \in FlightIdSet : i < nextId => have[i] = backupRevs[i]
  /\ \A i \in FlightIdSet : i >= nextId => \/ have[i] = <<>>
                                           \/ \E o \in moved \cap (DOMAIN x.logbook.revs) : ids[o] = i
  /\ \A o \in moved \cap (DOMAIN x.logbook.revs) :
       /\ Len(have[ids[o]]) = Len(x.logbook.revs[o])
       /\ \A n \in 1 .. Len(x.logbook.revs[o]) :
            have[ids[o]][n].owner = u /\ SameRevision(x.logbook.revs[o][n], have[ids[o]][n])
\* What was there stays, with what the deferred trigger adds to a flight the replacement wiped; new
\* ids have the file's history.
HistoryWritten(u, x, gone, ids, moved) ==
  /\ backupRevs' \in [FlightIdSet -> Seq(RevisionRow)]
  /\ \A i \in FlightIdSet : i < nextId =>
       /\ Len(backupRevs[i]) \in Nat /\ Len(backupRevs[i]) <= Len(backupRevs'[i])
       /\ \A n \in 1 .. Len(backupRevs[i]) : backupRevs'[i][n] = backupRevs[i][n]
       /\ \A n \in 1 .. Len(backupRevs'[i]) : n > Len(backupRevs[i]) =>
            i \in gone /\ backupRevs'[i][n].owner = u /\ (flights'[i] # Nothing => backupRevs'[i][n].kind = "update")
       /\ i \notin gone \/ (flights'[i] # Nothing /\ Back!Snap(flights'[i]) = Back!Snap(flights[i])) => backupRevs'[i] = backupRevs[i]
  /\ \A i \in FlightIdSet : i >= nextId => \/ backupRevs'[i] = <<>>
                                           \/ \E o \in moved \cap (DOMAIN x.logbook.revs) : ids[o] = i
  /\ \A o \in moved \cap (DOMAIN x.logbook.revs) :
       /\ Len(backupRevs'[ids[o]]) = Len(x.logbook.revs[o])
       /\ \A n \in 1 .. Len(x.logbook.revs[o]) :
            backupRevs'[ids[o]][n].owner = u /\ SameRevision(x.logbook.revs[o][n], backupRevs'[ids[o]][n])

\* A row that is found by its new id is the one that got it.
LEMMA ById ==
  ASSUME NEW D, NEW E, E \subseteq D, NEW ids, \A o, p \in D : ids[o] = ids[p] => o = p, NEW o \in E
  PROVE  (CHOOSE p \in E : ids[p] = ids[o]) = o
OBVIOUS

NewFlights(u, x, gone, ids) ==
  [i \in Back!IdSet |-> IF \E o \in DOMAIN x.content.flights : ids[o] = i
                        THEN Back!planFlight(u, x.content.flights[CHOOSE o \in DOMAIN x.content.flights : ids[o] = i])
                        ELSE (IF gone = {} THEN flights ELSE Back!Wiped(u))[i]]

LEMMA PlanFlightTypes ==
  ASSUME NEW u \in Users, NEW f \in FileFlight
  PROVE  Back!planFlight(u, f) \in Back!Flight
<1>1. f.reg \in Regs /\ f.crew \in Names \cup {Nothing}
  BY DEF FileFlight
<1>2. Canonical[f.reg] \in Regs
  BY <1>1, RestoreAssumption
<1>3. Back!planCrewMember(f.crew) \in {KeyOf[n] : n \in Names} \cup {Nothing}
  BY <1>1 DEF Back!planCrewMember
<1> QED BY <1>1, <1>2, <1>3 DEF Back!planFlight, Back!Flight

LEMMA RowsOfApply ==
  ASSUME BackInv, NEW u \in Users, NEW x, FileOK(x), NEW gone, gone = {} \/ gone = Back!FlightsOf(u),
         NEW ids, NEW moved, NEW next, IdsOK(u, x, gone, ids, moved, next),
         flights' = NewFlights(u, x, gone, ids)
  PROVE  /\ RowsWritten(u, x, gone, ids) /\ flights' \in [FlightIdSet -> Back!Flight \cup {Nothing}]
         /\ \A o \in Rows(x) : ids[o] \in FlightIdSet
<1>1. /\ \A o \in Rows(x) : o \notin moved => ids[o] = o
      /\ \A o \in moved : ids[o] \in FlightIdSet
      /\ \A o, p \in Rows(x) : ids[o] = ids[p] => o = p
  BY DEF IdsOK
<1>2. \A o \in Rows(x) : ids[o] \in FlightIdSet
  <2>1. Rows(x) \subseteq 1 .. nextId - 1 /\ nextId \in 1 .. MaxId + 1 /\ MaxId \in Nat
    BY BackIds DEF FileOK, Rows, BackInv, BackTypes
  <2>2. Rows(x) \subseteq FlightIdSet
    BY <2>1 DEF FlightIdSet
  <2> QED BY <1>1, <2>2
<1>3. (DOMAIN x.content.flights) \subseteq Rows(x)
  BY DEF Rows
<1>4. \A i \in FlightIdSet : (IF gone = {} THEN flights ELSE Back!Wiped(u))[i] = IF i \in gone THEN Nothing ELSE flights[i]
  BY BackIds DEF Back!Wiped
<1>5. ASSUME NEW o \in DOMAIN x.content.flights PROVE flights'[ids[o]] = Back!planFlight(u, x.content.flights[o])
  <2>1. ids[o] \in Back!IdSet
    BY <1>2, <1>3, BackIds
  <2>2. (CHOOSE p \in DOMAIN x.content.flights : ids[p] = ids[o]) = o
    BY <1>1, <1>3, ById
  <2> QED BY <2>1, <2>2 DEF NewFlights
<1>6. ASSUME NEW i \in FlightIdSet
      PROVE  \/ flights'[i] = IF i \in gone THEN Nothing ELSE flights[i]
             \/ \E o \in DOMAIN x.content.flights : ids[o] = i
  BY <1>4, BackIds DEF NewFlights
<1>7. ASSUME NEW o \in DOMAIN x.content.flights PROVE Back!planFlight(u, x.content.flights[o]) \in Back!Flight
  <2>1. x.content.flights[o] \in FileFlight
    BY DEF FileOK, ContentOK
  <2> QED BY <2>1, PlanFlightTypes
<1>8. ASSUME NEW i \in FlightIdSet PROVE flights'[i] \in Back!Flight \cup {Nothing}
  <2>1. CASE flights'[i] = IF i \in gone THEN Nothing ELSE flights[i]
    BY <2>1 DEF BackInv, BackTypes
  <2>2. CASE \E o \in DOMAIN x.content.flights : ids[o] = i
    <3>1. PICK o \in DOMAIN x.content.flights : ids[o] = i
      BY <2>2
    <3>2. flights'[i] = Back!planFlight(u, x.content.flights[o])
      BY <1>5, <3>1
    <3>3. Back!planFlight(u, x.content.flights[o]) \in Back!Flight
      BY <1>7
    <3> QED BY <3>2, <3>3
  <2> QED BY <1>6, <2>1, <2>2
<1>9. flights' \in [FlightIdSet -> Back!Flight \cup {Nothing}]
  <2>1. flights' = [i \in FlightIdSet |-> flights'[i]]
    BY BackIds DEF NewFlights
  <2> QED BY <1>8, <2>1
<1> QED BY <1>2, <1>5, <1>6, <1>9 DEF RowsWritten

LEMMA ImportRight ==
  ASSUME BackInv, NEW u \in Users, NEW x, FileOK(x), NEW gone, gone = {} \/ gone = Back!FlightsOf(u),
         NEW ids, NEW moved, NEW next, IdsOK(u, x, gone, ids, moved, next), \A o \in Rows(x) : ids[o] \in FlightIdSet,
         NEW have, have = Back!ImportLogbook(u, x, ids, backupRevs)
  PROVE  Imported(u, x, ids, moved, have)
<1>1. /\ \A o \in Rows(x) : o \notin moved => ids[o] = o
      /\ \A o \in moved : ids[o] >= nextId
      /\ \A o, p \in Rows(x) : ids[o] = ids[p] => o = p
      /\ (DOMAIN x.logbook.revs) \subseteq Rows(x) /\ Rows(x) \subseteq 1 .. nextId - 1 /\ nextId \in Nat
  BY BackIds DEF IdsOK, Rows, FileOK, BackInv, BackTypes
<1>3. \A i \in FlightIdSet : backupRevs[i] \in Seq(RevisionRow) /\ Len(backupRevs[i]) \in Nat
  BY DEF BackInv, BackTypes
<1>4. \A i \in FlightIdSet : i >= nextId => backupRevs[i] = <<>>
  BY DEF BackInv, BackTypes
<1>5. ASSUME NEW o \in DOMAIN x.logbook.revs
      PROVE  have[ids[o]] = Back!Import(u, backupRevs[ids[o]], x.logbook.revs[o])
  <2>1. ids[o] \in Back!IdSet
    BY <1>1, BackIds
  <2>2. (CHOOSE p \in DOMAIN x.logbook.revs : ids[p] = ids[o]) = o
    BY <1>1, ById
  <2> QED BY <2>1, <2>2 DEF Back!ImportLogbook
<1>6. ASSUME NEW i \in FlightIdSet PROVE have[i] = backupRevs[i] \/ \E o \in DOMAIN x.logbook.revs : ids[o] = i
  BY BackIds DEF Back!ImportLogbook
<1>7. ASSUME NEW o \in DOMAIN x.logbook.revs
      PROVE  /\ x.logbook.revs[o] \in Seq(FileRevision) /\ Len(x.logbook.revs[o]) <= Len(backupRevs[o]) /\ o \in 1 .. nextId - 1
             /\ o \in FlightIdSet
  <2>1. o \in 1 .. nextId - 1 /\ nextId \in 1 .. MaxId + 1 /\ MaxId \in Nat
    BY <1>1, BackIds DEF BackInv, BackTypes
  <2>2. o \in FlightIdSet
    BY <2>1 DEF FlightIdSet
  <2> QED BY <2>1, <2>2 DEF FileOK
<1>8. ASSUME NEW o \in DOMAIN x.logbook.revs, o \notin moved PROVE ids[o] = o /\ have[o] = backupRevs[o]
  <2>1. ids[o] = o
    BY <1>1, <1>8
  <2>2. backupRevs[o] \in Seq(RevisionRow) /\ Len(backupRevs[o]) \in Nat
    BY <1>3, <1>7
  <2>3. Len(x.logbook.revs[o]) \in Nat /\ Len(backupRevs[o]) \in Nat
    BY <1>7, <2>2
  <2>4. Len(x.logbook.revs[o]) <= Len(backupRevs[o])
    BY <1>7, <2>2, <2>3
  <2> QED BY <1>5, <1>7, <2>1, <2>2, <2>4, ImportSays
<1>9. ASSUME NEW o \in moved \cap (DOMAIN x.logbook.revs)
      PROVE  /\ have[ids[o]] \in Seq(RevisionRow) /\ Len(have[ids[o]]) = Len(x.logbook.revs[o])
             /\ \A n \in 1 .. Len(x.logbook.revs[o]) :
                  have[ids[o]][n].owner = u /\ SameRevision(x.logbook.revs[o][n], have[ids[o]][n])
  <2>1. backupRevs[ids[o]] = <<>> /\ backupRevs[ids[o]] \in Seq(RevisionRow)
    BY <1>1, <1>3, <1>4
  <2>2. x.logbook.revs[o] \in Seq(FileRevision) /\ have[ids[o]] = Back!Import(u, backupRevs[ids[o]], x.logbook.revs[o])
    BY <1>5, <1>7
  <2>3. PICK r, before : r = x.logbook.revs[o] /\ before = backupRevs[ids[o]]
    OBVIOUS
  <2>4. /\ Back!Import(u, before, r) \in Seq(RevisionRow) /\ Len(Back!Import(u, before, r)) = Len(r)
        /\ \A n \in 1 .. Len(r) : /\ Back!Import(u, before, r)[n].owner = u /\ Back!Import(u, before, r)[n].kind = r[n].kind
                                  /\ Back!Import(u, before, r)[n].snap = r[n].snap
    <3>1. r \in Seq(FileRevision) /\ before \in Seq(RevisionRow) /\ before = <<>>
      BY <2>1, <2>2, <2>3
    <3> QED BY <3>1, ImportSays
  <2> QED BY <2>2, <2>3, <2>4, Zenon DEF SameRevision
<1>10. ASSUME NEW i \in FlightIdSet, i < nextId PROVE have[i] = backupRevs[i]
  <2>1. ASSUME NEW o \in DOMAIN x.logbook.revs, ids[o] = i PROVE have[i] = backupRevs[i]
    <3>1. o \notin moved
      <4>1. i \in Nat /\ ~(i >= nextId)
        BY <1>1, <1>10 DEF FlightIdSet
      <4> QED BY <1>1, <2>1, <4>1
    <3> QED BY <1>8, <2>1, <3>1
  <2> QED BY <1>6, <2>1
<1>11. ASSUME NEW i \in FlightIdSet, i >= nextId
       PROVE  have[i] = <<>> \/ \E o \in moved \cap (DOMAIN x.logbook.revs) : ids[o] = i
  <2>1. ASSUME NEW o \in DOMAIN x.logbook.revs, ids[o] = i PROVE o \in moved
    <3> SUFFICES ASSUME o \notin moved PROVE FALSE
      OBVIOUS
    <3>1. i = o /\ o \in 1 .. nextId - 1
      BY <1>7, <1>8, <2>1
    <3> QED BY <1>1, <1>11, <3>1
  <2> QED BY <1>4, <1>6, <1>11, <2>1
<1>12. have \in [FlightIdSet -> Seq(RevisionRow)]
  <2>1. have = [i \in FlightIdSet |-> have[i]]
    BY BackIds DEF Back!ImportLogbook
  <2>2. ASSUME NEW i \in FlightIdSet PROVE have[i] \in Seq(RevisionRow)
    <3>1. i < nextId \/ i >= nextId
      BY <1>1 DEF FlightIdSet
    <3>2. CASE i < nextId
      BY <1>3, <1>10, <3>2
    <3>3. CASE i >= nextId
      <4>1. <<>> \in Seq(RevisionRow)
        OBVIOUS
      <4> QED BY <1>9, <1>11, <3>3, <4>1
    <3> QED BY <3>1, <3>2, <3>3
  <2> QED BY <2>1, <2>2
<1> QED BY <1>9, <1>10, <1>11, <1>12 DEF Imported

LEMMA HistoryOfApply ==
  ASSUME BackInv, NEW u \in Users, NEW x, FileOK(x), NEW gone, gone = {} \/ gone = Back!FlightsOf(u),
         NEW ids, NEW moved, NEW next, IdsOK(u, x, gone, ids, moved, next), \A o \in Rows(x) : ids[o] \in FlightIdSet,
         backupRevs' = Back!finalize(gone, flights', Back!ImportLogbook(u, x, ids, backupRevs))
  PROVE  HistoryWritten(u, x, gone, ids, moved)
<1>1. PICK have : have = Back!ImportLogbook(u, x, ids, backupRevs)
  OBVIOUS
<1>2. Imported(u, x, ids, moved, have)
  BY <1>1, ImportRight
<1>3. /\ gone \in SUBSET FlightIdSet /\ (\A i \in gone : flights[i] # Nothing /\ flights[i].owner = u)
      /\ \A i \in FlightIdSet : i >= nextId => flights[i] = Nothing
      /\ nextId \in Nat
  BY BackIds DEF Back!FlightsOf, BackInv, BackTypes
<1>4. have \in [FlightIdSet -> Seq(RevisionRow)]
  BY <1>2 DEF Imported
<1>5. PICK T, after : after = flights' /\ T = Back!finalize(gone, after, have) /\ backupRevs' = T
  BY <1>1
<1>6. /\ T \in [FlightIdSet -> Seq(RevisionRow)]
      /\ \A i \in FlightIdSet :
              /\ Len(have[i]) \in Nat /\ Len(have[i]) <= Len(T[i])
              /\ \A n \in 1 .. Len(have[i]) : T[i][n] = have[i][n]
              /\ \A n \in 1 .. Len(T[i]) : n > Len(have[i]) =>
                   T[i][n].owner = flights[i].owner /\ (after[i] # Nothing => T[i][n].kind = "update")
              /\ i \notin gone => T[i] = have[i]
              /\ after[i] # Nothing /\ Back!Snap(after[i]) = Back!Snap(flights[i]) => T[i] = have[i]
  <2>1. Finalized(gone, after, have, T)
    BY <1>3, <1>4, <1>5, FinalizeSays
  <2> QED BY <2>1 DEF Finalized
<1>7. ASSUME NEW i \in FlightIdSet, i < nextId
      PROVE  /\ Len(backupRevs[i]) \in Nat /\ Len(backupRevs[i]) <= Len(backupRevs'[i])
             /\ \A n \in 1 .. Len(backupRevs[i]) : backupRevs'[i][n] = backupRevs[i][n]
             /\ \A n \in 1 .. Len(backupRevs'[i]) : n > Len(backupRevs[i]) =>
                  i \in gone /\ backupRevs'[i][n].owner = u /\ (flights'[i] # Nothing => backupRevs'[i][n].kind = "update")
             /\ i \notin gone \/ (flights'[i] # Nothing /\ Back!Snap(flights'[i]) = Back!Snap(flights[i])) => backupRevs'[i] = backupRevs[i]
  <2>1. have[i] = backupRevs[i]
    BY <1>2, <1>7 DEF Imported
  <2>2. CASE i \in gone
    <3>1. flights[i].owner = u
      BY <1>3, <2>2
    <3>2. /\ Len(have[i]) \in Nat /\ Len(have[i]) <= Len(T[i])
          /\ \A n \in 1 .. Len(have[i]) : T[i][n] = have[i][n]
          /\ \A n \in 1 .. Len(T[i]) : n > Len(have[i]) =>
               T[i][n].owner = flights[i].owner /\ (after[i] # Nothing => T[i][n].kind = "update")
          /\ after[i] # Nothing /\ Back!Snap(after[i]) = Back!Snap(flights[i]) => T[i] = have[i]
      BY <1>6
    <3>3. backupRevs'[i] = T[i] /\ flights'[i] = after[i]
      BY <1>5
    <3> QED BY <2>1, <2>2, <3>1, <3>2, <3>3
  <2>3. CASE i \notin gone
    <3>1. backupRevs'[i] = backupRevs[i] /\ Len(backupRevs[i]) \in Nat
      BY <1>5, <1>6, <2>1, <2>3, Zenon
    <3> QED BY <3>1
  <2> QED BY <2>2, <2>3
<1>8. ASSUME NEW i \in FlightIdSet, i >= nextId PROVE backupRevs'[i] = have[i]
  <2>1. i \notin gone
    BY <1>3, <1>8
  <2> QED BY <1>5, <1>6, <2>1
<1>9. \A o \in moved : ids[o] \in FlightIdSet /\ ids[o] >= nextId
  BY DEF IdsOK
<1>10. \A o \in moved \cap (DOMAIN x.logbook.revs) :
         /\ Len(backupRevs'[ids[o]]) = Len(x.logbook.revs[o])
         /\ \A n \in 1 .. Len(x.logbook.revs[o]) :
              backupRevs'[ids[o]][n].owner = u /\ SameRevision(x.logbook.revs[o][n], backupRevs'[ids[o]][n])
  BY <1>2, <1>8, <1>9 DEF Imported
<1>11. \A i \in FlightIdSet : i >= nextId => \/ backupRevs'[i] = <<>>
                                             \/ \E o \in moved \cap (DOMAIN x.logbook.revs) : ids[o] = i
  BY <1>2, <1>8 DEF Imported
<1>12. backupRevs' \in [FlightIdSet -> Seq(RevisionRow)]
  BY <1>5, <1>6
<1> QED BY <1>7, <1>10, <1>11, <1>12 DEF HistoryWritten

\* What Apply does, in terms of the flights a replacement wipes and of the ids it gives.
Applies(u, x, gone, ids, moved) ==
  /\ job[u].step = "apply" /\ x = job[u].file /\ x \in backupFiles
  /\ \/ gone = Back!FlightsOf(u) /\ job[u].sigs = {} /\ job[u].mode = "replace"
     \/ gone = {} /\ account[u].contacts = {} /\ job[u].mode = "restore"
  /\ IdsOK(u, x, gone, ids, moved, nextId') /\ (\A o \in Rows(x) : ids[o] \in FlightIdSet)
  /\ RowsWritten(u, x, gone, ids) /\ flights' \in [FlightIdSet -> Back!Flight \cup {Nothing}]
  /\ HistoryWritten(u, x, gone, ids, moved)
  /\ (DOMAIN account') = Users /\ (\A v \in Users : v # u => account'[v] = account[v])
  /\ AccountOK(account'[u]) /\ account'[u].contacts = PlannedOf(x.content)
  /\ {i \in gone : flights[i].sig = "locked"} \ job[u].sigs \subseteq lost'
  /\ job' = [job EXCEPT ![u] = Back!Free] /\ backupFiles' = backupFiles

LEMMA ApplySays ==
  ASSUME BackInv, NEW u \in Users, Back!Apply(u)
  PROVE  \E x, gone, ids, moved : Applies(u, x, gone, ids, moved)
<1>1. PICK x : x = job[u].file
  OBVIOUS
<1>2. PICK gone : gone = IF job[u].mode = "replace" THEN Back!FlightsOf(u) ELSE {}
  OBVIOUS
<1>3. PICK ids : ids = Back!assignFlightIDs(u, x, gone)
  OBVIOUS
<1>4. PICK next : next = nextId + Back!Cardinality({o \in DOMAIN ids : ids[o] >= nextId})
  OBVIOUS
<1>6. PICK base : base = IF gone = {} /\ job[u].mode = "restore" THEN account[u] ELSE Back!WipeContent(u)
  OBVIOUS
<1>0. PICK c : c = x.content
  OBVIOUS
<1>7. /\ job[u].step = "apply"
      /\ nextId + Back!Cardinality(DOMAIN ids) - 1 <= MaxId
      /\ flights' = NewFlights(u, x, gone, ids)
      /\ backupRevs' = Back!finalize(gone, flights', Back!ImportLogbook(u, x, ids, backupRevs))
      /\ account' = [account EXCEPT ![u] =
           [base EXCEPT !.contacts = @ \cup Back!planContacts(c) \cup Back!crewContacts(c), !.fleet = @ \cup Back!planAircraft(c),
                        !.licences = @ \cup c.licences, !.reports = @ \cup Back!planReports(c), !.rules = @ \cup Back!planRules(c),
                        !.strict = @ \/ x.logbook.strict, !.certified = @ \cup x.logbook.certified]]
      /\ nextId' = next
      /\ lost' = lost \cup ({i \in gone : flights[i].sig = "locked"} \ job[u].sigs)
      /\ job' = [job EXCEPT ![u] = Back!Free] /\ backupFiles' = backupFiles
  BY <1>0, <1>1, <1>2, <1>3, <1>4, <1>6, ZenonT(60) DEF Back!Apply, NewFlights
<1>8. /\ x \in backupFiles /\ FileOK(x)
      /\ \/ job[u].mode = "replace" /\ job[u].sigs = {}
         \/ job[u].mode = "restore" /\ account[u].contacts = {}
  BY <1>1, <1>7 DEF BackInv, BackJobOK
<1>9. /\ \/ gone = Back!FlightsOf(u) /\ job[u].sigs = {} /\ job[u].mode = "replace"
         \/ gone = {} /\ account[u].contacts = {} /\ job[u].mode = "restore"
      /\ gone = {} \/ gone = Back!FlightsOf(u)
  BY <1>2, <1>8
<1>10. PICK moved : IdsOK(u, x, gone, ids, moved, next)
  BY <1>3, <1>4, <1>7, <1>8, <1>9, IdsRight
<1>11. /\ RowsWritten(u, x, gone, ids) /\ flights' \in [FlightIdSet -> Back!Flight \cup {Nothing}]
       /\ \A o \in Rows(x) : ids[o] \in FlightIdSet
  BY <1>7, <1>8, <1>9, <1>10, RowsOfApply, Zenon
<1>12. HistoryWritten(u, x, gone, ids, moved)
  BY <1>7, <1>8, <1>9, <1>10, <1>11, HistoryOfApply
<1>13. AccountOK(account[u])
  BY DEF BackInv, BackTypes
<1>14. AccountOK(base) /\ base.contacts = {}
  <2>1. CASE base = account[u] /\ job[u].mode = "restore"
    BY <1>8, <1>13, <2>1
  <2>2. CASE base = Back!WipeContent(u)
    <3>1. base = Bare(account[u])
      BY <2>2 DEF Back!WipeContent, Bare
    <3> QED BY <1>13, <3>1, AccountWritten
  <2> QED BY <1>6, <2>1, <2>2
<1>15. PICK P : P = PlannedOf(c)
  OBVIOUS
<1>16. P \in SUBSET Names /\ \A m, n \in P : m # n => KeyOf[m] # KeyOf[n]
  <2>1. ContentOK(c)
    BY <1>0, <1>8 DEF FileOK
  <2> QED BY <1>15, <2>1, PlannedContacts
<1>17. PICK new : new = Written(base, P, base.fleet \cup Back!planAircraft(c),
                   base.licences \cup c.licences, base.reports \cup Back!planReports(c), base.rules \cup Back!planRules(c),
                   base.strict \/ x.logbook.strict, base.certified \cup x.logbook.certified)
  OBVIOUS
<1>18. account' = [account EXCEPT ![u] = new]
  <2>1. base.contacts \cup Back!planContacts(c) \cup Back!crewContacts(c) = P
    BY <1>14, <1>15 DEF PlannedOf
  <2> QED BY <1>7, <1>17, <2>1 DEF Written
<1>19. AccountOK(new) /\ new.contacts = P
  BY <1>14, <1>16, <1>17, AccountWritten
<1>21. /\ (DOMAIN account') = Users /\ (\A v \in Users : v # u => account'[v] = account[v])
       /\ account'[u] = new
  BY <1>18, SMTT(60) DEF BackInv, BackTypes
<1>20. Applies(u, x, gone, ids, moved)
  BY <1>0, <1>1, <1>7, <1>8, <1>9, <1>10, <1>11, <1>12, <1>15, <1>19, <1>21 DEF Applies
<1> QED BY <1>20, Zenon

\* The ids of the flights after Apply: what was there and not wiped, or a flight of the file under
\* the file's id, or one under a new id.
LEMMA FlightsAfter ==
  ASSUME BackInv, NEW u \in Users, NEW x, NEW gone, NEW ids, NEW moved, Applies(u, x, gone, ids, moved),
         NEW i \in FlightIdSet
  PROVE  \/ i \notin gone /\ flights'[i] = flights[i]
         \/ i \in gone /\ flights'[i] = Nothing
         \/ \E o \in DOMAIN x.content.flights :
              /\ ids[o] = i /\ flights'[i] = Back!planFlight(u, x.content.flights[o])
              /\ o \in moved \/ (o \notin moved /\ o = i)
<1>1. CASE flights'[i] = IF i \in gone THEN Nothing ELSE flights[i]
  BY <1>1
<1>2. CASE \E o \in DOMAIN x.content.flights : ids[o] = i
  <2>1. PICK o \in DOMAIN x.content.flights : ids[o] = i
    BY <1>2
  <2>2. flights'[i] = Back!planFlight(u, x.content.flights[o])
    BY <2>1 DEF Applies, RowsWritten
  <2>3. o \notin moved => o = i
    BY <2>1 DEF Applies, IdsOK, Rows
  <2> QED BY <2>1, <2>2, <2>3
<1> QED BY <1>1, <1>2 DEF Applies, RowsWritten

LEMMA PlanFlightSays ==
  ASSUME NEW u, NEW f
  PROVE  /\ Back!planFlight(u, f).owner = u /\ Back!planFlight(u, f).crew = f.crew
         /\ Back!planFlight(u, f).link = IF f.crew = Nothing THEN Nothing ELSE KeyOf[f.crew]
         /\ Back!planFlight(u, f).reg = Canonical[f.reg] /\ Back!planFlight(u, f).sig = "none"
BY DEF Back!planFlight, Back!planCrewMember

LEMMA ApplyHistory ==
  ASSUME BackInv, NEW u \in Users, NEW x, NEW gone, NEW ids, NEW moved, Applies(u, x, gone, ids, moved)
  PROVE  /\ gone \in SUBSET FlightIdSet /\ \A i \in gone : flights[i] # Nothing /\ flights[i].owner = u
         /\ nextId \in Nat /\ nextId' \in Nat /\ nextId <= nextId' /\ FlightIdSet \subseteq Nat /\ nextId' \in 1 .. MaxId + 1
         /\ \A i \in FlightIdSet : i < nextId =>
              /\ Len(backupRevs[i]) \in Nat /\ Len(backupRevs[i]) <= Len(backupRevs'[i])
              /\ \A n \in 1 .. Len(backupRevs[i]) : backupRevs'[i][n] = backupRevs[i][n]
              /\ \A n \in 1 .. Len(backupRevs'[i]) : n > Len(backupRevs[i]) =>
                   i \in gone /\ backupRevs'[i][n].owner = u /\ (flights'[i] # Nothing => backupRevs'[i][n].kind = "update")
              /\ i \notin gone => backupRevs'[i] = backupRevs[i]
<1>1. gone = {} \/ gone = Back!FlightsOf(u)
  BY DEF Applies
<1>2. gone \in SUBSET FlightIdSet /\ \A i \in gone : flights[i] # Nothing /\ flights[i].owner = u
  BY <1>1, BackIds DEF Back!FlightsOf
<1>3. /\ nextId \in Nat /\ nextId' \in Nat /\ nextId <= nextId' /\ FlightIdSet \subseteq Nat /\ nextId' \in 1 .. MaxId + 1
  <2>1. nextId \in 1 .. MaxId + 1 /\ nextId' \in 1 .. MaxId + 1 /\ nextId' >= nextId /\ MaxId \in Nat
    BY BackIds DEF Applies, IdsOK, BackInv, BackTypes
  <2> QED BY <2>1 DEF FlightIdSet
<1>4. HistoryWritten(u, x, gone, ids, moved)
  BY DEF Applies
<1> QED BY <1>2, <1>3, <1>4, Zenon DEF HistoryWritten

LEMMA ApplyGrows ==
  ASSUME BackInv, NEW u \in Users, NEW x, NEW gone, NEW ids, NEW moved, Applies(u, x, gone, ids, moved), NEW i \in FlightIdSet
  PROVE  Grows(i)
<1>1. nextId \in Nat /\ i \in Nat
  BY ApplyHistory
<1>2. CASE i < nextId
  <2>1. backupRevs'[i] \in Seq(RevisionRow)
    BY DEF Applies, HistoryWritten
  <2>2. Len(backupRevs'[i]) \in Nat
    BY <2>1
  <2>3. /\ Len(backupRevs[i]) \in Nat /\ Len(backupRevs[i]) <= Len(backupRevs'[i])
        /\ \A n \in 1 .. Len(backupRevs[i]) : backupRevs'[i][n] = backupRevs[i][n]
    BY <1>2, ApplyHistory
  <2>4. \A n \in 1 .. Len(backupRevs[i]) : n <= Len(backupRevs'[i])
    BY <2>2, <2>3
  <2> QED BY <2>3, <2>4 DEF Grows
<1>3. CASE i >= nextId
  <2>1. backupRevs[i] = <<>>
    BY <1>3 DEF BackInv, BackTypes
  <2> QED BY <2>1 DEF Grows
<1> QED BY <1>1, <1>2, <1>3

LEMMA ApplyTypes ==
  ASSUME BackInv, NEW u \in Users, NEW x, NEW gone, NEW ids, NEW moved, Applies(u, x, gone, ids, moved)
  PROVE  BackTypes'
<1>1. flights' \in [FlightIdSet -> Back!Flight \cup {Nothing}] /\ backupRevs' \in [FlightIdSet -> Seq(RevisionRow)]
  BY DEF Applies, HistoryWritten
<1>2. (DOMAIN account') = Users /\ \A v \in Users : AccountOK(account'[v])
  BY DEF Applies, BackInv, BackTypes
<1>3. (DOMAIN job') = Users
  BY DEF Applies, BackInv, BackTypes
<1>4. nextId \in Nat /\ nextId' \in Nat /\ nextId <= nextId' /\ FlightIdSet \subseteq Nat /\ nextId' \in 1 .. MaxId + 1
  BY ApplyHistory
<1>5. ASSUME NEW i \in FlightIdSet, i >= nextId' PROVE flights'[i] = Nothing /\ backupRevs'[i] = <<>>
  <2>1. i >= nextId /\ \A k \in Nat : k < nextId' => k # i
    BY <1>4, <1>5
  <2>2. flights[i] = Nothing
    BY <2>1 DEF BackInv, BackTypes
  <2>3. \A o \in moved : ids[o] # i
    <3>1. \A o \in moved : ids[o] \in FlightIdSet /\ ids[o] < nextId'
      BY DEF Applies, IdsOK
    <3> QED BY <1>4, <2>1, <3>1
  <2>4. \A o \in DOMAIN x.content.flights : ids[o] # i
    <3> SUFFICES ASSUME NEW o \in DOMAIN x.content.flights, ids[o] = i PROVE FALSE
      OBVIOUS
    <3>1. o \notin moved
      BY <2>3
    <3>2. o \in 1 .. nextId - 1 /\ ids[o] = o
      BY <3>1 DEF Applies, IdsOK, Rows, BackInv, FileOK
    <3>3. i \in 1 .. nextId - 1 /\ i >= nextId
      BY <2>1, <3>2
    <3> QED BY <1>4, <3>3
  <2>5. flights'[i] = Nothing
    BY <2>2, <2>4, FlightsAfter
  <2>6. backupRevs'[i] = <<>>
    BY <2>1, <2>3 DEF Applies, HistoryWritten
  <2> QED BY <2>5, <2>6
<1> QED BY <1>1, <1>2, <1>3, <1>4, <1>5 DEF BackTypes

LEMMA Widen == ASSUME NEW a \in Nat, NEW b \in Nat, a <= b PROVE 1 .. a - 1 \subseteq 1 .. b - 1
OBVIOUS

LEMMA ApplyJobs ==
  ASSUME BackInv, NEW u \in Users, NEW x, NEW gone, NEW ids, NEW moved, Applies(u, x, gone, ids, moved), NEW v \in Users
  PROVE  BackJobOK(v)'
<1>1. /\ job' = [job EXCEPT ![u] = Back!Free] /\ backupFiles' = backupFiles
      /\ \A w \in Users : w # u => account'[w] = account[w]
  BY DEF Applies
<1>2. CASE v = u
  <2>1. job'[v] = Back!Free
    BY <1>1, <1>2 DEF BackInv, BackTypes
  <2> QED BY <2>1, FreeJobOK
<1>3. CASE v # u
  <2>1. job'[v] = job[v] /\ account'[v] = account[v]
    BY <1>1, <1>3 DEF BackInv, BackTypes
  <2>2. 1 .. nextId - 1 \subseteq 1 .. nextId' - 1
    <3>1. nextId \in Nat /\ nextId' \in Nat /\ nextId <= nextId'
      BY ApplyHistory
    <3> QED BY <3>1, Widen, Zenon
  <2> QED BY <1>1, <2>1, <2>2 DEF BackInv, BackJobOK
<1> QED BY <1>2, <1>3

\* A flight of the file under the file's id finds only its user's history of it, without a voiding.
LEMMA KeptId ==
  ASSUME BackInv, NEW u \in Users, NEW x, NEW gone, NEW ids, NEW moved, Applies(u, x, gone, ids, moved),
         NEW o \in DOMAIN x.content.flights, o \notin moved
  PROVE  /\ o \in FlightIdSet /\ o < nextId /\ ids[o] = o /\ (flights[o] = Nothing \/ o \in gone)
         /\ \A n \in 1 .. Len(backupRevs[o]) : backupRevs[o][n].owner = u /\ backupRevs[o][n].kind # "delete"
<1>1. /\ ids[o] = o /\ ids[o] \in FlightIdSet /\ o \in 1 .. nextId - 1
  BY DEF Applies, IdsOK, Rows, BackInv, FileOK
<1>2. /\ flights[o] = Nothing \/ o \in gone
      /\ \A n \in 1 .. Len(backupRevs[o]) : backupRevs[o][n].owner = u /\ backupRevs[o][n].kind # "delete"
  BY DEF Applies, IdsOK
<1>3. o \in FlightIdSet /\ o < nextId
  <2>1. nextId \in Nat
    BY ApplyHistory
  <2> QED BY <1>1, <2>1
<1> QED BY <1>1, <1>2, <1>3

\* A row under a new id.
LEMMA NewId ==
  ASSUME BackInv, NEW u \in Users, NEW x, NEW gone, NEW ids, NEW moved, Applies(u, x, gone, ids, moved),
         NEW i \in FlightIdSet, i >= nextId
  PROVE  /\ flights[i] = Nothing /\ i \notin gone
         /\ \A n \in 1 .. Len(backupRevs'[i]) :
              /\ backupRevs'[i][n].owner = u
              /\ \E p \in moved \cap (DOMAIN x.logbook.revs) : ids[p] = i /\ n \in 1 .. Len(x.logbook.revs[p]) /\ backupRevs'[i][n].kind = x.logbook.revs[p][n].kind
<1>1. flights[i] = Nothing
  BY DEF BackInv, BackTypes
<1>2. i \notin gone
  BY <1>1, ApplyHistory
<1>3. ASSUME NEW n \in 1 .. Len(backupRevs'[i])
      PROVE  /\ backupRevs'[i][n].owner = u
             /\ \E p \in moved \cap (DOMAIN x.logbook.revs) : ids[p] = i /\ n \in 1 .. Len(x.logbook.revs[p]) /\ backupRevs'[i][n].kind = x.logbook.revs[p][n].kind
  <2>1. backupRevs'[i] # <<>>
    BY <1>3
  <2>2. PICK p \in moved \cap (DOMAIN x.logbook.revs) : ids[p] = i
    BY <2>1 DEF Applies, HistoryWritten
  <2>3. /\ Len(backupRevs'[i]) = Len(x.logbook.revs[p])
        /\ \A m \in 1 .. Len(x.logbook.revs[p]) : backupRevs'[i][m].owner = u /\ backupRevs'[i][m].kind = x.logbook.revs[p][m].kind
    BY <2>2 DEF Applies, HistoryWritten, SameRevision
  <2> QED BY <2>2, <2>3
<1> QED BY <1>1, <1>2, <1>3

LEMMA ApplyOwners ==
  ASSUME BackInv, NEW u \in Users, NEW x, NEW gone, NEW ids, NEW moved, Applies(u, x, gone, ids, moved), NEW i \in FlightIdSet
  PROVE  OneOwner(i)'
<1>0. OneOwner(i) /\ i \in Nat /\ nextId \in Nat
  BY ApplyHistory DEF BackInv
<1>1. CASE i < nextId
  <2>1. PICK w : \A n \in 1 .. Len(backupRevs'[i]) : backupRevs'[i][n].owner = w /\ (flights'[i] # Nothing => flights'[i].owner = w)
    <3>0. /\ Len(backupRevs[i]) \in Nat /\ Len(backupRevs[i]) <= Len(backupRevs'[i])
          /\ \A n \in 1 .. Len(backupRevs[i]) : backupRevs'[i][n] = backupRevs[i][n]
          /\ \A n \in 1 .. Len(backupRevs'[i]) : n > Len(backupRevs[i]) => i \in gone /\ backupRevs'[i][n].owner = u
          /\ i \notin gone => backupRevs'[i] = backupRevs[i]
      BY <1>1, ApplyHistory
    <3>1. CASE i \in gone
      <4>1. flights[i] # Nothing /\ flights[i].owner = u
        BY <3>1, ApplyHistory
      <4>2. \A n \in 1 .. Len(backupRevs'[i]) : backupRevs'[i][n].owner = u
        <5> SUFFICES ASSUME NEW n \in 1 .. Len(backupRevs'[i]) PROVE backupRevs'[i][n].owner = u
          OBVIOUS
        <5>1. n \in 1 .. Len(backupRevs[i]) \/ n > Len(backupRevs[i])
          BY <3>0
        <5> QED BY <1>0, <3>0, <4>1, <5>1 DEF OneOwner
      <4>3. flights'[i] # Nothing => flights'[i].owner = u
        BY <3>1, FlightsAfter, PlanFlightSays
      <4> QED BY <4>2, <4>3
    <3>2. CASE i \notin gone /\ flights'[i] = flights[i]
      <4>1. backupRevs'[i] = backupRevs[i]
        BY <3>0, <3>2
      <4>2. \A n, m \in 1 .. Len(backupRevs[i]) : backupRevs[i][n].owner = backupRevs[i][m].owner
        BY <1>0 DEF OneOwner
      <4>3. flights[i] # Nothing => \A n \in 1 .. Len(backupRevs[i]) : backupRevs[i][n].owner = flights[i].owner
        BY <1>0 DEF OneOwner
      <4>4. CASE flights[i] # Nothing
        BY <3>2, <4>1, <4>3, <4>4
      <4>5. CASE flights[i] = Nothing
        <5>1. \E w : \A n \in 1 .. Len(backupRevs[i]) : backupRevs[i][n].owner = w
          BY <4>2
        <5> QED BY <3>2, <4>1, <4>5, <5>1
      <4> QED BY <4>4, <4>5
    <3>3. CASE i \notin gone /\ \E o \in DOMAIN x.content.flights :
                 /\ ids[o] = i /\ flights'[i] = Back!planFlight(u, x.content.flights[o])
                 /\ o \in moved \/ (o \notin moved /\ o = i)
      <4>1. PICK o \in DOMAIN x.content.flights :
                 /\ ids[o] = i /\ flights'[i] = Back!planFlight(u, x.content.flights[o])
                 /\ o \in moved \/ (o \notin moved /\ o = i)
        BY <3>3
      <4>2. o \notin moved
        <5>1. o \in moved => i >= nextId
          BY <4>1 DEF Applies, IdsOK
        <5> QED BY <1>0, <1>1, <5>1
      <4>3. o = i
        BY <4>1, <4>2
      <4>4. \A n \in 1 .. Len(backupRevs'[i]) : backupRevs'[i][n].owner = u
        BY <3>0, <3>3, <4>2, <4>3, KeptId
      <4>5. flights'[i].owner = u
        BY <4>1, PlanFlightSays
      <4> QED BY <4>4, <4>5
    <3>4. \/ i \in gone \/ (i \notin gone /\ flights'[i] = flights[i])
          \/ \E o \in DOMAIN x.content.flights :
                 /\ ids[o] = i /\ flights'[i] = Back!planFlight(u, x.content.flights[o])
                 /\ o \in moved \/ (o \notin moved /\ o = i)
      BY FlightsAfter
    <3> QED BY <3>1, <3>2, <3>3, <3>4
  <2> QED BY <2>1 DEF OneOwner
<1>2. CASE i >= nextId
  <2>1. \A n \in 1 .. Len(backupRevs'[i]) : backupRevs'[i][n].owner = u
    BY <1>2, NewId
  <2>2. flights[i] = Nothing /\ i \notin gone
    BY <1>2, NewId
  <2>3. flights'[i] # Nothing => flights'[i].owner = u
    BY <2>2, FlightsAfter, PlanFlightSays
  <2> QED BY <2>1, <2>3 DEF OneOwner
<1> QED BY <1>0, <1>1, <1>2

LEMMA ApplyVoids ==
  ASSUME BackInv, NEW u \in Users, NEW x, NEW gone, NEW ids, NEW moved, Applies(u, x, gone, ids, moved), AllWhole'
  PROVE  WholeFiles' /\ VoidsGone'
<1>1. backupFiles' = backupFiles /\ x \in backupFiles
  BY DEF Applies
<1>2. WholeFiles /\ VoidsGone
  BY <1>1 DEF BackInv, AllWhole
<1>3. WholeFiles'
  BY <1>1, <1>2 DEF WholeFiles
<1>4. ASSUME NEW i \in FlightIdSet, flights'[i] # Nothing, NEW n \in 1 .. Len(backupRevs'[i]) PROVE backupRevs'[i][n].kind # "delete"
  <2>0. i \in Nat /\ nextId \in Nat
    BY ApplyHistory
  <2>1. CASE i \notin gone /\ flights'[i] = flights[i]
    <3>1. i < nextId
      <4>1. ~(i >= nextId)
        BY <1>4, <2>1 DEF BackInv, BackTypes
      <4> QED BY <2>0, <4>1
    <3>2. backupRevs'[i] = backupRevs[i]
      BY <2>1, <3>1, ApplyHistory
    <3> QED BY <1>2, <1>4, <2>1, <3>2 DEF VoidsGone, NoVoid
  <2>2. CASE \E o \in DOMAIN x.content.flights :
               /\ ids[o] = i /\ flights'[i] = Back!planFlight(u, x.content.flights[o])
               /\ o \in moved \/ (o \notin moved /\ o = i)
    <3>1. PICK o \in DOMAIN x.content.flights : ids[o] = i /\ (o \in moved \/ (o \notin moved /\ o = i))
      BY <2>2
    <3>2. CASE o \notin moved
      <4>1. /\ i < nextId /\ o = i
            /\ \A m \in 1 .. Len(backupRevs[i]) : backupRevs[i][m].kind # "delete"
        BY <3>1, <3>2, KeptId
      <4>2. /\ Len(backupRevs[i]) \in Nat
            /\ \A m \in 1 .. Len(backupRevs[i]) : backupRevs'[i][m] = backupRevs[i][m]
            /\ \A m \in 1 .. Len(backupRevs'[i]) : m > Len(backupRevs[i]) => backupRevs'[i][m].kind = "update"
        BY <1>4, <4>1, ApplyHistory
      <4>3. n \in 1 .. Len(backupRevs[i]) \/ n > Len(backupRevs[i])
        BY <1>4, <4>2
      <4> QED BY <1>4, <4>1, <4>2, <4>3
    <3>3. CASE o \in moved
      <4>1. i >= nextId
        BY <3>1, <3>3 DEF Applies, IdsOK
      <4>2. PICK p \in moved \cap (DOMAIN x.logbook.revs) : ids[p] = i /\ n \in 1 .. Len(x.logbook.revs[p]) /\ backupRevs'[i][n].kind = x.logbook.revs[p][n].kind
        BY <1>4, <4>1, NewId
      <4>3. p = o
        <5>1. p \in Rows(x) /\ o \in Rows(x)
          BY DEF Rows
        <5> QED BY <3>1, <4>2, <5>1 DEF Applies, IdsOK
      <4>4. NoVoid(x.logbook.revs[o])
        BY <1>1, <1>2, <4>2, <4>3 DEF WholeFiles
      <4> QED BY <4>2, <4>3, <4>4 DEF NoVoid
    <3> QED BY <3>2, <3>3
  <2> QED BY <1>4, <2>1, <2>2, FlightsAfter
<1> QED BY <1>3, <1>4 DEF VoidsGone, NoVoid

LEMMA ApplyLinks ==
  ASSUME BackInv, NEW u \in Users, NEW x, NEW gone, NEW ids, NEW moved, Applies(u, x, gone, ids, moved)
  PROVE  CrewLinked'
<1> SUFFICES ASSUME NEW i \in FlightIdSet, flights'[i] # Nothing, flights'[i].link # Nothing
             PROVE  \E n \in account'[flights'[i].owner].contacts : KeyOf[n] = flights'[i].link
  BY DEF CrewLinked
<1>1. CASE i \notin gone /\ flights'[i] = flights[i]
  <2>1. \E n \in account[flights[i].owner].contacts : KeyOf[n] = flights[i].link
    BY <1>1 DEF BackInv, CrewLinked
  <2>2. flights[i].owner # u
    <3> SUFFICES ASSUME flights[i].owner = u PROVE FALSE
      OBVIOUS
    <3>1. i \in Back!FlightsOf(u)
      BY <1>1, BackIds DEF Back!FlightsOf
    <3>2. account[u].contacts # {}
      BY <2>1
    <3> QED BY <1>1, <3>1, <3>2 DEF Applies
  <2>3. flights[i].owner \in Users
    BY <1>1 DEF BackInv, BackTypes, Back!Flight
  <2>4. account'[flights[i].owner] = account[flights[i].owner]
    BY <2>2, <2>3 DEF Applies
  <2> QED BY <1>1, <2>1, <2>4
<1>2. CASE \E o \in DOMAIN x.content.flights : flights'[i] = Back!planFlight(u, x.content.flights[o])
  <2>1. PICK o \in DOMAIN x.content.flights : flights'[i] = Back!planFlight(u, x.content.flights[o])
    BY <1>2
  <2>2. /\ flights'[i].owner = u /\ x.content.flights[o].crew # Nothing
        /\ flights'[i].link = KeyOf[x.content.flights[o].crew]
    BY <2>1, PlanFlightSays
  <2>3. ContentOK(x.content)
    BY DEF Applies, BackInv, FileOK
  <2>4. \E n \in PlannedOf(x.content) : KeyOf[n] = KeyOf[x.content.flights[o].crew]
    BY <2>2, <2>3, PlannedContacts
  <2>5. account'[u].contacts = PlannedOf(x.content)
    BY DEF Applies
  <2> QED BY <2>2, <2>4, <2>5
<1> QED BY <1>1, <1>2, FlightsAfter

\* Only the restore that commits ends.
LEMMA OnlyThisJob ==
  ASSUME BackInv, NEW u \in Users, NEW x, NEW gone, NEW ids, NEW moved, Applies(u, x, gone, ids, moved),
         NEW v \in Users, job[v].step = "apply", job'[v] = Back!Free
  PROVE  v = u /\ x = job[v].file /\ x \in backupFiles /\ FileOK(x)
<1>1. Back!Free.step = "idle"
  BY DEF Back!Free
<1>2. v # u => job'[v] = job[v]
  BY DEF Applies, BackInv, BackTypes
<1> QED BY <1>1, <1>2 DEF Applies, BackInv

\* A flight of the file has the file's history of it, under its own id or a new one.
LEMMA ApplyRestoresOne ==
  ASSUME BackInv, NEW u \in Users, NEW x, NEW gone, NEW ids, NEW moved, Applies(u, x, gone, ids, moved), FileOK(x),
         NEW o \in (DOMAIN x.content.flights) \cap (DOMAIN x.logbook.revs), NEW n \in 1 .. Len(x.logbook.revs[o])
  PROVE  n <= Len(backupRevs'[ids[o]]) /\ SameRevision(x.logbook.revs[o][n], backupRevs'[ids[o]][n])
<1>0. Len(x.logbook.revs[o]) \in Nat
  BY FileLength
<1>1. CASE o \in moved
  <2>1. /\ Len(backupRevs'[ids[o]]) = Len(x.logbook.revs[o])
        /\ \A m \in 1 .. Len(x.logbook.revs[o]) : SameRevision(x.logbook.revs[o][m], backupRevs'[ids[o]][m])
    BY <1>1 DEF Applies, HistoryWritten
  <2> QED BY <1>0, <2>1
<1>2. CASE o \notin moved
  <2>1. ids[o] = o /\ o \in FlightIdSet /\ o < nextId
    BY <1>2, KeptId
  <2>2. /\ Len(backupRevs[o]) \in Nat /\ Len(backupRevs[o]) <= Len(backupRevs'[o])
        /\ \A m \in 1 .. Len(backupRevs[o]) : backupRevs'[o][m] = backupRevs[o][m]
    BY <2>1, ApplyHistory
  <2>3. /\ Len(x.logbook.revs[o]) <= Len(backupRevs[o])
        /\ \A m \in 1 .. Len(x.logbook.revs[o]) : SameRevision(x.logbook.revs[o][m], backupRevs[o][m])
    BY DEF FileOK
  <2>4. backupRevs'[o] \in Seq(RevisionRow)
    BY <2>1 DEF Applies, HistoryWritten
  <2>5. n \in 1 .. Len(backupRevs[o]) /\ n <= Len(backupRevs'[o])
    BY <1>0, <2>2, <2>3, <2>4
  <2> QED BY <2>1, <2>2, <2>3, <2>5
<1> QED BY <1>1, <1>2

LEMMA ApplyRestores ==
  ASSUME BackInv, NEW u \in Users, NEW x, NEW gone, NEW ids, NEW moved, Applies(u, x, gone, ids, moved)
  PROVE  Back!RestoredWithHistoryStep
<1> SUFFICES ASSUME NEW v \in Users, job[v].step = "apply", job'[v] = Back!Free
             PROVE  \E at \in [DOMAIN job[v].file.content.flights -> Back!IdSet] :
                      /\ \A o, p \in DOMAIN job[v].file.content.flights : at[o] = at[p] => o = p
                      /\ \A o \in DOMAIN job[v].file.content.flights :
                           /\ flights'[at[o]] = Back!planFlight(v, job[v].file.content.flights[o])
                           /\ o \in DOMAIN job[v].file.logbook.revs =>
                                \A n \in 1 .. Len(job[v].file.logbook.revs[o]) :
                                  n <= Len(backupRevs'[at[o]]) /\ [kind |-> backupRevs'[at[o]][n].kind, snap |-> backupRevs'[at[o]][n].snap] = job[v].file.logbook.revs[o][n]
  BY Zenon DEF Back!RestoredWithHistoryStep
<1>1. v = u /\ x = job[v].file /\ FileOK(x)
  BY OnlyThisJob
<1>2. PICK D : D = DOMAIN x.content.flights
  OBVIOUS
<1>3. PICK at : at = [o \in D |-> ids[o]]
  OBVIOUS
<1>4. D \subseteq Rows(x)
  BY <1>2 DEF Rows
<1>5. at \in [D -> Back!IdSet] /\ \A o \in D : at[o] = ids[o]
  BY <1>3, <1>4, BackIds DEF Applies
<1>6. \A o, p \in D : at[o] = at[p] => o = p
  BY <1>4, <1>5 DEF Applies, IdsOK
<1>7. \A o \in D : flights'[at[o]] = Back!planFlight(u, x.content.flights[o])
  BY <1>2, <1>5 DEF Applies, RowsWritten
<1>8. ASSUME NEW o \in D, o \in DOMAIN x.logbook.revs, NEW n \in 1 .. Len(x.logbook.revs[o])
      PROVE  n <= Len(backupRevs'[at[o]]) /\ [kind |-> backupRevs'[at[o]][n].kind, snap |-> backupRevs'[at[o]][n].snap] = x.logbook.revs[o][n]
  <2>1. n <= Len(backupRevs'[ids[o]]) /\ SameRevision(x.logbook.revs[o][n], backupRevs'[ids[o]][n])
    BY <1>1, <1>2, <1>8, ApplyRestoresOne
  <2>2. x.logbook.revs[o] \in Seq(FileRevision)
    BY <1>1, <1>8 DEF FileOK
  <2>3. x.logbook.revs[o][n] \in FileRevision
    BY <1>8, <2>2
  <2>4. x.logbook.revs[o][n] = [kind |-> x.logbook.revs[o][n].kind, snap |-> x.logbook.revs[o][n].snap]
    BY <2>3 DEF FileRevision
  <2> QED BY <1>5, <2>1, <2>4 DEF SameRevision
<1>9. /\ \A o \in D : o \in DOMAIN x.logbook.revs =>
           \A n \in 1 .. Len(x.logbook.revs[o]) :
             n <= Len(backupRevs'[at[o]]) /\ [kind |-> backupRevs'[at[o]][n].kind, snap |-> backupRevs'[at[o]][n].snap] = x.logbook.revs[o][n]
      /\ \A o \in D : flights'[at[o]] = Back!planFlight(v, x.content.flights[o])
  BY <1>1, <1>7, <1>8
<1>10. \E y \in [D -> Back!IdSet] :
         /\ \A o, p \in D : y[o] = y[p] => o = p
         /\ \A o \in D :
              /\ flights'[y[o]] = Back!planFlight(v, x.content.flights[o])
              /\ o \in DOMAIN x.logbook.revs =>
                   \A n \in 1 .. Len(x.logbook.revs[o]) :
                     n <= Len(backupRevs'[y[o]]) /\ [kind |-> backupRevs'[y[o]][n].kind, snap |-> backupRevs'[y[o]][n].snap] = x.logbook.revs[o][n]
  BY <1>5, <1>6, <1>9, Zenon
<1>11. x = job[v].file /\ D = DOMAIN job[v].file.content.flights
  BY <1>1, <1>2
<1> QED BY <1>10, <1>11

\* A replacement with the account's own backup moves no row and finds every flight as it was.
LEMMA ApplyOwnBackup ==
  ASSUME BackInv, NEW u \in Users, NEW x, NEW gone, NEW ids, NEW moved, Applies(u, x, gone, ids, moved)
  PROVE  Back!OwnBackupChangesNothingStep
<1> SUFFICES ASSUME AllWhole, NEW v \in Users, job[v].step = "apply", job[v].mode = "replace", job'[v] = Back!Free,
                    Back!OwnBackup(v, job[v].file)
             PROVE  /\ backupRevs' = backupRevs
                    /\ \A i \in FlightIdSet :
                         IF i \in Back!FlightsOf(v) THEN flights'[i] # Nothing /\ Back!Snap(flights'[i]) = Back!Snap(flights[i])
                         ELSE flights'[i] = flights[i]
  BY BackIds, Zenon DEF Back!OwnBackupChangesNothingStep, AllWhole
<1>1. v = u /\ x = job[v].file /\ FileOK(x)
  BY OnlyThisJob
<1>2. gone = Back!FlightsOf(u)
  BY <1>1 DEF Applies
<1>3. /\ x.content.flights = [i \in gone |-> Back!Snap(flights[i])]
      /\ (DOMAIN x.logbook.revs) = Back!OwnRevs(u)
  BY <1>1, <1>2 DEF Back!OwnBackup, Back!gatherContent, Back!gatherLogbook, Back!Snap
<1>4. gone \subseteq FlightIdSet /\ \A i \in FlightIdSet : i \in gone <=> flights[i] # Nothing /\ flights[i].owner = u
  BY <1>2, BackIds DEF Back!FlightsOf
<1>5. VoidsGone
  BY DEF BackInv
<1>6. moved = {}
  <2> SUFFICES ASSUME NEW o \in moved PROVE FALSE
    OBVIOUS
  <2>1. o \in Rows(x) /\ (Back!Taken(u, gone, o) \/ (o \in DOMAIN x.content.flights /\ Back!Voided(u, o)))
    BY DEF Applies, IdsOK
  <2>2. o \in gone \/ o \in Back!OwnRevs(u)
    BY <1>3, <2>1 DEF Rows
  <2>3. o \in FlightIdSet /\ OneOwner(o)
    BY <1>4, <2>2, BackIds DEF Back!OwnRevs, BackInv
  <2>4. CASE o \in gone
    <3>1. flights[o] # Nothing /\ flights[o].owner = u
      BY <1>4, <2>4
    <3>2. \A n \in 1 .. Len(backupRevs[o]) : backupRevs[o][n].owner = u /\ backupRevs[o][n].kind # "delete"
      BY <1>5, <2>3, <3>1 DEF OneOwner, VoidsGone, NoVoid
    <3> QED BY <2>1, <2>4, <3>2 DEF Back!Taken, Back!Voided
  <2>5. CASE o \notin gone /\ o \in Back!OwnRevs(u)
    <3>1. PICK m \in 1 .. Len(backupRevs[o]) : backupRevs[o][m].owner = u
      BY <2>5 DEF Back!OwnRevs
    <3>2. \A n \in 1 .. Len(backupRevs[o]) : backupRevs[o][n].owner = u
      BY <2>3, <3>1 DEF OneOwner
    <3>3. flights[o] = Nothing
      BY <1>4, <2>3, <2>5, <3>1 DEF OneOwner
    <3>4. o \notin DOMAIN x.content.flights
      BY <1>3, <2>5
    <3> QED BY <2>1, <3>2, <3>3, <3>4 DEF Back!Taken
  <2> QED BY <2>2, <2>4, <2>5
<1>7. ASSUME NEW i \in gone PROVE flights'[i] # Nothing /\ Back!Snap(flights'[i]) = Back!Snap(flights[i])
  <2>1. i \in DOMAIN x.content.flights /\ ids[i] = i
    BY <1>3, <1>6 DEF Applies, IdsOK, Rows
  <2>2. flights'[i] = Back!planFlight(u, x.content.flights[i]) /\ x.content.flights[i] = Back!Snap(flights[i])
    BY <1>3, <2>1 DEF Applies, RowsWritten
  <2>3. flights[i] \in Back!Flight
    BY <1>4 DEF BackInv, BackTypes
  <2>4. Canonical[flights[i].reg] = flights[i].reg
    BY <2>3, RestoreAssumption DEF Back!Flight
  <2>5. Back!Snap(flights[i]).reg = flights[i].reg /\ Back!Snap(flights[i]).crew = flights[i].crew
    BY DEF Back!Snap
  <2>6. flights'[i].reg = flights[i].reg /\ flights'[i].crew = flights[i].crew
    BY <2>2, <2>4, <2>5, PlanFlightSays
  <2>7. Back!planFlight(u, x.content.flights[i]) \in Back!Flight
    <3>1. x.content.flights[i] \in FileFlight
      BY <1>1, <2>1 DEF FileOK, ContentOK
    <3> QED BY <3>1, PlanFlightTypes
  <2>8. flights'[i] # Nothing
    BY <2>2, <2>7, RestoreAssumption
  <2> QED BY <2>6, <2>8 DEF Back!Snap
<1>8. ASSUME NEW i \in FlightIdSet, i \notin gone PROVE flights'[i] = flights[i]
  <2>1. ~ \E o \in DOMAIN x.content.flights : ids[o] = i
    BY <1>3, <1>6, <1>8 DEF Applies, IdsOK, Rows
  <2> QED BY <1>8, <2>1, FlightsAfter
<1>9. ASSUME NEW i \in FlightIdSet PROVE backupRevs'[i] = backupRevs[i]
  <2>1. i \in Nat /\ nextId \in Nat /\ gone \in SUBSET FlightIdSet
    BY ApplyHistory
  <2>2. CASE i < nextId
    BY <1>7, <2>2 DEF Applies, HistoryWritten
  <2>3. CASE i >= nextId
    <3>1. backupRevs[i] = <<>>
      BY <2>3 DEF BackInv, BackTypes
    <3>2. backupRevs'[i] = <<>>
      BY <1>6, <2>3 DEF Applies, HistoryWritten
    <3> QED BY <3>1, <3>2
  <2> QED BY <2>1, <2>2, <2>3
<1>10. backupRevs' = backupRevs
  <2>1. backupRevs' \in [FlightIdSet -> Seq(RevisionRow)] /\ backupRevs \in [FlightIdSet -> Seq(RevisionRow)]
    BY DEF Applies, HistoryWritten, BackInv, BackTypes
  <2> QED BY <1>9, <2>1
<1> QED BY <1>1, <1>2, <1>7, <1>8, <1>10

LEMMA ApplyKeeps ==
  ASSUME BackInv, NEW u \in Users, Back!Apply(u)
  PROVE  BackInv' /\ BackStepRight
<1>1. PICK x, gone, ids, moved : Applies(u, x, gone, ids, moved)
  BY ApplySays
<1>2. BackTypes' /\ CrewLinked' /\ (AllWhole' => WholeFiles' /\ VoidsGone') /\ (\A v \in Users : BackJobOK(v)')
  BY <1>1, ApplyTypes, ApplyLinks, ApplyVoids, ApplyJobs
<1>3. \A i \in FlightIdSet : OneOwner(i)' /\ Grows(i)
  BY <1>1, ApplyOwners, ApplyGrows
<1>4. \A y \in backupFiles' : FileOK(y)'
  <2>1. nextId' \in Nat /\ nextId' >= nextId
    <3>1. nextId \in Nat /\ nextId' \in Nat /\ nextId <= nextId'
      BY <1>1, ApplyHistory
    <3> QED BY <3>1
  <2>2. backupRevs' \in [FlightIdSet -> Seq(RevisionRow)] /\ backupFiles' = backupFiles
    BY <1>1, <1>2 DEF BackTypes, Applies
  <2> QED BY <1>3, <2>1, <2>2, FileStays
<1>5. BackInv'
  BY <1>2, <1>3, <1>4 DEF BackInv
<1>6. Back!NothingSignedDroppedStep
  <2> SUFFICES ASSUME NEW i \in FlightIdSet, flights[i] # Nothing, flights[i].sig = "locked", flights'[i] # flights[i]
               PROVE  i \in lost'
    BY BackIds DEF Back!NothingSignedDroppedStep
  <2>1. i \in gone
    <3> SUFFICES ASSUME i \notin gone PROVE FALSE
      OBVIOUS
    <3>1. PICK o \in DOMAIN x.content.flights : ids[o] = i /\ (o \in moved \/ (o \notin moved /\ o = i))
      BY <1>1, FlightsAfter
    <3>2. o \notin moved
      <4>1. o \in moved => i >= nextId
        BY <1>1, <3>1 DEF Applies, IdsOK
      <4> QED BY <4>1 DEF BackInv, BackTypes
    <3> QED BY <1>1, <3>1, <3>2, KeptId
  <2>2. job[u].sigs = {} /\ {j \in gone : flights[j].sig = "locked"} \ job[u].sigs \subseteq lost'
    BY <1>1, <2>1, SMTT(60) DEF Applies
  <2> QED BY <2>1, <2>2
<1>7. Back!RestoredWithHistoryStep
  BY <1>1, ApplyRestores
<1>8. Back!OwnBackupChangesNothingStep
  BY <1>1, ApplyOwnBackup
<1> QED BY <1>3, <1>5, <1>6, <1>7, <1>8, GrowthRight DEF BackStepRight, RestoreStepRight

LEMMA BackInitially == ASSUME Back!RestoreInit PROVE BackInv
<1>1. PICK a \in StartAccounts, f \in StartFlights :
        /\ account = a /\ flights = f /\ backupRevs = [i \in FlightIdSet |-> <<>>]
        /\ nextId = 1 + Back!Cardinality({i \in FlightIdSet : f[i] # Nothing})
        /\ backupFiles = OldFiles /\ job = [u \in Users |-> Back!Free]
  BY BackIds DEF Back!RestoreInit
<1>2. PICK k \in Nat : k = Cardinality({i \in FlightIdSet : f[i] # Nothing}) /\ k <= MaxId
  <2>1. IsFiniteSet(FlightIdSet) /\ Cardinality(FlightIdSet) = MaxId
    BY BackIds, FS_Interval DEF FlightIdSet
  <2>2. {i \in FlightIdSet : f[i] # Nothing} \subseteq FlightIdSet
    OBVIOUS
  <2>3. PICK S : S = {i \in FlightIdSet : f[i] # Nothing} /\ S \subseteq FlightIdSet
    BY <2>2
  <2>4. IsFiniteSet(S) /\ Cardinality(S) \in Nat /\ Cardinality(S) <= MaxId
    BY <2>1, <2>3, FS_Subset, FS_CardinalityType
  <2> QED BY <2>3, <2>4
<1>3. nextId = k + 1 /\ nextId \in 1 .. MaxId + 1
  <2>1. Back!Cardinality({i \in FlightIdSet : f[i] # Nothing}) = k
    BY <1>2, BackCardinality, Zenon
  <2>2. nextId = 1 + k
    BY <1>1, <2>1
  <2> QED BY <1>2, <2>2, BackIds
<1>4. /\ f \in [FlightIdSet -> Back!Flight \cup {Nothing}]
      /\ \A i \in FlightIdSet : f[i] # Nothing <=> i <= k
      /\ \A i \in FlightIdSet : f[i] # Nothing /\ f[i].link # Nothing => \E n \in a[f[i].owner].contacts : KeyOf[n] = f[i].link
      /\ \A x \in OldFiles : \A i \in DOMAIN x.content.flights : i \in FlightIdSet /\ f[i] # Nothing
  BY <1>2, RestoreAssumption DEF FlightIdSet
<1>5. (DOMAIN a) = Users /\ \A u \in Users : AccountOK(a[u])
  BY RestoreAssumption
<1>6. \A x \in OldFiles : ContentOK(x.content) /\ (DOMAIN x.logbook.revs) = {}
  BY RestoreAssumption
<1>7. \A i \in FlightIdSet : backupRevs[i] = <<>>
  BY <1>1
<1>8. BackTypes
  <2>1. \A i \in FlightIdSet : i >= nextId => flights[i] = Nothing
    <3> SUFFICES ASSUME NEW i \in FlightIdSet, i >= nextId PROVE ~(i <= k)
      BY <1>1, <1>4
    <3> QED BY <1>3, BackIds DEF FlightIdSet
  <2>2. backupRevs \in [FlightIdSet -> Seq(RevisionRow)]
    BY <1>1
  <2>3. (DOMAIN job) = Users
    BY <1>1
  <2> QED BY <1>1, <1>3, <1>4, <1>5, <1>7, <2>1, <2>2, <2>3 DEF BackTypes
<1>9. ASSUME NEW x \in backupFiles PROVE FileOK(x)
  <2>1. x \in OldFiles
    BY <1>1
  <2>2. ASSUME NEW i \in DOMAIN x.content.flights PROVE i \in 1 .. nextId - 1
    <3>1. i \in FlightIdSet /\ i <= k
      BY <1>4, <2>1
    <3> QED BY <1>3, <3>1, BackIds DEF FlightIdSet
  <2> QED BY <1>6, <2>1, <2>2 DEF FileOK
<1>10. ASSUME NEW u \in Users PROVE BackJobOK(u)
  <2>1. Back!Free.step = "idle" /\ job[u] = Back!Free
    BY <1>1 DEF Back!Free
  <2> QED BY <2>1 DEF BackJobOK
<1>11. \A i \in FlightIdSet : OneOwner(i)
  BY <1>7 DEF OneOwner
<1>12. CrewLinked
  BY <1>1, <1>4 DEF CrewLinked
<1>13. WholeFiles /\ VoidsGone
  <2>1. WholeFiles
    BY <1>1, <1>6 DEF WholeFiles
  <2>2. VoidsGone
    BY <1>7 DEF VoidsGone, NoVoid
  <2> QED BY <2>1, <2>2
<1> QED BY <1>8, <1>9, <1>10, <1>11, <1>12, <1>13 DEF BackInv

LEMMA BackNextKeeps == ASSUME BackInv, Back!RestoreNext PROVE BackInv' /\ BackStepRight
<1>1. PICK u \in Users :
  \/ Back!LogFlight(u) \/ Back!ChangeFlight(u) \/ Back!DeleteFlight(u) \/ Back!SignFlight(u)
  \/ Back!DeleteAllContent(u) \/ Back!DeleteFlightsAndHistory(u)
  \/ Back!ExportBackup(u) \/ Back!FinishBackup(u) \/ Back!RestoreBackup(u) \/ Back!Apply(u) \/ Back!Rollback(u)
  BY Zenon DEF Back!RestoreNext
<1> QED BY <1>1, LogFlightKeeps, ChangeFlightKeeps, DeleteOneKeeps, SignFlightKeeps, WipeKeeps,
           ExportBackupKeeps, FinishBackupKeeps, RestoreBackupKeeps, ApplyKeeps, RollbackKeeps, Zenon

LEMMA BackInvSays == ASSUME BackInv PROVE Back!RestoreTypeOK /\ Back!VoidedStaysVoided
<1>1. \A u \in Users : \A m, n \in account[u].contacts : m # n => KeyOf[m] # KeyOf[n]
  BY DEF BackInv, BackTypes, AccountOK
<1>2. Back!RestoreTypeOK
  BY <1>1, BackIds DEF BackInv, BackTypes, CrewLinked, Back!RestoreTypeOK
<1>3. Back!VoidedStaysVoided
  BY BackIds DEF BackInv, AllWhole, VoidsGone, NoVoid, Back!VoidedStaysVoided
<1> QED BY <1>2, <1>3

-----------------------------------------------------------------------------
(* The logbook as a whole. *)

\* Whatever part a behaviour exercises, the flights behave as FlightLog says.
LEMMA FlightLogRuns == LogbookSpec => Spec
<1>1. LogbookInit => Init
  BY Zenon DEF LogbookInit
<1>2. [LogbookNext]_allVars => [Next]_vars
  <2>1. UNCHANGED allVars => UNCHANGED vars
    BY Zenon DEF allVars
  <2> QED BY <2>1, Zenon DEF LogbookNext
<1> QED BY <1>1, <1>2, PTL DEF LogbookSpec, Spec

LEMMA LogSafe == Spec => []LogInv
<1>1. Init => LogInv
  BY LogInitially
<1>2. LogInv /\ [Next]_vars => LogInv'
  BY LogNextKeeps
<1> QED BY <1>1, <1>2, PTL DEF Spec

\* Every correction of a strict logbook that was still classified rightly when it was written has
\* its reason, and while strict mode is never switched off every revision shows what it changed,
\* for every number of requests, flights, licences and days.
THEOREM CorrectionsAreExplained == Spec => [](TypeOK /\ CorrectionsExplained /\ NoEmptyRevision)
<1>1. LogInv => TypeOK /\ CorrectionsExplained /\ NoEmptyRevision
  BY LogInvSays
<1> QED BY <1>1, LogSafe, PTL

\* No write changes a signed flight or another user's row, raises an override over what is
\* calculated, leaves a flight under an aircraft's old registration or changes a column its request
\* does not name, apart from the races the properties name (WritesKeep).
THEOREM WritesAreKept == LogbookSpec => WritesKeep
<1> DEFINE L == part = "rows" => RowsInv /\ ForeignLinks
           A == /\ part = "flights" => SignedKeptStep /\ OverridesDownwardStep
                /\ part = "rows" => /\ Rec!SignedAndForeignKeptStep /\ Rec!RenameCompleteStep
                                    /\ Rec!PatchIsLocalStep
<1>1. LogInv /\ L /\ [LogbookNext]_allVars => [A]_allVars
  <2> SUFFICES ASSUME LogInv, L, LogbookNext PROVE A
    OBVIOUS
  <2>1. part = "flights" => Next
    BY Zenon DEF LogbookNext
  <2>2. part = "rows" => Rec!Next
    BY Zenon DEF LogbookNext
  <2>3. part = "flights" => SignedKeptStep /\ OverridesDownwardStep
    BY <2>1, FlightWritesKeep DEF FlightWritesRight
  <2>4. part = "rows" => Rec!SignedAndForeignKeptStep /\ Rec!RenameCompleteStep /\ Rec!PatchIsLocalStep
    BY <2>2, RowWritesKeep DEF RowWritesRight
  <2> QED BY <2>3, <2>4
<1>2. LogbookSpec => []LogInv
  BY FlightLogRuns, LogSafe, PTL
<1>3. LogbookSpec => []L
  BY LinksSafe
<1> HIDE DEF L
<1> QED BY <1>1, <1>2, <1>3, PTL DEF LogbookSpec, WritesKeep

LEMMA RestoreSafe == LogbookSpec => [](part = "restore" => BackInv)
<1> DEFINE M == part = "restore" => BackInv
<1>1. LogbookInit => M
  BY BackInitially, Zenon DEF LogbookInit
<1>2. M /\ [LogbookNext]_allVars => M'
  <2>1. ASSUME M, UNCHANGED <<part, backVars>> PROVE M'
    <3>1. UNCHANGED <<flights, backupRevs, account, nextId, backupFiles, job>> /\ part' = part
      BY <2>1 DEF backVars
    <3>2. ASSUME BackInv PROVE BackInv'
      <4>1. /\ BackTypes' = BackTypes /\ CrewLinked' = CrewLinked /\ AllWhole' = AllWhole /\ WholeFiles' = WholeFiles
            /\ VoidsGone' = VoidsGone
        BY <3>1 DEF BackTypes, CrewLinked, AllWhole, WholeFiles, VoidsGone
      <4>2. \A x \in backupFiles' : FileOK(x)'
        BY <3>1, <3>2 DEF BackInv, FileOK
      <4>3. \A u \in Users : BackJobOK(u)'
        BY <3>1, <3>2 DEF BackInv, BackJobOK
      <4>4. \A i \in FlightIdSet : OneOwner(i)'
        BY <3>1, <3>2 DEF BackInv, OneOwner
      <4> QED BY <3>2, <4>1, <4>2, <4>3, <4>4 DEF BackInv
    <3> QED BY <2>1, <3>1, <3>2
  <2>2. ASSUME M, part = "restore", Back!RestoreNext, part' = part PROVE M'
    BY <2>2, BackNextKeeps
  <2>3. UNCHANGED allVars => UNCHANGED <<part, backVars>>
    BY Zenon DEF allVars
  <2> HIDE DEF M
  <2> QED BY <2>1, <2>2, <2>3, Zenon DEF LogbookNext
<1> QED BY <1>1, <1>2, PTL DEF LogbookSpec

\* Restoring a backup, and everything else that runs while one is read or written, only adds to
\* what is recorded of a flight, drops no flight that was signed when a replacement began, brings
\* back every flight of the file with the file's history of it and never gives the id of a voided
\* flight to a flight again, and replacing an account with its own backup changes no history and no
\* flight's id, for every number of users, files, ids and requests (RestoreKeeps).
THEOREM RestoresKeep == LogbookSpec => RestoreKeeps
<1> DEFINE M == part = "restore" => BackInv
           A == part = "restore" => /\ Back!HistoryOnlyGrowsStep /\ Back!NothingSignedDroppedStep
                                    /\ Back!RestoredWithHistoryStep /\ Back!OwnBackupChangesNothingStep
                                    /\ Back!VoidedStaysVoided'
           V == part = "restore" => Back!VoidedStaysVoided
<1>1. M /\ V' /\ [LogbookNext]_allVars => [A]_allVars
  <2> SUFFICES ASSUME M, V', LogbookNext, part = "restore"
               PROVE  /\ Back!HistoryOnlyGrowsStep /\ Back!NothingSignedDroppedStep
                      /\ Back!RestoredWithHistoryStep /\ Back!OwnBackupChangesNothingStep
                                    /\ Back!VoidedStaysVoided'
    OBVIOUS
  <2>1. Back!RestoreNext /\ part' = part
    BY Zenon DEF LogbookNext
  <2>2. BackStepRight
    BY <2>1, BackNextKeeps
  <2> QED BY <2>1, <2>2 DEF BackStepRight, RestoreStepRight
<1>2. LogbookSpec => []M
  BY RestoreSafe
<1>3. M => V
  BY BackInvSays
<1> HIDE DEF M, V
<1> QED BY <1>1, <1>2, <1>3, PTL DEF LogbookSpec, RestoreKeeps

\* In every part of the logbook the state is well-formed; every correction of a strict logbook has
\* its reason and no revision is empty, apart from the classifications that were overtaken
\* (FlightsExplained).
THEOREM FlightsAreExplained == LogbookSpec => []FlightsExplained
<1>1. LogbookSpec => [](TypeOK /\ CorrectionsExplained /\ NoEmptyRevision)
  BY FlightLogRuns, CorrectionsAreExplained, PTL
<1>2. (part = "rows" => RowsInv) => (part = "rows" => Rec!TypeOK)
  BY RowsInvSays
<1>3. (part = "collections" => CollectionsKept) => (part = "collections" => Coll!TypeOK)
  BY DEF CollectionsKept
<1>4. (part = "restore" => BackInv) => (part = "restore" => Back!RestoreTypeOK)
  BY BackInvSays
<1>5. (part = "live" => LiveInv) => (part = "live" => Live!SessionsTypeOK)
  BY LiveInvSays
<1>6. /\ TypeOK /\ CorrectionsExplained /\ NoEmptyRevision
      /\ part = "rows" => Rec!TypeOK
      /\ part = "collections" => Coll!TypeOK
      /\ part = "restore" => Back!RestoreTypeOK
      /\ part = "live" => Live!SessionsTypeOK
      => FlightsExplained
  BY Zenon DEF FlightsExplained, TypesOK
<1> QED BY <1>1, <1>2, <1>3, <1>4, <1>5, <1>6, RowsSafe, CollectionsSafe, RestoreSafe, LiveSafe, PTL

=============================================================================
