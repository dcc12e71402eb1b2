------------------------------ MODULE Records ------------------------------
(***************************************************************************)
(* The pilot's records (aircraft, contacts, credentials, licences and      *)
(* class ratings), the copies of their names kept in flights, and delta    *)
(* sync: a client mirrors the rows through updatedSince and the feed of    *)
(* deletion tombstones.                                                    *)
(*                                                                         *)
(* A request that changes a row takes three steps: the handler reads the   *)
(* row and applies its patch to the copy, the service reads the row again  *)
(* and a transaction begins (its time becomes updated_at), the transaction *)
(* commits.  Requests interleave between these steps.                      *)
(***************************************************************************)
EXTENDS Integers, FiniteSets, FiniteSetsExt

CONSTANTS Procs,          \* requests served at the same time
          AircraftIds, ContactIds, CredentialIds, LicenceIds, RatingIds, FlightIds,
          LicenceOf,      \* the licence of each rating
          Own,            \* the ids that belong to the caller; the others are another user's
          Keys,           \* registrations and names
          Canonical,      \* registration.Canonical, a function on Keys
          Lower,          \* SQL's LOWER on names, a function on Keys
          Notes,          \* the other columns of a row, as one value
          Signed,         \* the flights that carry a signature
          Rank,           \* the order of tombstones with the same deleted_at
          Start,          \* where a behaviour starts: the rows, the ids it may still give out, the clock
          LastTime,       \* bound on the clock
          Retention,      \* the tombstone retention
          PageSize,       \* of the deletion feed
          MaxRequests,    \* bound on the requests of a behaviour
          NoRow

Ids == AircraftIds \cup ContactIds \cup CredentialIds \cup LicenceIds \cup RatingIds \cup FlightIds
Collections == {AircraftIds, ContactIds, CredentialIds, LicenceIds, FlightIds}
ClockTimes == 1 .. LastTime

VARIABLES rows,      \* the tables: id -> row or NoRow
          live,      \* aircraft_reg of the live flight session, or NoRow
          tomb,      \* deletion_tombstones: id -> deleted_at; 0 none, -1 swept
          clock,
          req,       \* the requests being served
          served,    \* how many requests have begun
          mirror,    \* the client's copy of the rows
          mark,      \* the client's watermark per collection
          feed,      \* the client's progress in the deletion feed
          late,      \* ghost: rows committed behind the client's watermark
          raced      \* ghost: rows written from a copy that was no longer current

vars == <<rows, live, tomb, clock, req, served, mirror, mark, feed, late, raced>>

\* A row: its registration or name, the rest of its columns, the contact a flight's crew
\* entry refers to, and updated_at.
Row == [key : Keys, note : Notes \cup Keys, link : ContactIds \cup {NoRow}, at : ClockTimes]

Collection(id) == CHOOSE C \in Collections : id \in C
Exists(id) == rows[id] # NoRow
NoRequest == [step |-> "idle", id |-> NoRow]
Idle(p) == req[p] = NoRequest
Done(p) == req' = [req EXCEPT ![p] = NoRequest]
Fail(p) == Done(p) /\ UNCHANGED <<rows, live, tomb, clock, served, mirror, mark, feed, late, raced>>
Advance(p, r) ==
  req' = [req EXCEPT ![p] = r] /\ UNCHANGED <<rows, live, tomb, clock, served, mirror, mark, feed, late, raced>>
Begin(p, r) ==
  /\ Idle(p) /\ served < MaxRequests /\ served' = served + 1
  /\ req' = [req EXCEPT ![p] = r]
  /\ UNCHANGED <<rows, live, tomb, clock, mirror, mark, feed, late, raced>>

-----------------------------------------------------------------------------
\* Storage.

Behind(written, at) == {id \in written \ RatingIds : at <= mark[Collection(id)]}
BehindFeed(gone, at) == {id \in gone \ RatingIds : at <= feed.seen}

\* The end of a transaction that wrote `written`.
Commit(p, new, written) ==
  /\ rows' = new
  /\ late' = late \cup Behind(written, req[p].at)
  /\ Done(p)

\* The AFTER DELETE triggers: every deleted row the feed covers leaves a tombstone.
record_deletion_tombstone(gone, at) ==
  /\ tomb' = [id \in Ids |-> IF id \in gone \ RatingIds THEN at ELSE tomb[id]]
  /\ late' = late \cup BehindFeed(gone, at)

\* DELETE ... WHERE id with what the foreign keys do: ratings go with their licence, crew
\* entries lose the link to a deleted contact.
Erase(p, gone) ==
  LET all == gone \cup {c \in RatingIds : LicenceOf[c] \in gone}
  IN /\ rows' = [id \in Ids |-> IF id \in all THEN NoRow
                                ELSE IF id \in FlightIds /\ Exists(id) /\ rows[id].link \in gone
                                     THEN [rows[id] EXCEPT !.link = NoRow] ELSE rows[id]]
     /\ record_deletion_tombstone({id \in all : Exists(id)}, req[p].at)
     /\ Done(p)
     /\ UNCHANGED <<live, clock, served, mirror, mark, feed, raced>>

Insert(p) == /\ Commit(p, [rows EXCEPT ![req[p].id] = [req[p].new EXCEPT !.at = req[p].at]], {req[p].id})
             /\ tomb' = tomb
             /\ UNCHANGED <<live, clock, served, mirror, mark, feed, raced>>

\* UPDATE ... WHERE id with the columns of the request's copy.
Overwrite(p) == [rows EXCEPT ![req[p].id] = [req[p].new EXCEPT !.at = req[p].at]]
Save(p, new, written) ==
  /\ Commit(p, new, written)
  /\ raced' = raced \cup (IF rows[req[p].id] # req[p].seen \/ req[p].old \notin {NoRow, rows[req[p].id].key}
                          THEN {req[p].id} ELSE {})
  /\ UNCHANGED <<tomb, clock, served, mirror, mark, feed>>

Taken(ids, id, eq(_, _), key) == \E x \in (ids \cap Own) \ {id} : Exists(x) /\ eq(rows[x].key, key)
SameKey(a, b) == a = b
SameName(a, b) == Lower[a] = Lower[b]

-----------------------------------------------------------------------------
\* What the repositories read and write.

aircraftCreate(p) ==
  IF Taken(AircraftIds, req[p].id, SameKey, req[p].new.key) THEN Fail(p) ELSE Insert(p)
aircraftUpdate(p) ==
  IF ~Exists(req[p].id) \/ Taken(AircraftIds, req[p].id, SameKey, req[p].new.key) THEN Fail(p)
  ELSE Save(p, Overwrite(p), {req[p].id}) /\ live' = live
\* Mutant: the live session keeps the old registration.
RenameFlightsOnly(p) ==
  LET moved == {f \in (FlightIds \cap Own) \ Signed : Exists(f) /\ rows[f].key = req[p].old}
  IN IF ~Exists(req[p].id) \/ Taken(AircraftIds, req[p].id, SameKey, req[p].new.key) THEN Fail(p)
     ELSE /\ Save(p, [id \in Ids |-> IF id \in moved
                                     THEN [rows[id] EXCEPT !.key = req[p].new.key, !.at = req[p].at]
                                     ELSE Overwrite(p)[id]], moved \cup {req[p].id})
          /\ live' = live
\* The rename transaction: the row, the unsigned flights under the old registration and the
\* live session.  One step for its three statements: the row stays locked from the first to
\* the commit, and a flight that others store or change under the old registration while it
\* runs is one they could have stored or changed just before or just after it.
UpdateWithFlightRename(p) ==
  LET moved == {f \in (FlightIds \cap Own) \ Signed : Exists(f) /\ rows[f].key = req[p].old}
  IN IF ~Exists(req[p].id) \/ Taken(AircraftIds, req[p].id, SameKey, req[p].new.key) THEN Fail(p)
     ELSE /\ Save(p, [id \in Ids |-> IF id \in moved
                                     THEN [rows[id] EXCEPT !.key = req[p].new.key, !.at = req[p].at]
                                     ELSE Overwrite(p)[id]], moved \cup {req[p].id})
          /\ live' = IF live = req[p].old THEN req[p].new.key ELSE live
aircraftDelete(p) == IF Exists(req[p].id) THEN Erase(p, {req[p].id}) ELSE Fail(p)

contactCreate(p) ==
  IF Taken(ContactIds, req[p].id, SameName, req[p].new.key) THEN Fail(p) ELSE Insert(p)
\* The contact and the crew entries of unsigned flights that refer to it; updated_at of
\* those flights stays.
UpdateWithCrewRename(p) ==
  LET crew == {f \in (FlightIds \cap Own) \ Signed : Exists(f) /\ rows[f].link = req[p].id}
  IN IF ~Exists(req[p].id) \/ Taken(ContactIds, req[p].id, SameName, req[p].new.key) THEN Fail(p)
     ELSE /\ Save(p, [id \in Ids |-> IF id \in crew THEN [rows[id] EXCEPT !.note = req[p].new.key]
                                     ELSE Overwrite(p)[id]], {req[p].id})
          /\ live' = live
contactDelete(p) == IF Exists(req[p].id) THEN Erase(p, {req[p].id}) ELSE Fail(p)

credentialCreate(p) == Insert(p)
credentialUpdate(p) ==
  IF Exists(req[p].id) THEN Save(p, Overwrite(p), {req[p].id}) /\ live' = live ELSE Fail(p)
credentialDelete(p) == IF Exists(req[p].id) THEN Erase(p, {req[p].id}) ELSE Fail(p)

licenseCreate(p) == Insert(p)
licenseUpdate(p) ==
  IF Exists(req[p].id) THEN Save(p, Overwrite(p), {req[p].id}) /\ live' = live ELSE Fail(p)
licenseDelete(p) == IF Exists(req[p].id) THEN Erase(p, {req[p].id}) ELSE Fail(p)

\* class_ratings.license_id refers to licenses: no rating without its licence.
classRatingCreate(p) == IF Exists(LicenceOf[req[p].id]) THEN Insert(p) ELSE Fail(p)
\* class_type is no column of the update.
classRatingUpdate(p) ==
  IF ~Exists(req[p].id) THEN Fail(p)
  ELSE Save(p, [Overwrite(p) EXCEPT ![req[p].id].key = rows[req[p].id].key], {req[p].id}) /\ live' = live
classRatingDelete(p) == IF Exists(req[p].id) THEN Erase(p, {req[p].id}) ELSE Fail(p)

flightDelete(p) == IF Exists(req[p].id) THEN Erase(p, {req[p].id}) ELSE Fail(p)
DeleteAllByUserID(p) == Erase(p, {f \in FlightIds \cap Own : Exists(f)})

-----------------------------------------------------------------------------
\* What the services check before they write.

Ready(op, id, new, old, seen, field) ==
  [step |-> "ready", op |-> op, id |-> id, new |-> new, old |-> old, seen |-> seen,
   field |-> field, at |-> clock]
Owned(id) == id \in Own /\ Exists(id)
\* A new uuid: never stored before and not the one of a request under way.
Fresh(id) == /\ id \in Own /\ ~Exists(id) /\ tomb[id] = 0
             /\ \A p \in Procs : req[p].id # id
NewRow(k, n) == [key |-> k, note |-> n, link |-> NoRow, at |-> clock]
Loaded(p, ids) == req[p].step = "loaded" /\ req[p].id \in ids

CreateAircraft(p, id, row) ==
  Begin(p, Ready("aircraftCreate", id, [row EXCEPT !.key = Canonical[row.key]], NoRow, NoRow, "all"))
GetAircraft(id) == Owned(id)
\* The registration is made canonical even when the request leaves it alone; flights follow
\* when the caller asks for it and whenever only the spelling changes.
UpdateAircraft(p, renameFlights) ==
  LET id == req[p].id
      new == [req[p].new EXCEPT !.key = Canonical[req[p].new.key]]
      changed == rows[id].key # new.key
      canonicalisation == changed /\ Canonical[rows[id].key] = new.key
      op == IF changed /\ (renameFlights \/ canonicalisation) THEN "rename" ELSE "aircraftUpdate"
  IN IF ~Exists(id) THEN Fail(p)
     ELSE Advance(p, Ready(op, id, new, rows[id].key, req[p].seen, req[p].field))
DeleteAircraft(p, id) == Owned(id) /\ Begin(p, Ready("aircraftDelete", id, NoRow, NoRow, NoRow, "all"))

CreateContact(p, id, row) == Begin(p, Ready("contactCreate", id, row, NoRow, NoRow, "all"))
UpdateContact(p, id, row) ==
  Owned(id) /\ Begin(p, Ready("crewRename", id, row, rows[id].key, rows[id], "all"))
DeleteContact(p, id) == Owned(id) /\ Begin(p, Ready("contactDelete", id, NoRow, NoRow, NoRow, "all"))

CreateCredential(p, id, row) == Begin(p, Ready("credentialCreate", id, row, NoRow, NoRow, "all"))
GetCredential(id) == Owned(id)
UpdateCredential(p) ==
  IF ~Exists(req[p].id) THEN Fail(p)
  ELSE Advance(p, Ready("credentialUpdate", req[p].id, req[p].new, NoRow, req[p].seen, req[p].field))
DeleteCredential(p, id) == Owned(id) /\ Begin(p, Ready("credentialDelete", id, NoRow, NoRow, NoRow, "all"))

CreateLicense(p, id, row) == Begin(p, Ready("licenseCreate", id, row, NoRow, NoRow, "all"))
GetLicense(id) == Owned(id)
\* Every column of the handler's copy is put on the row read here.
UpdateLicense(p) ==
  IF ~Exists(req[p].id) THEN Fail(p)
  ELSE Advance(p, Ready("licenseUpdate", req[p].id, req[p].new, NoRow, req[p].seen, req[p].field))
DeleteLicense(p, id) == Owned(id) /\ Begin(p, Ready("licenseDelete", id, NoRow, NoRow, NoRow, "all"))

\* A rating belongs to the owner of its licence.
CreateClassRating(p, id, row) ==
  Owned(LicenceOf[id]) /\ Begin(p, Ready("ratingCreate", id, row, NoRow, NoRow, "all"))
GetClassRating(id) == Exists(id) /\ Owned(LicenceOf[id])
UpdateClassRating(p) ==
  IF ~GetClassRating(req[p].id) THEN Fail(p)
  ELSE Advance(p, Ready("ratingUpdate", req[p].id, req[p].new, NoRow, req[p].seen, req[p].field))
DeleteClassRating(p, id) ==
  GetClassRating(id) /\ Begin(p, Ready("ratingDelete", id, NoRow, NoRow, NoRow, "all"))

-----------------------------------------------------------------------------
\* The handlers.

\* A PATCH names the columns it changes; the handler applies them to the row it read.
Patched(row, field, k, n) == IF field = "key" THEN [row EXCEPT !.key = k] ELSE [row EXCEPT !.note = n]
Load(p, id, field, k, n) ==
  /\ Patched(rows[id], field, k, n) # rows[id]
  /\ IF field = "key" THEN n = rows[id].note ELSE k = rows[id].key
  /\ Begin(p, [step |-> "loaded", id |-> id, new |-> Patched(rows[id], field, k, n),
               seen |-> rows[id], field |-> field])
Fields == {"key", "note"}

APICreateAircraft(p) ==
  \E id \in AircraftIds, k \in Keys, n \in Notes : Fresh(id) /\ CreateAircraft(p, id, NewRow(k, n))
APIUpdateAircraft(p) ==
  \/ \E id \in AircraftIds, field \in Fields, k \in Keys, n \in Notes :
       Idle(p) /\ GetAircraft(id) /\ Load(p, id, field, k, n)
  \/ Loaded(p, AircraftIds) /\ \E renameFlights \in BOOLEAN : UpdateAircraft(p, renameFlights)
APIDeleteAircraft(p) == \E id \in AircraftIds : DeleteAircraft(p, id)

APICreateContact(p) ==
  \E id \in ContactIds, k \in Keys, n \in Notes : Fresh(id) /\ CreateContact(p, id, NewRow(k, n))
\* PUT replaces every column; nothing is read by the handler.
APIUpdateContact(p) ==
  \E id \in ContactIds, k \in Keys, n \in Notes : UpdateContact(p, id, NewRow(k, n))
APIDeleteContact(p) == \E id \in ContactIds : DeleteContact(p, id)

APICreateCredential(p) ==
  \E id \in CredentialIds, k \in Keys, n \in Notes : Fresh(id) /\ CreateCredential(p, id, NewRow(k, n))
APIUpdateCredential(p) ==
  \/ \E id \in CredentialIds, field \in Fields, k \in Keys, n \in Notes :
       Idle(p) /\ GetCredential(id) /\ Load(p, id, field, k, n)
  \/ Loaded(p, CredentialIds) /\ UpdateCredential(p)
APIDeleteCredential(p) == \E id \in CredentialIds : DeleteCredential(p, id)

APICreateLicense(p) ==
  \E id \in LicenceIds, k \in Keys, n \in Notes : Fresh(id) /\ CreateLicense(p, id, NewRow(k, n))
APIUpdateLicense(p) ==
  \/ \E id \in LicenceIds, field \in Fields, k \in Keys, n \in Notes :
       Idle(p) /\ GetLicense(id) /\ Load(p, id, field, k, n)
  \/ Loaded(p, LicenceIds) /\ UpdateLicense(p)
APIDeleteLicense(p) == \E id \in LicenceIds : DeleteLicense(p, id)

APICreateClassRating(p) ==
  \E id \in RatingIds, k \in Keys, n \in Notes :
    Fresh(id) /\ CreateClassRating(p, id, NewRow(k, n))
APIUpdateClassRating(p) ==
  \/ \E id \in RatingIds, n \in Notes : Idle(p) /\ GetClassRating(id) /\ Load(p, id, "note", rows[id].key, n)
  \/ Loaded(p, RatingIds) /\ UpdateClassRating(p)
APIDeleteClassRating(p) == \E id \in RatingIds : DeleteClassRating(p, id)

\* Flights: their other operations are those of FlightLog.
APIDeleteFlight(p) ==
  \E id \in FlightIds \ Signed : Owned(id) /\ Begin(p, Ready("flightDelete", id, NoRow, NoRow, NoRow, "all"))
APIDeleteAllFlights(p) ==
  \E id \in FlightIds : Owned(id) /\ Begin(p, Ready("wipe", id, NoRow, NoRow, NoRow, "all"))

\* The transaction a request ends with.
Transact(p) ==
  /\ req[p].step = "ready"
  /\ LET op == req[p].op
     IN \/ op = "aircraftCreate" /\ aircraftCreate(p)
        \/ op = "aircraftUpdate" /\ aircraftUpdate(p)
        \/ op = "rename" /\ UpdateWithFlightRename(p)
        \/ op = "aircraftDelete" /\ aircraftDelete(p)
        \/ op = "contactCreate" /\ contactCreate(p)
        \/ op = "crewRename" /\ UpdateWithCrewRename(p)
        \/ op = "contactDelete" /\ contactDelete(p)
        \/ op = "credentialCreate" /\ credentialCreate(p)
        \/ op = "credentialUpdate" /\ credentialUpdate(p)
        \/ op = "credentialDelete" /\ credentialDelete(p)
        \/ op = "licenseCreate" /\ licenseCreate(p)
        \/ op = "licenseUpdate" /\ licenseUpdate(p)
        \/ op = "licenseDelete" /\ licenseDelete(p)
        \/ op = "ratingCreate" /\ classRatingCreate(p)
        \/ op = "ratingUpdate" /\ classRatingUpdate(p)
        \/ op = "ratingDelete" /\ classRatingDelete(p)
        \/ op = "flightDelete" /\ flightDelete(p)
        \/ op = "wipe" /\ DeleteAllByUserID(p)

-----------------------------------------------------------------------------
\* Delta sync.

\* Strictly after the watermark; no watermark means no filter.
updatedSinceClause(id, since) == since = 0 \/ rows[id].at > since
GetByUserID(C, since) == {id \in C \cap Own : Exists(id) /\ updatedSinceClause(id, since)}

ListAircraft(since) == GetByUserID(AircraftIds, since)
ListContacts(since) == GetByUserID(ContactIds, since)
ListCredentials(since) == GetByUserID(CredentialIds, since)
ListLicenses(since) == GetByUserID(LicenceIds, since)
ListFlights(since) == GetByUserID(FlightIds, since)
Listed(C) == CASE C = AircraftIds -> ListAircraft(mark[C]) [] C = ContactIds -> ListContacts(mark[C])
               [] C = CredentialIds -> ListCredentials(mark[C]) [] C = LicenceIds -> ListLicenses(mark[C])
               [] OTHER -> ListFlights(mark[C])

\* The client stores what it is sent and takes its watermark from it.
PullUpserts(C) ==
  LET sent == Listed(C)
  IN /\ C # {}
     /\ mirror' = [id \in Ids |-> IF id \in sent THEN rows[id] ELSE mirror[id]]
     /\ mark' = [mark EXCEPT ![C] = Max({@} \cup {rows[id].at : id \in sent})]
     /\ UNCHANGED <<rows, live, tomb, clock, req, served, feed, late, raced>>

deletionFilter(since) == {id \in Own \ RatingIds : tomb[id] > 0 /\ tomb[id] > since}
CountSince(since) == Cardinality(deletionFilter(since))
\* Oldest first, ties in the order of the tombstones' ids, one page.
Earlier(a, b) == tomb[a] < tomb[b] \/ (tomb[a] = tomb[b] /\ Rank[a] < Rank[b])
Place(id, since) == Cardinality({x \in deletionFilter(since) : Earlier(x, id)})
DeletionsSince(since, limit, offset) ==
  {id \in deletionFilter(since) : offset <= Place(id, since) /\ Place(id, since) < offset + limit}
\* Mutant: a client without a watermark is never told to start over.
WatermarkLax(since) == since # 0 /\ since < clock - Retention
WatermarkExpired(since) == since < clock - Retention
ListDeletions(since, page) ==
  [deletions |-> DeletionsSince(since, PageSize, (page - 1) * PageSize),
   total |-> CountSince(since), expired |-> WatermarkExpired(since)]

\* GET /sync/deletions: the client reads page after page of one `since`.
PullDeletions ==
  LET answer == ListDeletions(feed.since, feed.page)
      totalPages == (answer.total + PageSize - 1) \div PageSize
      seen == Max({feed.seen} \cup {tomb[id] : id \in answer.deletions})
      expired == feed.expired \/ answer.expired
  IN /\ ~feed.reconcile
     /\ mirror' = [id \in Ids |-> IF id \in answer.deletions THEN NoRow ELSE mirror[id]]
     /\ feed' = IF feed.page < totalPages
                THEN [feed EXCEPT !.page = @ + 1, !.seen = seen, !.expired = expired]
                ELSE [since |-> seen, page |-> 1, seen |-> seen, expired |-> FALSE, reconcile |-> expired]
     /\ UNCHANGED <<rows, live, tomb, clock, req, served, mark, late, raced>>

\* An expired watermark: the client keeps the ids a full listing still has.
Reconcile ==
  /\ feed.reconcile
  /\ mirror' = [id \in Ids |-> IF Exists(id) THEN mirror[id] ELSE NoRow]
  /\ feed' = [feed EXCEPT !.reconcile = FALSE]
  /\ late' = {id \in late : Exists(id)}
  /\ UNCHANGED <<rows, live, tomb, clock, req, served, mark, raced>>

\* The reaper of DeletionService.
DeleteExpired ==
  /\ \E id \in Ids : tomb[id] > 0 /\ tomb[id] < clock - Retention
  /\ tomb' = [id \in Ids |-> IF 0 < tomb[id] /\ tomb[id] < clock - Retention THEN -1 ELSE tomb[id]]
  /\ UNCHANGED <<rows, live, clock, req, served, mirror, mark, feed, late, raced>>

Tick == clock < LastTime /\ clock' = clock + 1
        /\ UNCHANGED <<rows, live, tomb, req, served, mirror, mark, feed, late, raced>>

-----------------------------------------------------------------------------
Init ==
  /\ \E s \in Start : /\ rows = s.rows
                     /\ tomb = [id \in Ids |-> IF id \in s.free \/ s.rows[id] # NoRow THEN 0 ELSE -1]
                     /\ clock = s.clock
  /\ live \in {NoRow} \cup {rows[id].key : id \in {a \in AircraftIds : rows[a] # NoRow}}
  /\ req = [p \in Procs |-> NoRequest] /\ served = 0
  /\ mirror = [id \in Ids |-> NoRow]
  /\ mark = [C \in Collections |-> 0]
  /\ feed = [since |-> 0, page |-> 1, seen |-> 0, expired |-> FALSE, reconcile |-> FALSE]
  /\ late = {} /\ raced = {}

Next ==
  \/ \E p \in Procs :
       \/ APICreateAircraft(p) \/ APIUpdateAircraft(p) \/ APIDeleteAircraft(p)
       \/ APICreateContact(p) \/ APIUpdateContact(p) \/ APIDeleteContact(p)
       \/ APICreateCredential(p) \/ APIUpdateCredential(p) \/ APIDeleteCredential(p)
       \/ APICreateLicense(p) \/ APIUpdateLicense(p) \/ APIDeleteLicense(p)
       \/ APICreateClassRating(p) \/ APIUpdateClassRating(p) \/ APIDeleteClassRating(p)
       \/ APIDeleteFlight(p) \/ APIDeleteAllFlights(p)
       \/ Transact(p)
  \/ \E C \in Collections : PullUpserts(C)
  \/ PullDeletions
  \/ Reconcile
  \/ DeleteExpired
  \/ Tick

Spec == Init /\ [][Next]_vars

-----------------------------------------------------------------------------
\* The tables, the clock and the client hold what their types say, and a rating always
\* has its licence.
TypeOK ==
  /\ \A id \in Ids : rows[id] \in Row \cup {NoRow} /\ mirror[id] \in Row \cup {NoRow}
  /\ live \in Keys \cup {NoRow}
  /\ \A id \in Ids : tomb[id] \in -1 .. clock
  /\ clock \in ClockTimes /\ served \in 0 .. MaxRequests
  /\ \A c \in RatingIds : Exists(c) => Exists(LicenceOf[c])
  /\ feed.since <= feed.seen /\ \A C \in Collections : mark[C] \in 0 .. clock

\* Delta sync (updatedSince, /sync/deletions, the reaper): whatever the mirror lacks is
\* still ahead of a watermark the next pass uses, or the pass is going to be told that its
\* watermark expired.  The exception is a transaction that began before the client read
\* and committed after it: updated_at and deleted_at are the times a transaction begins.
\* A flight's crew name is not compared: renaming a contact leaves updated_at alone.
Same(id) == /\ Exists(id) /\ mirror[id] # NoRow
            /\ mirror[id].key = rows[id].key
            /\ id \in FlightIds \/ mirror[id].note = rows[id].note
DifferencesReachable ==
  \A id \in Own \ RatingIds :
    \/ ~Exists(id) /\ mirror[id] = NoRow
    \/ Same(id)
    \/ id \in late
    \/ Exists(id) /\ updatedSinceClause(id, mark[Collection(id)])
    \/ ~Exists(id) /\ (tomb[id] > feed.since \/ feed.reconcile \/ feed.expired \/ WatermarkExpired(feed.since))

\* Two records of one user never share a registration or a name in two spellings.
NamesUnique ==
  /\ \A a, b \in AircraftIds \cap Own : a # b /\ Exists(a) /\ Exists(b) => rows[a].key # rows[b].key
  /\ \A a, b \in ContactIds \cap Own : a # b /\ Exists(a) /\ Exists(b) => ~SameName(rows[a].key, rows[b].key)

\* Signed entries stay as they were signed: renaming an aircraft or a contact does not
\* reach them (signature_id IS NULL in both renames), and no request touches the rows of
\* another user.
SignedAndForeignKeptStep ==
  /\ \A f \in Signed : Exists(f) /\ Exists(f)' => rows'[f].key = rows[f].key /\ rows'[f].note = rows[f].note
  /\ \A id \in Ids \ Own : rows'[id] = rows[id]
SignedAndForeignKept == [][SignedAndForeignKeptStep]_vars

\* A rename that takes the flights along leaves no unsigned flight and no live session
\* under the old registration, unless the aircraft changed after the service read it.
RenameCompleteStep ==
  \A p \in Procs :
     (/\ req[p].step = "ready" /\ Idle(p)'
      /\ req[p].op = "rename" /\ rows'[req[p].id] # rows[req[p].id])
     => \/ req[p].id \in raced'
        \/ /\ live' # rows[req[p].id].key
           /\ \A f \in (FlightIds \cap Own) \ Signed : Exists(f)' => rows'[f].key # rows[req[p].id].key
RenameComplete == [][RenameCompleteStep]_vars

\* A request that patches one column leaves the others as they are, unless another request
\* wrote the row since it was read: rows are written whole.
PatchIsLocalStep ==
  \A p \in Procs :
     (/\ req[p].step = "ready" /\ Idle(p)' /\ req[p].field \in Fields
      /\ rows'[req[p].id] # rows[req[p].id])
     => \/ req[p].id \in raced'
        \/ /\ req[p].field = "note" => rows'[req[p].id].key \in {rows[req[p].id].key, Canonical[rows[req[p].id].key]}
           /\ req[p].field = "key" => rows'[req[p].id].note = rows[req[p].id].note
PatchIsLocal == [][PatchIsLocalStep]_vars
=============================================================================
