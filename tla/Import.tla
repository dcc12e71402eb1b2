------------------------------- MODULE Import -------------------------------
(***************************************************************************)
(* The spreadsheet import (handlers/import.go): a file is uploaded into a  *)
(* session kept in memory, previewed under a column mapping, and confirmed *)
(* row by row into flights, aircraft and contacts; a record of the import  *)
(* is written and the session dropped.  What a file and a row say is       *)
(* ImportRows.  The contacts of a flight's crew are resolved inside the    *)
(* transaction that writes it (service/contact.go CrewLinker) and          *)
(* remembered for the rows that follow only once it has committed.         *)
(*                                                                         *)
(* A confirmation does not claim its session, so two of them, a preview    *)
(* and the user's own edits interleave row by row, and it reads the        *)
(* mapping without the lock under which a preview overwrites it.           *)
(***************************************************************************)
EXTENDS ImportRows

CONSTANTS
    Tokens,         \* uploads
    Procs,          \* requests that confirm
    Opened,         \* the files as an upload keeps them (openedFile)
    Previews,       \* what a preview may send: the mapping's entries, and whether duplicates are marked
    Confirmations,  \* what a confirmation asks for: the rows ({}: all), duplicates too?
    HeaderRows,     \* header rows of other files
    LongNames,      \* names too long for a contact
    MaxSessionsPerUser,
    MaxTotalSessions,
    MaxContacts,    \* bound on contact ids
    MaxMoves        \* bound on the requests, the sweeps and the calls that fail

VARIABLES
    sessions,       \* token -> an upload, or NoSession
    proc,           \* request -> its local state
    flights,        \* the logbook
    fleet,          \* registration -> [type, multi] of the user's aircraft
    contacts,       \* name key -> contact id
    ids,            \* contact ids given out
    history,        \* the results answered, saved as import records if they can be
    shared,         \* TRUE once two confirmations have overlapped (history)
    moves           \* requests, sweeps and failures so far

importVars == <<sessions, proc, flights, fleet, contacts, ids, history, shared, moves>>

NoLink == 0
\* An upload as parsed, with the mapping of its last preview.  File, shown and
\* marks are history: which file it is, what that preview said of the rows, as
\* long as the logbook is the one it compared them with, and whether it was
\* asked to mark duplicates.
NoSession == [headers |-> <<>>, rows |-> <<>>, aircraft |-> <<>>, template |-> 0, aux |-> <<>>, mapping |-> <<>>,
              file |-> 0, shown |-> <<>>, marks |-> FALSE]
Idle == [step |-> "idle"]

\* So many requests and failed calls in this step.
Move(n) == moves + n <= MaxMoves /\ moves' = moves + n
one(failed) == IF failed THEN 1 ELSE 0

-----------------------------------------------------------------------------
(* Upload and preview.                                                     *)

Pending(s) == {t \in Tokens : s[t] # NoSession}
without(s, old) == [t \in Tokens |-> IF t \in old THEN NoSession ELSE s[t]]

\* UploadImportFile and storeSession: the sessions past their time make room
\* (cleanupOldSessions; which those are is left open); at most so many of this
\* user, and with the others' so many in all; a file without rows is refused.
UploadImportFile(t, n) ==
    \E old \in SUBSET Pending(sessions) :
       LET kept == without(sessions, old)
       IN  /\ kept[t] = NoSession /\ Cardinality(Pending(kept)) < MaxSessionsPerUser
           /\ \E others \in 0 .. MaxTotalSessions : Cardinality(Pending(kept)) + others < MaxTotalSessions
           /\ Opened[n].rows # <<>>
           /\ sessions' = [kept EXCEPT ![t] = [file |-> n] @@ Opened[n] @@ NoSession]
           /\ Move(1)
           /\ UNCHANGED <<proc, flights, fleet, contacts, ids, history, shared>>

\* StartImportSessionReaper, every minute; an upload that is refused has swept too.
ReapSessions ==
    /\ \E old \in SUBSET Pending(sessions) \ {{}} : sessions' = without(sessions, old)
    /\ Move(1)
    /\ UNCHANGED <<proc, flights, fleet, contacts, ids, history, shared>>

\* What the preview says of a row.
verdict(f, skipDups, existing) ==
    IF f.errors # {} THEN "error"
    ELSE IF skipDups /\ findDuplicate(f, existing) THEN "duplicate" ELSE "valid"

\* The registrations of the file's aircraft table, each with the type of the
\* first of the rows that have these columns.
tableTypes(session, columns) ==
    LET rows == SelectSeq(session.aircraft, LAMBDA a : columns \subseteq DOMAIN a)
        first(g) == rows[Min({i \in DOMAIN rows : CanonicalReg[rows[i]["AircraftID"]] = g})]
    IN  [g \in {CanonicalReg[a["AircraftID"]] : a \in ToSet(rows)} |->
            IF "TypeCode" \in DOMAIN first(g) THEN first(g)["TypeCode"] ELSE g]

\* The types the preview goes by: the fleet's, and for the others the table's.
knownTypes(session) == [g \in DOMAIN fleet |-> fleet[g].type] @@ tableTypes(session, {"AircraftID", "TypeCode"})

\* PreviewImport: the mapping is kept in the session for the confirmation, and
\* overwritten under a confirmation that is about to read it.  A list of
\* flights that cannot be read leaves no duplicates.  What is said of a row
\* that reads differently in another order is not recorded.
PreviewImport(t, entries, skipDups, failed) ==
    LET s == sessions[t]
        existing == IF failed THEN {} ELSE flights
        said(fs) == IF Cardinality(fs) = 1 THEN verdict(CHOOSE f \in fs : TRUE, skipDups, existing) ELSE "unsettled"
    IN  /\ s # NoSession /\ Move(1 + one(failed))
        /\ sessions' = [sessions EXCEPT
              ![t] = [@ EXCEPT !.mapping = entries, !.marks = skipDups,
                         !.shown = IF failed THEN <<>> ELSE [i \in DOMAIN s.rows |-> said(mapped(s, i, lookup(entries), knownTypes(s)))]]]
        /\ proc' = [p \in Procs |-> IF proc[p].step = "mapping" /\ proc[p].token = t
                                    THEN [proc[p] EXCEPT !.entries = @ \union {entries}] ELSE proc[p]]
        /\ UNCHANGED <<flights, fleet, contacts, ids, history, shared>>

-----------------------------------------------------------------------------
(* Confirmation.                                                           *)

\* ConfirmImport: the session and the flights as they are now, none of them if
\* they cannot be listed.
ConfirmImport(p, t, c, failed) ==
    /\ proc[p] = Idle /\ sessions[t] # NoSession
    /\ proc' = [proc EXCEPT ![p] =
          [step |-> "mapping", token |-> t, session |-> sessions[t], entries |-> {sessions[t].mapping}, mapping |-> <<>>,
           selected |-> IF c.rows = {} THEN DOMAIN sessions[t].rows ELSE c.rows,
           includeDups |-> c.duplicates, known |-> IF failed THEN {} ELSE flights, blind |-> failed,
           types |-> <<>>, multi |-> {}, strict |-> FALSE,
           i |-> 1, imported |-> {}, errored |-> {}, crewLost |-> {}, dups |-> {}, skipped |-> {},
           cache |-> <<>>, made |-> 0]]
    /\ shared' = (shared \/ \E q \in Procs \ {p} : proc[q] # Idle)
    /\ Move(1 + one(failed))
    /\ UNCHANGED <<sessions, flights, fleet, contacts, ids, history>>

\* What a loop over the mappings may see while a preview overwrites them: the
\* length of one, and in each place the column and the field of one or
\* another, or nothing it knows.
tornReads(es) ==
    UNION {FoldLeft(LAMBDA acc, k :
               LET here == {e[k] : e \in {e \in es : k \in DOMAIN e}}
                   found == IF Cardinality(here) = 1 THEN {<<x>> : x \in here}
                            ELSE {<<>>} \union {<<[column |-> x.column, field |-> y.field]>> : x \in here, y \in here}
               IN  {s \o x : s \in acc, x \in found}, {<<>>}, [k \in 1 .. Len(e0) |-> k]) : e0 \in es}

\* The mapping of the confirmation: the previewed one, else the template's.
ResolveMapping(p) ==
    LET suggested == Suggest(ByID(proc[p].session.template), proc[p].session.headers)
    IN  /\ proc[p].step = "mapping"
        /\ \E entries \in tornReads(proc[p].entries) :
              proc' = [proc EXCEPT ![p].step = "aircraft", ![p].entries = {},
                                   ![p].mapping = lookup(IF entries = <<>> THEN suggested ELSE entries)]
        /\ UNCHANGED <<sessions, flights, fleet, contacts, ids, history, shared, moves>>

Rows(p) == proc[p].session.rows

\* collectAircraftFromRows: the registrations of the selected rows with a type
\* if some row has one.
aircraftOf(read) ==
    LET typed(g) == {i \in DOMAIN read : regOf(read[i]) = g /\ read[i].aircraftType # ""}
    IN  [g \in {regOf(read[i]) : i \in DOMAIN read} \ {""} |->
            IF typed(g) = {} THEN g ELSE read[Min(typed(g))].aircraftType]
collectAircraftFromRows(p, r) == aircraftOf([i \in proc[p].selected |-> cells(Rows(p)[i], proc[p].mapping, r)])

\* collectMultiPilotRegistrations: those with multi-pilot time in the file.
collectMultiPilotRegistrations(p, r) ==
    {f.reg : f \in {f \in {mapImportRow(Rows(p)[i], proc[p].mapping, proc[p].session.aux, <<>>, r) :
                              i \in proc[p].selected} : f.mp > 0 /\ ~f.sim}} \ {""}

\* The aircraft that are not in the fleet, but for those that fail.
created(types, multi, lost) == [g \in DOMAIN types \ lost |-> [type |-> types[g], multi |-> g \in multi]]

\* The aircraft of the file's table, then those of its rows, unless the fleet
\* has them; one that cannot be created costs no flight, nor does a fleet that
\* cannot be listed.  Then the strict state, without which the import ends here.
AddAircraft(p, table, found, multi) ==
    \E lost \in SUBSET (DOMAIN table \ DOMAIN fleet), missed \in SUBSET (DOMAIN found \ DOMAIN fleet),
       strict \in {"strict", "free", "failed"}, unlisted, factless \in BOOLEAN :
          LET first == fleet @@ created(table, multi, lost)
              full == first @@ created(found, multi, missed)
          IN  /\ Move(Cardinality(lost) + Cardinality(missed) + one(strict = "failed") + one(unlisted) + one(factless))
              /\ fleet' = full
              /\ proc' = [proc EXCEPT ![p] =
                    IF strict = "failed" THEN Idle
                    ELSE [@ EXCEPT !.step = "rows", !.strict = strict = "strict",
                             !.types = [g \in DOMAIN full \ (IF unlisted THEN DOMAIN first ELSE {}) |-> full[g].type],
                             !.multi = IF factless THEN {} ELSE {g \in DOMAIN full : full[g].multi}]]
CreateAircraft(p) ==
    /\ proc[p].step = "aircraft"
    /\ \E r, again \in Readings(proc[p].mapping) :
          AddAircraft(p, tableTypes(proc[p].session, {"AircraftID"}), collectAircraftFromRows(p, r),
                      collectMultiPilotRegistrations(p, again))
    /\ UNCHANGED <<sessions, flights, contacts, ids, history, shared>>

At(p) == proc[p].step = "rows" /\ proc[p].i \in DOMAIN Rows(p)
Advance(p, set, more) == proc' = [proc EXCEPT ![p] = more @@ [@ EXCEPT ![set] = @ \union {proc[p].i}, !.i = @ + 1]]

\* A row that was not selected.
PassRow(p) ==
    /\ At(p) /\ proc[p].i \notin proc[p].selected
    /\ Advance(p, "skipped", <<>>)
    /\ UNCHANGED <<sessions, flights, fleet, contacts, ids, history, shared, moves>>

\* A row that does not map, or whose flight is rejected.
RejectRow(p) ==
    /\ Advance(p, "errored", <<>>)
    /\ UNCHANGED <<sessions, flights, fleet, contacts, ids, history, shared>>

\* A row that is there already.
SkipDuplicate(p) ==
    /\ Advance(p, "skipped", [dups |-> proc[p].dups \union {proc[p].i}])
    /\ UNCHANGED <<sessions, flights, fleet, contacts, ids, history, shared>>

\* link and FindOrCreateContact: the contact remembered from an earlier row,
\* else the one of that name, else a new one; a name too long stays unlinked.
Keys(f) == {KeyOf[c.name] : c \in {c \in f.crew : c.name \notin LongNames}}
NewKeys(p, f) == Keys(f) \ (DOMAIN proc[p].cache \union DOMAIN contacts)
link(p, f, k) ==
    IF k \in DOMAIN proc[p].cache THEN proc[p].cache[k]
    ELSE IF k \in DOMAIN contacts THEN contacts[k]
    ELSE ids + (CHOOSE n \in 1 .. Cardinality(NewKeys(p, f)) : SetToSeq(NewKeys(p, f))[n] = k)

\* The row, in the logbook; a device session has no registration.  From file
\* on, the record is history.
SaveFlight(p, f, flight, crew, settled) ==
    /\ sessions' = [t \in Tokens |-> [sessions[t] EXCEPT !.shown = <<>>]]
    /\ flights' = flights \union
        {[flight EXCEPT !.crew = crew] @@
         [date |-> f.date, reg |-> IF f.sim THEN "" ELSE f.reg, type |-> f.type, approaches |-> f.approaches,
          file |-> proc[p].session.file, row |-> proc[p].i, by |-> <<p, Len(history)>>, mapping |-> proc[p].mapping,
          forced |-> proc[p].includeDups \/ proc[p].blind, from |-> f, settled |-> settled]}

\* The crew cannot be written: the transaction rolls back, contacts and all,
\* Discard forgets them, and the flight is written without its crew.
LinkFails(p, f, flight, settled) ==
    /\ SaveFlight(p, f, flight, {}, settled)
    /\ Advance(p, "imported", [crewLost |-> proc[p].crewLost \union {proc[p].i}])
    /\ UNCHANGED <<fleet, contacts, ids, history, shared>>

\* CreateFlightWith commits: the flight with its crew, and Confirm.
LinkIn(p, f, flight, settled) ==
    LET new == NewKeys(p, f)
        links == [k \in Keys(f) |-> link(p, f, k)]
    IN  /\ ids + Cardinality(new) <= MaxContacts
        /\ SaveFlight(p, f, flight, {[name |-> c.name, role |-> c.role,
                link |-> IF c.name \in LongNames THEN NoLink ELSE links[KeyOf[c.name]]] : c \in f.crew}, settled)
        /\ contacts' = [k \in new |-> links[k]] @@ contacts
        /\ ids' = ids + Cardinality(new)
        /\ Advance(p, "imported", [cache |-> links @@ proc[p].cache, made |-> proc[p].made + Cardinality(new)])
        /\ UNCHANGED <<fleet, history, shared>>

\* A link to a contact that has been deleted since breaks the foreign key.
linkable(p, f) == \A k \in Keys(f) \ NewKeys(p, f) : \E j \in DOMAIN contacts : contacts[j] = link(p, f, k)

\* A flight that is new is written, unless the strict rule or its times forbid
\* it, or the database fails, at the second attempt too.
StoreRow(p, f, flight, settled) ==
    IF ~storable(f, flight) \/ (proc[p].strict /\ exceeds(flight, f.reg \in proc[p].multi) # {})
    THEN RejectRow(p) /\ UNCHANGED moves
    ELSE \/ RejectRow(p) /\ Move(1)
         \/ f.crew # {} /\ LinkFails(p, f, flight, settled) /\ Move(one(linkable(p, f)))
         \/ linkable(p, f) /\ LinkIn(p, f, flight, settled) /\ UNCHANGED moves

\* The loop over the rows: what one that was selected comes to.
ImportReading(p, reads) ==
    \E f \in reads :
       IF f.errors # {} THEN RejectRow(p) /\ UNCHANGED moves
       ELSE IF ~proc[p].includeDups /\ findDuplicate(f, proc[p].known) THEN SkipDuplicate(p) /\ UNCHANGED moves
       ELSE StoreRow(p, f, calculated(f, f.reg \in proc[p].multi), reads = {f})
ImportRow(p) ==
    /\ At(p) /\ proc[p].i \in proc[p].selected
    /\ ImportReading(p, mapped(proc[p].session, proc[p].i, proc[p].mapping, proc[p].types))

\* The import's outcome.
status(s) ==
    IF s.errored = {} /\ s.crewLost = {} THEN "completed"
    ELSE IF s.imported # {} THEN "partial" ELSE "failed"

\* The result of the import; the session is dropped.
FinishImport(p) ==
    /\ proc[p].step = "rows" /\ proc[p].i > Len(Rows(p))
    /\ history' = Append(history, [status |-> status(proc[p]), total |-> Len(Rows(p)),
                                   imported |-> Cardinality(proc[p].imported), skipped |-> Cardinality(proc[p].skipped),
                                   errored |-> Cardinality(proc[p].errored), dups |-> Cardinality(proc[p].dups),
                                   contactsCreated |-> proc[p].made])
    /\ sessions' = [sessions EXCEPT ![proc[p].token] = NoSession]
    /\ proc' = [proc EXCEPT ![p] = Idle]
    /\ UNCHANGED <<flights, fleet, contacts, ids, shared, moves>>

\* The user deletes a contact; its links become null.
DeleteContact(k) ==
    /\ k \in DOMAIN contacts
    /\ contacts' = [j \in DOMAIN contacts \ {k} |-> contacts[j]]
    /\ flights' = {[f EXCEPT !.crew = {IF c.link = contacts[k] THEN [c EXCEPT !.link = NoLink] ELSE c : c \in @}] : f \in flights}
    /\ Move(1)
    /\ UNCHANGED <<sessions, proc, fleet, ids, history, shared>>

ImportInit ==
    /\ sessions = [t \in Tokens |-> NoSession] /\ proc = [p \in Procs |-> Idle]
    /\ flights = {} /\ fleet = <<>> /\ contacts = <<>> /\ ids = 0 /\ history = <<>> /\ shared = FALSE /\ moves = 0

ImportNext ==
    \/ \E t \in Tokens :
          \/ \E n \in DOMAIN Opened : UploadImportFile(t, n)
          \/ \E v \in Previews, failed \in BOOLEAN : PreviewImport(t, v.entries, v.skip, failed)
          \/ \E p \in Procs, c \in Confirmations, failed \in BOOLEAN : ConfirmImport(p, t, c, failed)
    \/ ReapSessions
    \/ \E p \in Procs :
          ResolveMapping(p) \/ CreateAircraft(p) \/ PassRow(p) \/ ImportRow(p) \/ FinishImport(p)
    \/ \E k \in DOMAIN contacts : DeleteContact(k)

ImportSpec == ImportInit /\ [][ImportNext]_importVars

-----------------------------------------------------------------------------
(* Properties.                                                             *)

\* A crew entry is linked to a contact that exists, or to none, and what an
\* import remembers for its later rows was committed: a row that failed leaves
\* no contact behind that would cost the rows after it their crew (CrewLinker's
\* Confirm and Discard).  The contacts reported as created are those that were,
\* and the owner's own marker is no contact.
LinksExist ==
    /\ \A f \in flights : \A c \in f.crew : c.link \in {contacts[k] : k \in DOMAIN contacts} \union {NoLink}
    /\ \A p \in Procs : proc[p] # Idle => \A k \in DOMAIN proc[p].cache : proc[p].cache[k] <= ids
    /\ ids = MapThenSumSet(LAMBDA i : history[i].contactsCreated, DOMAIN history)
             + MapThenSumSet(LAMBDA p : IF proc[p] = Idle THEN 0 ELSE proc[p].made, Procs)
    /\ "self" \notin DOMAIN contacts

\* Importing the same file again adds no row a second time (findDuplicate
\* against what buildImportedFlight stored), in the cases in which the code
\* keeps what the documents promise of every import: one import runs after the
\* other, the logbook could be listed, duplicates are not asked for, the columns
\* read alike in any order, and the file's own total agrees with the time stored
\* within six minutes.  A device session is stored without the places it is
\* compared by, so it is added again.
ReimportAddsNothing ==
    ~shared => \A f, g \in flights :
        /\ f.file = g.file /\ f.row = g.row /\ f.mapping = g.mapping /\ ~f.forced /\ ~g.forced /\ ~f.sim
        /\ f.settled /\ f.total - orZero(f.from.total) \in -6 .. 6
        => f = g

\* What the preview showed is what the confirmation does, while neither the
\* mapping nor the logbook changed in between and the row reads alike in any
\* order: only rows shown as valid are imported, only rows shown as duplicates
\* are skipped, and none of these is an error; so a row shown as an error fails,
\* a duplicate is skipped, and a valid row is imported or, by the strict rule,
\* the limits of a flight or a failing database, rejected.  A preview asked not
\* to mark duplicates calls valid what the confirmation may skip.
PreviewHonest ==
    \A p \in Procs : proc[p] # Idle =>
        LET s == proc[p]
        IN  /\ s.session.shown # <<>> /\ s.step = "rows" /\ s.mapping = lookup(s.session.mapping)
            /\ ~s.blind /\ ~s.includeDups
            => \A i \in s.selected : s.session.shown[i] # "unsettled" =>
                  /\ i \in s.imported => s.session.shown[i] = "valid"
                  /\ i \in s.skipped =>
                        s.session.shown[i] = "duplicate" \/ (s.session.shown[i] = "valid" /\ ~s.session.marks)
                  /\ i \in s.errored => s.session.shown[i] # "duplicate"

\* The record accounts for every row once, and an import is "completed" only
\* if every flight it kept has the crew of its row; no landing of the file is
\* lost on the way through the split and the calculation.
NothingUnaccounted ==
    /\ \A h \in ToSet(history) : h.imported + h.skipped + h.errored = h.total /\ h.dups <= h.skipped
    /\ \A f \in flights :
          /\ ~f.sim => f.landingsDay + f.landingsNight = f.from.landings /\ f.landingsDay >= 0
          /\ f.by[2] < Len(history) /\ ~shared /\ history[f.by[2] + 1].status = "completed" =>
                {c.name : c \in f.crew} = {c.name : c \in f.from.crew}

\* What a file is taken for does not depend on the order of its columns, nor on
\* columns no template knows; every field some column names is suggested, from
\* one column each, an exact spelling is never read as anything else, and a
\* column that is read as an auxiliary value is not mapped as well.
TemplatesSettle ==
    flights = {} /\ history = <<>> /\ (\A t \in Tokens : sessions[t] = NoSession) /\ (\A p \in Procs : proc[p] = Idle) =>
        \A row \in HeaderRows \union {Opened[n].headers : n \in DOMAIN Opened} :
            LET t == ByID(Detect(row))
                s == Suggest(t, row)
                fields == {m.field : m \in ToSet(s)}
                meant == {columnField(t, k) : k \in {NormalizeHeader[h] : h \in ToSet(row)} \ {""}}
            IN  /\ fields = meant \ {"unknown", "ignore"} /\ Cardinality(fields) = Len(s)
                /\ \A m \in ToSet(s) : NormalizeHeader[m.column] \in DOMAIN t.columns =>
                       m.field = t.columns[NormalizeHeader[m.column]]
                /\ {m.column : m \in ToSet(AuxColumns(t, row))} \intersect {m.column : m \in ToSet(s)} = {}
                /\ \A cut \in 1 .. Len(row) :
                       LET turned == SubSeq(row, cut + 1, Len(row)) \o Reverse(SubSeq(row, 1, cut))
                       IN  /\ Detect(turned) = Detect(row)
                           /\ {m.field : m \in ToSet(Suggest(t, turned))} = fields
                /\ \A h \in DOMAIN NormalizeHeader :
                       (\A n \in DOMAIN TemplateCatalogue :
                           NormalizeHeader[h] \notin DOMAIN TemplateCatalogue[n].columns \union TemplateCatalogue[n].signature) =>
                       Detect(Append(row, h)) = Detect(row)

=============================================================================
