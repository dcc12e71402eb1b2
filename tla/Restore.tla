------------------------------ MODULE Restore ------------------------------
(***************************************************************************)
(* Backup files and their restoration: Gather reads an account in several  *)
(* statements, a restore plans the rows of the file and writes them in one *)
(* transaction, keeping the flight ids of the file where it can and the    *)
(* history that belongs to them.  Other requests of the user run between   *)
(* the statements of both.                                                 *)
(***************************************************************************)
EXTENDS Integers, Sequences, FiniteSets, FiniteSetsExt

CONSTANTS Users,
          MaxId,          \* bound on the flight ids given out
          Regs, Canonical,    \* registrations; registration.Canonical
          Names, KeyOf,       \* names; contactKey
          OldFiles,       \* backup files from elsewhere
          StartAccounts, StartFlights,
          MaxOps,         \* bound on the requests of a behaviour
          Nothing

VARIABLES flights,   \* all flights, by id
          revs,      \* flight_revisions, by flight id and number
          account,   \* the rest of each user's content
          nextId,    \* ids below it have been given out
          files,     \* the backup files that exist
          job,       \* each user's export or restore under way
          ops,       \* how many requests have begun
          lost       \* ghost: signed flights dropped by a replace that had not seen them

restoreVars == <<flights, revs, account, nextId, files, job, ops, lost>>

IdSet == 1 .. MaxId
\* sig is what flight_signatures has of a flight: no row, rows none of which locks it, or the lock.
Flight == [owner : Users, reg : {Canonical[r] : r \in Regs}, crew : Names \cup {Nothing},
           link : {KeyOf[n] : n \in Names} \cup {Nothing}, sig : {"none", "open", "locked"}]
FlightsOf(u) == {i \in IdSet : flights[i] # Nothing /\ flights[i].owner = u}
OwnRevs(u) == {i \in IdSet : \E n \in 1 .. Len(revs[i]) : revs[i][n].owner = u}
Free == [step |-> "idle"]
Serves(u) == job[u] = Free /\ ops < MaxOps /\ ops' = ops + 1

\* What flight_revision_changed compares: signature_id and the contact ids are left out.
Snap(f) == [reg |-> f.reg, crew |-> f.crew]
Revision(i, kind) == [owner |-> flights[i].owner, kind |-> kind, snap |-> Snap(flights[i])]
\* Mutant: the trigger is not deferred, so a wiped flight is voided before it comes back.
finalizeAtOnce(pending, after, have) ==
  [i \in IdSet |-> IF i \in pending /\ account[flights[i].owner].strict THEN Append(have[i], Revision(i, "delete")) ELSE have[i]]
\* flight_revision_capture keeps the rows of a strict logbook that a transaction writes to;
\* flight_revision_finalize, deferred to the commit, compares them with what stands then.
finalize(pending, after, have) ==
  LET differs(i) == after[i] = Nothing \/ Snap(after[i]) # Snap(flights[i])
  IN [i \in IdSet |-> IF i \in pending /\ account[flights[i].owner].strict /\ differs(i)
                      THEN Append(have[i], Revision(i, IF after[i] = Nothing THEN "delete" ELSE "update"))
                      ELSE have[i]]

-----------------------------------------------------------------------------
\* Other requests: a flight is logged, changed, deleted or signed (FlightLog has the detail).

LogFlight(u) == \E r \in Regs, n \in account[u].contacts \cup {Nothing} :
  /\ ops < MaxOps /\ ops' = ops + 1 /\ nextId <= MaxId
  /\ flights' = [flights EXCEPT ![nextId] = [owner |-> u, reg |-> Canonical[r], crew |-> n,
                                             link |-> IF n = Nothing THEN Nothing ELSE KeyOf[n], sig |-> "none"]]
  /\ nextId' = nextId + 1
  /\ UNCHANGED <<revs, account, files, job, lost>>
ChangeFlight(u) == \E i \in FlightsOf(u), r \in Regs :
  /\ ops < MaxOps /\ ops' = ops + 1 /\ flights[i].sig # "locked" /\ Canonical[r] # flights[i].reg
  /\ flights' = [flights EXCEPT ![i].reg = Canonical[r]] /\ revs' = finalize({i}, flights', revs)
  /\ UNCHANGED <<account, nextId, files, job, lost>>
DeleteFlight(u) == \E i \in FlightsOf(u) :
  /\ ops < MaxOps /\ ops' = ops + 1 /\ flights[i].sig # "locked"
  /\ flights' = [flights EXCEPT ![i] = Nothing] /\ revs' = finalize({i}, flights', revs)
  /\ UNCHANGED <<account, nextId, files, job, lost>>
\* A request is created, or closed without a signature or by voiding one; a signature locks.
SignFlight(u) == \E i \in FlightsOf(u), to \in {"open", "locked"} :
  /\ ops < MaxOps /\ ops' = ops + 1 /\ flights[i].sig # to
  /\ flights' = [flights EXCEPT ![i].sig = to]
  /\ UNCHANGED <<revs, account, nextId, files, job, lost>>

-----------------------------------------------------------------------------
\* Wiping.

Wiped(u) == [i \in IdSet |-> IF i \in FlightsOf(u) THEN Nothing ELSE flights[i]]
\* logbookWipeQueries: flights with their crew, licences with their ratings, aircraft,
\* contacts and credentials; what belongs to the strict logbook stays.
Emptied(a) == [a EXCEPT !.contacts = {}, !.fleet = {}, !.licences = {}]
DeleteAllContent(u) ==
  /\ Serves(u)
  /\ flights' = Wiped(u) /\ revs' = finalize(FlightsOf(u), flights', revs)
  /\ account' = [account EXCEPT ![u] = Emptied(@)]
  /\ UNCHANGED <<nextId, files, job, lost>>
DeleteFlightsAndHistory(u) ==
  /\ Serves(u)
  /\ flights' = Wiped(u) /\ revs' = finalize(FlightsOf(u), flights', revs)
  /\ UNCHANGED <<account, nextId, files, job, lost>>
\* Of a replace: rules and reports go too.
WipeContent(u) == [Emptied(account[u]) EXCEPT !.rules = {}, !.reports = {}]

-----------------------------------------------------------------------------
\* Gather.

World(u) == <<[i \in FlightsOf(u) |-> flights[i]], [i \in OwnRevs(u) |-> revs[i]], account[u]>>
\* What Gather reads before the logbook: no share state of rules, no signatures.
gatherContent(u) ==
  [flights |-> [i \in FlightsOf(u) |-> [reg |-> flights[i].reg, crew |-> flights[i].crew]],
   contacts |-> account[u].contacts, fleet |-> account[u].fleet, licences |-> account[u].licences,
   reports |-> account[u].reports, rules |-> account[u].rules]
\* ExportState: the mode, the revisions and the certifications.
gatherLogbook(u) ==
  [strict |-> account[u].strict, certified |-> account[u].certified,
   revs |-> [i \in OwnRevs(u) |-> [n \in 1 .. Len(revs[i]) |-> [kind |-> revs[i][n].kind, snap |-> revs[i][n].snap]]]]

ExportBackup(u) == /\ Serves(u)
                   /\ job' = [job EXCEPT ![u] = [step |-> "gather", content |-> gatherContent(u), seen |-> World(u)]]
                   /\ UNCHANGED <<flights, revs, account, nextId, files, lost>>
FinishBackup(u) ==
  /\ job[u].step = "gather"
  /\ files' = files \cup {[content |-> job[u].content, logbook |-> gatherLogbook(u), torn |-> World(u) # job[u].seen]}
  /\ job' = [job EXCEPT ![u] = Free]
  /\ UNCHANGED <<flights, revs, account, nextId, ops, lost>>

-----------------------------------------------------------------------------
\* The plan of a restore.

planAircraft(x) == {Canonical[r] : r \in x.fleet}
\* The first contact of a key is kept.
planContacts(x) == {CHOOSE n \in x.contacts : KeyOf[n] = k : k \in {KeyOf[n] : n \in x.contacts}}
\* A crew name without a contact becomes one.
crewContacts(x) ==
  LET missing == {x.flights[i].crew : i \in DOMAIN x.flights} \ {Nothing}
      known == {KeyOf[n] : n \in x.contacts}
  IN {CHOOSE n \in missing : KeyOf[n] = k : k \in {KeyOf[n] : n \in missing} \ known}
planCrewMember(n) == IF n = Nothing THEN Nothing ELSE KeyOf[n]
planFlight(u, f) == [owner |-> u, reg |-> Canonical[f.reg], crew |-> f.crew, link |-> planCrewMember(f.crew), sig |-> "none"]
\* A rule that no longer passes validation is restored paused.
planRules(x) == {[r EXCEPT !.enabled = @ /\ r.valid] : r \in x.rules}
\* A report's licence filter follows the licence to its new id, or goes.
planReports(x) == {IF r.licence \in x.licences THEN r ELSE [r EXCEPT !.licence = Nothing] : r \in x.reports}

\* FlightIDUsage, read after the wipe of the flights `gone`, whose void records are not written yet.
Taken(u, gone, i) == (flights[i] # Nothing /\ i \notin gone) \/ \E n \in 1 .. Len(revs[i]) : revs[i][n].owner # u
Voided(u, i) == \E n \in 1 .. Len(revs[i]) : revs[i][n].kind = "delete"
\* The k-th of a set of ids.
Nth(S, i) == Cardinality({j \in S : j <= i})
\* assignFlightIDs: a flight keeps the id of the file unless it is taken or was voided, and its
\* revisions follow it; revisions without a flight keep theirs unless it is taken.
assignFlightIDs(u, x, gone) ==
  LET rows == DOMAIN x.content.flights \cup DOMAIN x.logbook.revs
      other == {i \in rows : Taken(u, gone, i) \/ (i \in DOMAIN x.content.flights /\ Voided(u, i))}
  IN [i \in rows |-> IF i \in other THEN nextId - 1 + Nth(other, i) ELSE i]

\* ImportRevisions: what is there stays, ON CONFLICT (flight_id, revision_no) DO NOTHING.
Import(u, have, r) ==
  [n \in 1 .. Max({Len(have), Len(r)}) |->
     IF n <= Len(have) THEN have[n] ELSE [owner |-> u, kind |-> r[n].kind, snap |-> r[n].snap]]
ImportLogbook(u, x, ids, before) ==
  [i \in IdSet |-> IF \E o \in DOMAIN x.logbook.revs : ids[o] = i
                   THEN Import(u, before[i], x.logbook.revs[CHOOSE o \in DOMAIN x.logbook.revs : ids[o] = i])
                   ELSE before[i]]

-----------------------------------------------------------------------------
\* The transaction.

CountContent(u) == FlightsOf(u) # {} \/ Emptied(account[u]) # account[u] \/ account[u].rules # {} \/ account[u].reports # {}
\* A file of a document, a signed flight or any row of flight_signatures.
CountAttachments(u) == account[u].documents \/ \E i \in FlightsOf(u) : flights[i].sig # "none"

CheckMode(u, mode) == IF mode = "restore" THEN ~CountContent(u) ELSE ~CountAttachments(u)

\* InRestoreTx and the checks of apply; the advisory lock lets one restore of a user run.
RestoreBackup(u) == \E x \in files, mode \in {"restore", "replace"} :
  /\ Serves(u) /\ CheckMode(u, mode)
  /\ job' = [job EXCEPT ![u] = [step |-> "apply", file |-> x, mode |-> mode, sigs |-> {i \in FlightsOf(u) : flights[i].sig = "locked"}]]
  /\ UNCHANGED <<flights, revs, account, nextId, files, lost>>

\* The rest of apply: the wipe of a replace, then every row of the plan, the revisions of the file,
\* and at the commit what the deferred trigger finds; all or nothing.
Apply(u) ==
  LET x == job[u].file
      c == x.content
      gone == IF job[u].mode = "replace" THEN FlightsOf(u) ELSE {}
      ids == assignFlightIDs(u, x, gone)
      kept == IF gone = {} THEN flights ELSE Wiped(u)
      base == IF gone = {} /\ job[u].mode = "restore" THEN account[u] ELSE WipeContent(u)
  IN /\ job[u].step = "apply"
     /\ nextId + Cardinality(DOMAIN ids) - 1 <= MaxId
     /\ flights' = [i \in IdSet |-> IF \E o \in DOMAIN c.flights : ids[o] = i
                                    THEN planFlight(u, c.flights[CHOOSE o \in DOMAIN c.flights : ids[o] = i])
                                    ELSE kept[i]]
     /\ revs' = finalize(gone, flights', ImportLogbook(u, x, ids, revs))
     /\ account' = [account EXCEPT ![u] =
          [base EXCEPT !.contacts = @ \cup planContacts(c) \cup crewContacts(c), !.fleet = @ \cup planAircraft(c),
                       !.licences = @ \cup c.licences, !.reports = @ \cup planReports(c), !.rules = @ \cup planRules(c),
                       !.strict = @ \/ x.logbook.strict, !.certified = @ \cup x.logbook.certified]]
     /\ nextId' = nextId + Cardinality({o \in DOMAIN ids : ids[o] >= nextId})
     /\ lost' = lost \cup ({i \in gone : flights[i].sig = "locked"} \ job[u].sigs)
     /\ job' = [job EXCEPT ![u] = Free]
     /\ UNCHANGED <<files, ops>>

\* A statement fails: the transaction is rolled back and the file is refused.
Rollback(u) == /\ job[u].step = "apply" /\ job' = [job EXCEPT ![u] = Free]
               /\ UNCHANGED <<flights, revs, account, nextId, files, ops, lost>>

RestoreInit == /\ account \in StartAccounts /\ flights \in StartFlights
               /\ revs = [i \in IdSet |-> <<>>] /\ nextId = 1 + Cardinality({i \in IdSet : flights[i] # Nothing})
               /\ files = OldFiles /\ job = [u \in Users |-> Free] /\ ops = 0 /\ lost = {}
RestoreNext == \E u \in Users :
  \/ LogFlight(u) \/ ChangeFlight(u) \/ DeleteFlight(u) \/ SignFlight(u)
  \/ DeleteAllContent(u) \/ DeleteFlightsAndHistory(u)
  \/ ExportBackup(u) \/ FinishBackup(u) \/ RestoreBackup(u) \/ Apply(u) \/ Rollback(u)
RestoreSpec == RestoreInit /\ [][RestoreNext]_restoreVars

-----------------------------------------------------------------------------
\* Flights and accounts are well-formed: a crew link names a contact of the same account, and
\* contact names differ in more than their case (planContacts, planCrewMember).
RestoreTypeOK ==
  /\ flights \in [IdSet -> Flight \cup {Nothing}] /\ nextId \in 1 .. MaxId + 1
  /\ \A u \in Users : \A m, n \in account[u].contacts : m # n => KeyOf[m] # KeyOf[n]
  /\ \A i \in IdSet : flights[i] # Nothing /\ flights[i].link # Nothing =>
       \E n \in account[flights[i].owner].contacts : KeyOf[n] = flights[i].link

\* A flight that was voided stays voided: no restore gives its id to a flight again, unless the
\* file was read while the flight was being deleted (assignFlightIDs against Gather).
VoidedStaysVoided ==
  (\A x \in files : ~x.torn) =>
    \A i \in IdSet : flights[i] # Nothing => \A n \in 1 .. Len(revs[i]) : revs[i][n].kind # "delete"

\* The revisions of a flight are only ever added to, by restores too, and belong to one user
\* (ImportRevisions, FlightIDUsage).
HistoryOnlyGrowsStep ==
  \A i \in IdSet : /\ \A n \in 1 .. Len(revs[i]) : n <= Len(revs'[i]) /\ revs'[i][n] = revs[i][n]
                   /\ \A n, m \in 1 .. Len(revs'[i]) : revs'[i][n].owner = revs'[i][m].owner
HistoryOnlyGrows == [][HistoryOnlyGrowsStep]_restoreVars

\* A replace drops only signed flights that were not signed when it began, and nothing of
\* another user (CountAttachments, WipeContent).
NothingSignedDroppedStep ==
  \A i \in IdSet : flights[i] # Nothing /\ flights[i].sig = "locked" /\ (flights'[i] = Nothing \/ flights'[i].sig = "none") =>
     \/ i \in lost'
     \/ \A j \in FlightsOf(flights[i].owner) : flights'[j] = Nothing /\ account'[flights[i].owner].rules = account[flights[i].owner].rules
NothingSignedDropped == [][NothingSignedDroppedStep]_restoreVars

\* A restore brings back every flight of the file under an id of its own, with the history the
\* file has of it before anything the restore itself adds, apart from a file that was read while
\* the account was written to (apply, assignFlightIDs, ImportLogbook).
RestoredWithHistoryStep ==
  \A u \in Users :
     (job[u].step = "apply" /\ job'[u] = Free /\ flights' # flights /\ ~job[u].file.torn) =>
       LET x == job[u].file IN
       \E at \in [DOMAIN x.content.flights -> IdSet] :
         /\ \A o, p \in DOMAIN x.content.flights : at[o] = at[p] => o = p
         /\ \A o \in DOMAIN x.content.flights :
              /\ flights'[at[o]] = planFlight(u, x.content.flights[o])
              /\ o \in DOMAIN x.logbook.revs =>
                   \A n \in 1 .. Len(x.logbook.revs[o]) :
                     n <= Len(revs'[at[o]]) /\ [kind |-> revs'[at[o]][n].kind, snap |-> revs'[at[o]][n].snap] = x.logbook.revs[o][n]
RestoredWithHistory == [][RestoredWithHistoryStep]_restoreVars

\* Replacing an account with its own backup changes neither the voided flights nor the history of
\* a live flight, and every flight keeps its id, however often it is done (API.md, DOMAIN.md:
\* assignFlightIDs, ImportRevisions and flight_revision_finalize together).
OwnBackup(u, x) == x.content.flights = gatherContent(u).flights /\ x.logbook.revs = gatherLogbook(u).revs
OwnBackupChangesNothingStep ==
  (\A x \in files : ~x.torn) =>
    \A u \in Users :
      (job[u].step = "apply" /\ job[u].mode = "replace" /\ job'[u] = Free /\ OwnBackup(u, job[u].file)) =>
        /\ revs' = revs
        /\ \A i \in IdSet : IF i \in FlightsOf(u) THEN flights'[i] # Nothing /\ Snap(flights'[i]) = Snap(flights[i])
                            ELSE flights'[i] = flights[i]
OwnBackupChangesNothing == [][OwnBackupChangesNothingStep]_restoreVars
=============================================================================
