------------------------------ MODULE MCLogbook ------------------------------
(***************************************************************************)
(* The logbook and the rows around it on one small instance each: strict   *)
(* flights with their revisions (FlightLog), the simple rows and the       *)
(* deletion feed (Records), rules, reports and files (Collections), backup *)
(* files read back (Restore) and live sessions (FlightSessions).  A        *)
(* behaviour exercises one part; the variables of the others stay unused.  *)
(***************************************************************************)
EXTENDS FlightLog, TLC

CONSTANTS
  \* Records
  AircraftIds, ContactIds, CredentialIds, LicenceIds, RatingIds, LicenceOf, Own, Keys,
  Canonical, Lower, Notes, Signed, Rank, Start, LastTime, Retention, PageSize, NoRow,
  \* Collections
  Accounts, RuleIds, Definitions, Tokens, ReportIds, FileIds, Documents, DocumentOwner,
  MaxRulesPerUser, MaxReportsPerUser, MaxFilesPerSubject, CollectionRequests, None,
  \* Restore
  Users, MaxId, Regs, Names, KeyOf, OldFiles, StartAccounts, StartFlights, MaxOps, Nothing,
  \* FlightSessions
  Taps, MaxSkew, DayLength, MaxDuration, MaxSessions, MaxFlights, MaxTaps

VARIABLES
  part,
  rows, live, tomb, clock, rowReq, rowServed, mirror, mark, feed, late, raced,
  rules, reports, files, documents, lock, listReq, listServed, revoked, stale, ordered, given, overlapped,
  flights, backupRevs, account, nextId, backupFiles, job, ops, lost,
  sessions, flown, now, tap, begun, disturbed

Rec == INSTANCE Records WITH req <- rowReq, served <- rowServed
Coll == INSTANCE Collections WITH req <- listReq, served <- listServed, MaxRequests <- CollectionRequests
Back == INSTANCE Restore WITH revs <- backupRevs, files <- backupFiles
Live == INSTANCE FlightSessions

Unused == "unused"
rowVars == <<rows, live, tomb, clock, rowReq, rowServed, mirror, mark, feed, late, raced>>
collVars == <<rules, reports, files, documents, lock, listReq, listServed, revoked, stale, ordered, given, overlapped>>
backVars == <<flights, backupRevs, account, nextId, backupFiles, job, ops, lost>>
liveVars == <<sessions, flown, now, tap, begun, disturbed>>
allVars == <<part, vars, rowVars, collVars, backVars, liveVars>>

NoRows == /\ rows = Unused /\ live = Unused /\ tomb = Unused /\ clock = Unused /\ rowReq = Unused
          /\ rowServed = Unused /\ mirror = Unused /\ mark = Unused /\ feed = Unused
          /\ late = Unused /\ raced = Unused
NoColl == /\ rules = Unused /\ reports = Unused /\ files = Unused /\ documents = Unused
          /\ lock = Unused /\ listReq = Unused /\ listServed = Unused /\ revoked = Unused
          /\ stale = Unused /\ ordered = Unused /\ given = Unused /\ overlapped = Unused
NoBack == /\ flights = Unused /\ backupRevs = Unused /\ account = Unused /\ nextId = Unused
          /\ backupFiles = Unused /\ job = Unused /\ ops = Unused /\ lost = Unused
NoLive == /\ sessions = Unused /\ flown = Unused /\ now = Unused /\ tap = Unused
          /\ begun = Unused /\ disturbed = Unused

LogbookInit ==
  \/ part = "flights" /\ Init /\ NoRows /\ NoColl /\ NoBack /\ NoLive
  \/ /\ Init /\ strict = FALSE
     /\ \/ part = "rows" /\ Rec!Init /\ NoColl /\ NoBack /\ NoLive
        \/ part = "collections" /\ Coll!Init /\ NoRows /\ NoBack /\ NoLive
        \/ part = "restore" /\ Back!RestoreInit /\ NoRows /\ NoColl /\ NoLive
        \/ part = "live" /\ Live!SessionsInit /\ NoRows /\ NoColl /\ NoBack

LogbookNext ==
  \/ part = "flights" /\ Next /\ UNCHANGED <<part, rowVars, collVars, backVars, liveVars>>
  \/ part = "rows" /\ Rec!Next /\ UNCHANGED <<part, vars, collVars, backVars, liveVars>>
  \/ part = "collections" /\ Coll!Next /\ UNCHANGED <<part, vars, rowVars, backVars, liveVars>>
  \/ part = "restore" /\ Back!RestoreNext /\ UNCHANGED <<part, vars, rowVars, collVars, liveVars>>
  \/ part = "live" /\ Live!SessionsNext /\ UNCHANGED <<part, vars, rowVars, collVars, backVars>>

LogbookSpec == LogbookInit /\ [][LogbookNext]_allVars

-----------------------------------------------------------------------------
TypesOK == /\ TypeOK
           /\ part = "rows" => Rec!TypeOK
           /\ part = "collections" => Coll!TypeOK
           /\ part = "restore" => Back!RestoreTypeOK
           /\ part = "live" => Live!SessionsTypeOK

\* Every change of a flight in a strict logbook after its window carries a reason
\* and no revision is empty, apart from a classification that was overtaken.
FlightsExplained == CorrectionsExplained /\ NoEmptyRevision /\ TypesOK

\* The simple rows and the collections: a client that follows the deletion feed
\* reaches the server's rows and no two contacts carry one name (Records); the
\* quotas hold, a withdrawn share is not served again, an adopted rule belongs to
\* who adopted it and the reports keep their order (Collections).
CollectionsRight ==
  /\ part = "rows" => Rec!DifferencesReachable /\ Rec!NamesUnique
  /\ part = "collections" => /\ Coll!WithinLimits /\ Coll!RevokedStaysRevoked
                             /\ Coll!CopiesAreOwn /\ Coll!OrderKept

\* What no write does: change a signed flight or another user's row, override a
\* calculated time upwards, leave a flight under an aircraft's old registration,
\* or change a column the request does not name.
WritesKeep ==
  [][/\ part = "flights" => SignedKeptStep /\ OverridesDownwardStep
     /\ part = "rows" => /\ Rec!SignedAndForeignKeptStep /\ Rec!RenameCompleteStep
                         /\ Rec!PatchIsLocalStep]_allVars

\* Restoring a backup: what is recorded of a flight only grows, a flight that was
\* voided does not come back, replacing drops no flight signed when it began, a restored
\* flight has the revisions of the file, and an account's own backup changes no history.
RestoreKeeps ==
  [][part = "restore" => /\ Back!HistoryOnlyGrowsStep /\ Back!NothingSignedDroppedStep
                         /\ Back!RestoredWithHistoryStep /\ Back!OwnBackupChangesNothingStep
                         /\ Back!VoidedStaysVoided']_allVars

\* A live session becomes one flight, apart from overlapping taps, with plausible times.
LiveFlightsRight == part = "live" => Live!OneFlightPerSession /\ Live!FlightsPlausible

-----------------------------------------------------------------------------
(* What the theorems about the logbook assume of its constants. *)

ASSUME LiveAssumption == LastTime \in Nat \ {0} /\ MaxFlights \in Nat /\ MaxDuration \in Nat
                         /\ MaxSkew \in Nat /\ DayLength \in Nat \ {0}

\* The sets a quota or a page counts are finite, and what stands for no row is none.
ASSUME CollectionsAssumption ==
  /\ IsFiniteSet(Procs) /\ Procs # {}
  /\ IsFiniteSet(RuleIds) /\ IsFiniteSet(ReportIds) /\ IsFiniteSet(FileIds)
  /\ MaxRulesPerUser \in Nat /\ MaxReportsPerUser \in Nat /\ MaxFilesPerSubject \in Nat
  /\ None \notin Procs \cup RuleIds \cup ReportIds \cup FileIds \cup Tokens \cup Documents
  /\ None \notin Coll!Rule /\ None \notin Coll!Report

Ids == AircraftIds \cup ContactIds \cup CredentialIds \cup LicenceIds \cup RatingIds \cup FlightIds

\* A database to start from: rows written in the past, ratings with their licence, registrations
\* and contact names unique per user, and no flight of another user linked to an own contact.
StartOK(s) ==
  /\ s.rows \in [Ids -> Rec!Row \cup {NoRow}] /\ s.clock \in 1 .. LastTime
  /\ \A id \in Ids : s.rows[id] # NoRow => s.rows[id].at <= s.clock
  /\ \A c \in RatingIds : s.rows[c] # NoRow => s.rows[LicenceOf[c]] # NoRow
  /\ \A a, b \in AircraftIds \cap Own : a # b /\ s.rows[a] # NoRow /\ s.rows[b] # NoRow => s.rows[a].key # s.rows[b].key
  /\ \A a, b \in ContactIds \cap Own :
       a # b /\ s.rows[a] # NoRow /\ s.rows[b] # NoRow => Lower[s.rows[a].key] # Lower[s.rows[b].key]
  /\ \A f \in Ids \ Own : s.rows[f] # NoRow => s.rows[f].link \notin Own
\* Ids are UUIDs, so no two rows of any table share one, and they order any two rows.
ASSUME RecordsAssumption ==
  /\ IsFiniteSet(Ids) /\ Own \subseteq Ids /\ Signed \subseteq FlightIds
  /\ AircraftIds \cap (ContactIds \cup CredentialIds \cup LicenceIds \cup RatingIds \cup FlightIds) = {}
  /\ ContactIds \cap (CredentialIds \cup LicenceIds \cup RatingIds \cup FlightIds) = {}
  /\ CredentialIds \cap (LicenceIds \cup RatingIds \cup FlightIds) = {}
  /\ LicenceIds \cap (RatingIds \cup FlightIds) = {} /\ RatingIds \cap FlightIds = {}
  /\ LicenceOf \in [RatingIds -> LicenceIds] /\ \A c \in RatingIds : c \in Own <=> LicenceOf[c] \in Own
  /\ Canonical \in [Keys -> Keys]
  /\ Rank \in [Ids -> Nat] /\ \A a, b \in Ids : a # b => Rank[a] # Rank[b]
  /\ Retention \in Nat /\ PageSize \in Nat \ {0}
  /\ NoRow \notin Ids \cup Keys \cup Rec!Row
  /\ \A s \in Start : StartOK(s)

\* An account of the restore model: contact names differ in more than their case.
AccountOK(a) ==
  /\ (DOMAIN a) = {"contacts", "fleet", "licences", "reports", "rules", "strict", "certified", "documents"}
  /\ a.contacts \subseteq Names /\ \A m, n \in a.contacts : m # n => KeyOf[m] # KeyOf[n]
\* A backup file names flights of the account it was written from.
FileFlight == [reg : Regs, crew : Names \cup {Nothing}]
ContentOK(c) == /\ c.contacts \subseteq Names
                /\ \A i \in DOMAIN c.flights : c.flights[i] \in FileFlight
\* Ids were given out in order; the files from elsewhere have no history and were written from
\* these accounts.
ASSUME RestoreAssumption ==
  /\ MaxId \in Nat /\ MaxOps \in Nat
  /\ \A r \in Regs : Canonical[r] \in Regs /\ Canonical[Canonical[r]] = Canonical[r]
  /\ Nothing \notin Names \cup {KeyOf[n] : n \in Names} \cup Back!Flight
  /\ \A a \in StartAccounts : (DOMAIN a) = Users /\ \A u \in Users : AccountOK(a[u])
  /\ \A f \in StartFlights :
       /\ f \in [1 .. MaxId -> Back!Flight \cup {Nothing}]
       /\ \A i \in 1 .. MaxId : f[i] # Nothing <=> i <= Cardinality({j \in 1 .. MaxId : f[j] # Nothing})
       /\ \A a \in StartAccounts : \A i \in 1 .. MaxId :
            f[i] # Nothing /\ f[i].link # Nothing => \E n \in a[f[i].owner].contacts : KeyOf[n] = f[i].link
       /\ \A x \in OldFiles : \A i \in DOMAIN x.content.flights : i \in 1 .. MaxId /\ f[i] # Nothing
  /\ \A x \in OldFiles : ContentOK(x.content) /\ (DOMAIN x.logbook.revs) = {}

-----------------------------------------------------------------------------
(* The instance. *)

CH == [country |-> "CH", authority |-> "EASA", terms |-> {}]
DE == [country |-> "DE", authority |-> "EASA", terms |-> {}]
UL == [country |-> "DE", authority |-> "DULV", terms |-> {"UL"}]
Logged1 == [date |-> 1, time |-> 2, night |-> 1, over |-> FALSE, crew |-> "A", sig |-> FALSE]
Logged2 == [date |-> 2, time |-> 2, night |-> 1, over |-> FALSE, crew |-> "B", sig |-> FALSE]
MCStarts ==
  {[flight |-> [f \in FlightIds |-> IF f = "f1" THEN Logged2 ELSE NoFlight],
    licences |-> {CH, UL}, strict |-> TRUE, today |-> 2],
   [flight |-> [f \in FlightIds |-> IF f = "f1" THEN Logged2 ELSE NoFlight],
    licences |-> {DE}, strict |-> TRUE, today |-> 1],
   [flight |-> [f \in FlightIds |-> IF f = "f1" THEN Logged1 ELSE NoFlight],
    licences |-> {DE, CH}, strict |-> FALSE, today |-> 1]}
MCPatches == {[date |-> 1], [time |-> 1], [night |-> 2, over |-> TRUE], [crew |-> "B"]}
MCCalculated == (0 :> 0) @@ (1 :> 0) @@ (2 :> 1)
MCRenamed == ("A" :> "B") @@ ("B" :> "B")
MCNewRows == {[Logged1 EXCEPT !.night = 2, !.over = TRUE], [Logged1 EXCEPT !.time = 0, !.night = 0]}

Stored(k, n, l) == [key |-> k, note |-> n, link |-> l, at |-> 1]
Empty == [id \in Ids |-> NoRow]
MCStart ==
 {[rows |-> [Empty EXCEPT !["a1"] = Stored("d-a", "n1", NoRow), !["a2"] = Stored("B", "n1", NoRow),
             !["f1"] = Stored("d-a", "n1", NoRow), !["f2"] = Stored("d-a", "n1", NoRow)], free |-> {}, clock |-> 2],
  [rows |-> [Empty EXCEPT !["a2"] = Stored("B", "n1", NoRow), !["a3"] = Stored("A", "n1", NoRow)], free |-> {"a1"}, clock |-> 3],
  [rows |-> [Empty EXCEPT !["c1"] = Stored("A", "n1", NoRow), !["f1"] = Stored("B", "n1", "c1"),
             !["f2"] = Stored("B", "n1", "c1")], free |-> {"c2"}, clock |-> 2],
  [rows |-> [Empty EXCEPT !["f1"] = Stored("B", "n1", NoRow), !["f2"] = Stored("B", "n1", NoRow)], free |-> {}, clock |-> 1],
  [rows |-> [Empty EXCEPT !["k1"] = Stored("A", "n1", NoRow)], free |-> {"k2"}, clock |-> 1],
  [rows |-> [Empty EXCEPT !["l1"] = Stored("A", "n1", NoRow), !["r1"] = Stored("A", "n1", NoRow)], free |-> {"l2", "r2"}, clock |-> 2]}
MCCanonical == [k \in Keys |-> IF k = "d-a" THEN "A" ELSE k]
MCLower == [k \in Keys |-> IF k = "A" THEN "d-a" ELSE k]
MCRank == [f1 |-> 1, f2 |-> 2, a1 |-> 3, a2 |-> 4, a3 |-> 5, c1 |-> 6, c2 |-> 7, k1 |-> 8, k2 |-> 9,
           l1 |-> 10, l2 |-> 11, r1 |-> 12, r2 |-> 13]
MCLicenceOf == [id \in RatingIds |-> "l1"]
MCOwner == [d \in Documents |-> "u1"]

NewAccount == [contacts |-> {}, fleet |-> {}, licences |-> {}, reports |-> {}, rules |-> {},
               strict |-> FALSE, certified |-> {}, documents |-> FALSE]
MCStartAccounts == {[u \in Users |-> IF u = "u1" THEN [NewAccount EXCEPT !.contacts = {"Bob"}, !.strict = TRUE]
                                     ELSE NewAccount]}
MCStartFlights == {[i \in 1..MaxId |-> IF i = 1 THEN [owner |-> "u1", reg |-> "A", crew |-> "Bob", link |-> "bob", sig |-> "none"]
                                       ELSE Nothing]}
MCKeyOf == [n \in Names |-> IF n = "Eve" THEN "eve" ELSE "bob"]
MCOldFiles ==
  {[content |-> [flights |-> [i \in {1} |-> [reg |-> "d-a", crew |-> "Eve"]], contacts |-> {"Bob", "bob"},
                 fleet |-> {"d-a", "A"}, licences |-> {"l1"}, reports |-> {[licence |-> "l2"]},
                 rules |-> {[valid |-> FALSE, enabled |-> TRUE]}],
    logbook |-> [strict |-> FALSE, certified |-> {}, revs |-> [i \in {} |-> <<>>]], torn |-> FALSE]}
Symmetry == Permutations(Procs)
=============================================================================
