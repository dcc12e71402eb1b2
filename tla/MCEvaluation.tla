---------------------------- MODULE MCEvaluation ----------------------------
(***************************************************************************)
(* What the server works out and what it takes from and gives to other     *)
(* servers, on one small instance each: currency (Currency), the times of  *)
(* a flight (FlightCalc), reports and lists (Reports), imported files      *)
(* (Import), the update check (UpdateCheck), the airport database          *)
(* (AirportData), the storage providers (BackupProviders) and the search   *)
(* of the logbook (FlightSearch).  A behaviour exercises one part; the     *)
(* variables of the others stay unused.                                    *)
(***************************************************************************)
EXTENDS Currency, TLC

CONSTANTS
  \* FlightCalc
  Day, Night, Flights, Patches, CalcWrites,
  \* Reports
  Catalogue, Logbooks, ClassOf, FeaturesOf, Trimmed, InUpper, InLower, Canonical, Collation, CountryOf, Distance, Licences,
  Baselines, Analyses, Lists, Definitions, MaxTimeBuckets,
  PageSize, DaysPerMonth, MonthsPerYear, Today, ReportWrites,
  \* Import
  Tokens, Procs, Files, Confirmations, Previews, HeaderRows, TemplateCatalogue, NormalizeHeader, LooseKey, AuxField, CanonicalReg,
  LookupCode, LookupByName, NightAt, PersonName, KeyOf, OwnNames, LongNames, MaxSessionsPerUser, MaxTotalSessions, MaxImportRows,
  MaxContacts, MaxMoves,
  \* UpdateCheck
  FrontendCommits, APICommit, APIVersion, FrontendVersions, Dev, Configs, Tags, Releasing, MaxHead,
  MaxComparisons, RetryAfter, MaxTime,
  \* AirportData
  CsvRows, JsonRows, Order, FourLong, Hyphenated, WithDigit, Generic, Upper, Matching, Limit,
  \* BackupProviders
  Kinds, Addresses, Settings, AllowPrivate, Retention, OwnFiles, MaxRuns,
  \* FlightSearch
  Pieces, Saved, MaxPieces, Width, Fold, FieldOf, Number, Tenths, Calendar, SearchedFlights, NoValue,
  MaxQueryLength, MaxQueryTerms, MaxFreeTextTerms, MinFreeTextTermLen, MaxDurationHours

VARIABLES
  part,
  row, multi, seen, writes,
  logged, fleet, contacts, baseline, reportDay, req, list, reportWrites,
  sessions, proc, book, regs, people, ids, history, shared, moves,
  config, head, published, releases, comparisons, asked, inflight, front, lastCheck, refresh, fetches, gauge, clock,
  current, fetched,
  kind, cfg, folder, phase, listed, doomed, result, runs, reached,
  typed, tree

Calc == INSTANCE FlightCalc WITH MaxWrites <- CalcWrites
Rep == INSTANCE Reports WITH today <- reportDay, Requests <- Analyses, Trim <- Trimmed, Upper <- InUpper,
                             Lower <- InLower, MaxWrites <- ReportWrites
Reader == INSTANCE ImportRows
OpenedFiles == [n \in DOMAIN Files |-> Reader!openedFile(Files[n])]
Imp == INSTANCE Import WITH flights <- book, fleet <- regs, contacts <- people, Opened <- OpenedFiles
Check == INSTANCE UpdateCheck
Airp == INSTANCE AirportData
Prov == INSTANCE BackupProviders
Search == INSTANCE FlightSearch

Unused == "unused"
calcVars == <<row, multi, seen, writes>>
reportVars == <<logged, fleet, contacts, baseline, reportDay, req, list, reportWrites>>
importVars == <<sessions, proc, book, regs, people, ids, history, shared, moves>>
checkVars == <<config, head, published, releases, comparisons, asked, inflight, front, lastCheck, refresh, fetches, gauge, clock>>
airportVars == <<current, fetched>>
providerVars == <<kind, cfg, folder, phase, listed, doomed, result, runs, reached>>
allVars == <<part, currencyVars, calcVars, reportVars, importVars, checkVars, airportVars, providerVars, typed, tree>>

NoCalc == row = Unused /\ multi = Unused /\ seen = Unused /\ writes = Unused
NoRep == logged = Unused /\ fleet = Unused /\ contacts = Unused /\ baseline = Unused /\
         reportDay = Unused /\ req = Unused /\ list = Unused /\ reportWrites = Unused
NoImp == sessions = Unused /\ proc = Unused /\ book = Unused /\ regs = Unused /\ people =
         Unused /\ ids = Unused /\ history = Unused /\ shared = Unused /\ moves = Unused
NoCheck == config = Unused /\ head = Unused /\ published = Unused /\ releases = Unused /\ comparisons = Unused /\
           asked = Unused /\ inflight = Unused /\ front = Unused /\ lastCheck = Unused /\ refresh = Unused /\
           fetches = Unused /\ gauge = Unused /\ clock = Unused
NoAirp == current = Unused /\ fetched = Unused
NoProv == kind = Unused /\ cfg = Unused /\ folder = Unused /\ phase = Unused /\ listed =
          Unused /\ doomed = Unused /\ result = Unused /\ runs = Unused /\ reached = Unused
NoSearch == typed = Unused /\ tree = Unused

EvaluationInit ==
  /\ CurrencyInit
  /\ \/ part = "currency" /\ NoCalc /\ NoRep /\ NoImp /\ NoCheck /\ NoAirp /\ NoProv /\ NoSearch
     \/ /\ pilot = CHOOSE p \in Pilots : TRUE     \* nobody asks about his flights
        /\ \/ part = "calc" /\ Calc!CalcInit /\ NoRep /\ NoImp /\ NoCheck /\ NoAirp /\ NoProv /\ NoSearch
           \/ part = "reports" /\ Rep!ReportInit /\ NoCalc /\ NoImp /\ NoCheck /\ NoAirp /\ NoProv /\ NoSearch
           \/ part = "import" /\ Imp!ImportInit /\ NoCalc /\ NoRep /\ NoCheck /\ NoAirp /\ NoProv /\ NoSearch
           \/ part = "check" /\ Check!CheckInit /\ NoCalc /\ NoRep /\ NoImp /\ NoAirp /\ NoProv /\ NoSearch
           \/ part = "airports" /\ Airp!AirportInit /\ NoCalc /\ NoRep /\ NoImp /\ NoCheck /\ NoProv /\ NoSearch
           \/ part = "providers" /\ Prov!ProviderInit /\ NoCalc /\ NoRep /\ NoImp /\ NoCheck /\ NoAirp /\ NoSearch
           \/ part = "search" /\ Search!SearchInit /\ NoCalc /\ NoRep /\ NoImp /\ NoCheck /\ NoAirp /\ NoProv

EvaluationNext ==
  \/ /\ part = "currency" /\ CurrencyNext
     /\ UNCHANGED <<part, calcVars, reportVars, importVars, checkVars, airportVars, providerVars, typed, tree>>
  \/ /\ part = "calc" /\ Calc!CalcNext
     /\ UNCHANGED <<part, currencyVars, reportVars, importVars, checkVars, airportVars, providerVars, typed, tree>>
  \/ /\ part = "reports" /\ Rep!ReportNext
     /\ UNCHANGED <<part, currencyVars, calcVars, importVars, checkVars, airportVars, providerVars, typed, tree>>
  \/ /\ part = "import" /\ Imp!ImportNext
     /\ UNCHANGED <<part, currencyVars, calcVars, reportVars, checkVars, airportVars, providerVars, typed, tree>>
  \/ /\ part = "check" /\ Check!CheckNext
     /\ UNCHANGED <<part, currencyVars, calcVars, reportVars, importVars, airportVars, providerVars, typed, tree>>
  \/ /\ part = "airports" /\ Airp!AirportNext
     /\ UNCHANGED <<part, currencyVars, calcVars, reportVars, importVars, checkVars, providerVars, typed, tree>>
  \/ /\ part = "providers" /\ Prov!ProviderNext
     /\ UNCHANGED <<part, currencyVars, calcVars, reportVars, importVars, checkVars, airportVars, typed, tree>>
  \/ /\ part = "search" /\ Search!SearchNext
     /\ UNCHANGED <<part, currencyVars, calcVars, reportVars, importVars, checkVars, airportVars, providerVars>>

EvaluationSpec == EvaluationInit /\ [][EvaluationNext]_allVars

-----------------------------------------------------------------------------
\* What the evaluation tells a pilot: a rating called current with an expiry stays
\* so until that day without another flight, and the day it is said to have lapsed
\* is the day after the last on which it was current; for a custom rule, whose
\* search leaves out the window's first day, after the last on which it was
\* current without that day (Currency).
CurrencyRight == part = "currency" => CurrencyTypeOK /\ PromisesKept /\ LapseIsFirstDay

\* The times of a flight: no minute counts as two functions of the pilot, a second
\* calculation changes nothing, a function that is over leaves no time, a name
\* gives way to the crew, and night lies within the block time (FlightCalc).
CalcRight ==
  part = "calc" => /\ Calc!MinutesCountedOnce /\ Calc!RecalculationIsStable
                   /\ Calc!NoFormerFunction /\ Calc!SelfGivesWay /\ Calc!NightWithinBlock

\* The breakdowns of the reports add up to the same flights, agree with the
\* statistics and the older reports, streaks are runs, nobody has two rows, and the
\* pages of the list are the list, and a custom report accounts for its flights
\* (Reports).  A search finds the flights its query describes (FlightSearch).
ReportsRight ==
  /\ part = "search" => /\ Search!QueriesMeanWhatTheySay /\ Search!NothingElseAccepted
                        /\ Search!RangesPartition /\ Search!NegationPartitions
  /\ part = "reports" => /\ Rep!BreakdownsAddUp /\ Rep!AgreesWithStatistics
                         /\ Rep!PlacesSeeEveryAirport /\ Rep!StreaksAreRuns /\ Rep!RecordsAreRecords
                         /\ Rep!OneRowPerPerson /\ Rep!PagesPartitionTheList
                         /\ Rep!ListAgreesWithStatistics /\ Rep!OlderReportsAgree
                         /\ Rep!CustomReportsAccount

\* An import links only contacts that exist, adds nothing a second time, does what
\* its preview said and accounts for every row, and what a file is taken for
\* depends on its columns alone (Import).
ImportRight ==
  part = "import" => /\ Imp!LinksExist /\ Imp!ReimportAddsNothing
                     /\ Imp!PreviewHonest /\ Imp!NothingUnaccounted
                     /\ Imp!TemplatesSettle

\* What other servers say and keep: no false alarm about an update, a bounded cache, one
\* comparison at a time for a commit, and silence when switched off (UpdateCheck); a name or a code leads
\* to the only airport that bears it, and a search keeps its order (AirportData);
\* an upload reported as done is whole, and a transfer runs only to an address and
\* a server the guard and the settings allow (BackupProviders).
OutsideRight ==
  /\ part = "check" => /\ Check!NoFalseAlarm /\ Check!CacheBounded /\ Check!OneFetchPerCommit
                       /\ Check!DisabledIsQuiet /\ Check!VersionsAreOrdered
  /\ part = "airports" => /\ Airp!NamesFindTheOnlyOne /\ Airp!CodesFindTheOwner
                          /\ Airp!SearchIsOrdered
  /\ part = "providers" => Prov!UploadMeansWhole /\ Prov!ConnectionsVetted

\* A reload drops no usable airport, and retention none of the newest backups.
NothingNeededDropped ==
  [][/\ part = "airports" => Airp!NothingUsableLostStep
     /\ part = "providers" => Prov!NewestKeptStep]_allVars

-----------------------------------------------------------------------------
(* The instance. *)

\* Currency
Nothing == [class |-> "SEP_LAND", kind |-> "none", mtom |-> 0, total |-> 0, pic |-> 0, dual |-> 0, ifr |-> 0, day |-> 0, night |-> 0,
  takeoffs |-> 0, approaches |-> 0, holds |-> 0, launch |-> "none", check |-> FALSE, review |-> FALSE, own |-> TRUE]
E1 == [Nothing EXCEPT !.total = 400, !.pic = 400, !.dual = 60, !.day = 6, !.takeoffs = 6]
E2 == [Nothing EXCEPT !.class = "TMG", !.total = 400, !.pic = 360, !.dual = 60, !.day = 2, !.night = 10, !.takeoffs = 15, !.approaches = 6, !.holds = 1]
E3 == [Nothing EXCEPT !.class = "GLIDER", !.total = 300, !.pic = 200, !.dual = 100, !.day = 3, !.takeoffs = 15, !.launch = "winch", !.check = TRUE]
E4 == [Nothing EXCEPT !.class = "ULTRALIGHT", !.kind = "THREE_AXIS", !.total = 400, !.pic = 400, !.dual = 30, !.day = 8, !.takeoffs = 2]
E5 == [Nothing EXCEPT !.total = 10, !.day = 1]
MCEntries == {E1, E2, E3, E4, E5}
Rating(c, k, e) == [class |-> c, kind |-> k, expiry |-> e]
Lic(a, t, rs) == [authority |-> a, type |-> t, issued |-> 0, ratings |-> rs]
MCPilots == {<<Lic("EASA", "LAPL", {Rating("SEP_LAND", "none", NoDate), Rating("IR", "none", 4)}), Lic("EASA", "SPL", {Rating("GLIDER", "none", NoDate), Rating("TMG", "none", NoDate)})>>,
  <<Lic("FAA", "PRIVATE", {Rating("SEP_LAND", "none", NoDate), Rating("IR", "none", 6)}), Lic("LBA", "UL", {Rating("ULTRALIGHT", "none", NoDate)})>>,
  <<Lic("EASA", "PPL", {Rating("SEP_LAND", "none", 7), Rating("TMG", "none", 5)})>>}
MCCustom == [window |-> [amount |-> 3, unit |-> "days"], filters |-> {}, requirements |-> {[metric |-> "landings", min |-> 9, unit |-> "none"], [metric |-> "total", min |-> 8, unit |-> "hours"]}]
MCFloor == -1


\* Values of the components' own constants, written out here.
Blank == 0 - 1
Unread == 0 - 2
Unlimited == 0 - 1000
NoFilter == [from |-> Unlimited, to |-> Unlimited, since |-> 0, reg |-> "", dep |-> "", arr |-> "",
             pic |-> BOOLEAN, dual |-> BOOLEAN, byRegistrations |-> FALSE, registrations |-> {}]
Uncounted ==
  [c \in {"total", "pic", "dual", "sic", "given", "mp", "picus", "spic", "examiner", "relief", "solo", "cross", "night",
          "ifr", "landingsDay", "landingsNight", "all", "takeoffsDay", "takeoffsNight", "actual"} |-> 0]
  @@ [isPic |-> FALSE, isDual |-> FALSE]
ASSUME WrittenOut == /\ Blank = Calc!Absent /\ Blank = Imp!Empty /\ Unread = Imp!Bad /\ Unlimited = Rep!NoDay /\ NoFilter = Rep!NoOptions
                     /\ Uncounted = Calc!Cleared /\ "none" = Calc!NoName

\* FlightCalc
Crew(w, r) == [who |-> w, role |-> r]
Base == [sim |-> FALSE, passenger |-> FALSE, picName |-> "none", instructor |-> "none", crew |-> {}, dep |-> "a", arr |-> "b",
         off |-> 4, on |-> 1, takeoff |-> 5, landing |-> Blank, simTime |-> 0, simulated |-> 0,
         sicO |-> FALSE, mpO |-> FALSE, nightO |-> FALSE, crossO |-> FALSE, landingsO |-> FALSE, takeoffsO |-> FALSE]
        @@ Uncounted
MCFlights == { [total |-> 3, all |-> 2] @@ Base,
               [total |-> 3, landingsDay |-> 1, landingsNight |-> 1, landingsO |-> TRUE, crew |-> {Crew("ann", "PIC")}, actual |-> 2, off |-> Blank, on |-> Blank, arr |-> "a"] @@ Base,
               [total |-> 2, picName |-> "Self", crew |-> {Crew("ann", "Instructor")}, simulated |-> 3, dep |-> "?"] @@ Base }
MCCrews == {{}, {Crew("ann", "Instructor")}, {Crew("ann", "PIC")}, {Crew("self", "SIC"), Crew("ann", "PIC")}, {Crew("ann", "Student")}, {Crew("self", "Instructor")},
            {Crew("self", "PIC"), Crew("ann", "Passenger")}, {Crew("bob", "Examiner"), Crew("self", "SafetyPilot")}}
MCPatches == {[crew |-> c] : c \in MCCrews}
   \cup {[sic |-> 2], [mp |-> 1], [night |-> 1], [night |-> Blank], [picus |-> 1], [spic |-> 1], [relief |-> 4]}
   \cup {[off |-> 2], [off |-> Blank, on |-> Blank], [takeoff |-> 0], [landing |-> 0], [dep |-> "?"], [arr |-> "a"], [all |-> 3], [total |-> 5], [examiner |-> 1], [sim |-> TRUE, simTime |-> 1], [picName |-> "eve"], [picName |-> "none"], [off |-> Blank, total |-> 5], [instructor |-> "ann"]}
MCNight == [x \in {"a", "b"} |-> IF x = "a" THEN {0, 5, 6, 11} ELSE {0, 1, 6, 7}]

\* Reports
Member(n, c, r) == [name |-> n, contact |-> c, role |-> r]
Flown == [kind |-> "flight", reg |-> "R1", type |-> "t", dep |-> "AA", arr |-> "BB", minutes |-> 60, dual |-> 0, fstd |-> 0,
      landings |-> 1, distance |-> 0, counted |-> 0, approaches |-> <<>>, crew |-> {}, instructor |-> "", hour |-> 1, date |-> 4,
      isPic |-> TRUE, isDual |-> FALSE]
MCCatalogue == <<
  [Flown EXCEPT !.crew = {Member("ann", "ann", "PIC"), Member(" ", "", "SIC")}, !.distance = 3],
  [Flown EXCEPT !.arr = "AA", !.hour = -1, !.counted = 2, !.approaches = <<"">>, !.minutes = 30, !.crew = {Member("Ann ", "", "SIC"), Member("bob", "", "SIC")}],
  [Flown EXCEPT !.date = 1, !.reg = "R2", !.dep = "aa", !.arr = "", !.dual = 299, !.isDual = TRUE, !.isPic = FALSE, !.minutes = 300, !.instructor = "bob", !.crew = {Member("Bob", "", "PIC")}],
  [Flown EXCEPT !.date = 6, !.counted = 1, !.approaches = <<"AA", "">>, !.minutes = 0, !.dep = "", !.arr = "CC", !.reg = "R2", !.type = "T"],
  [Flown EXCEPT !.date = 5, !.kind = "passenger", !.instructor = " "],
  [Flown EXCEPT !.date = 5, !.kind = "simulator", !.minutes = 0, !.fstd = 50, !.landings = 0] >>
MCLogbooks == {{6}, {1, 2, 4}, DOMAIN MCCatalogue}
MCClass == [R1 |-> "SEP", R2 |-> "TMG"]
MCFeatures == [R1 |-> {"Complex", "Tailwheel"}, R2 |-> {}]
Texts == {"", " ", "AA", "aa", "BB", "CC", "R1", "r1", "R2", "t", "T", "ann", "Ann", "Ann ", "bob", "Bob", "pic", "dual"}
MCTrimmed == [x \in Texts |-> CASE x = " " -> "" [] x = "Ann " -> "Ann" [] OTHER -> x]
MCInUpper == [x \in Texts |-> CASE x = "aa" -> "AA" [] x = "r1" -> "R1" [] x = "t" -> "T" [] OTHER -> x]
MCInLower == [x \in Texts |-> CASE x = "Ann" -> "ann" [] x = "Bob" -> "bob" [] OTHER -> x]
MCCollation == [x \in Texts |-> CASE x \in {"", " "} -> 0 [] x = "aa" -> 1 [] x = "AA" -> 2 [] x = "BB" -> 3 [] x = "CC" -> 4 [] x = "R1" -> 5 [] x = "R2" -> 6 [] OTHER -> 7]
MCCountry == [AA |-> "DE", BB |-> "DE", CC |-> ""]
MCDistance == [p \in {{"AA"}, {"BB"}, {"CC"}, {"AA", "BB"}, {"AA", "CC"}, {"BB", "CC"}} |->
                 IF Cardinality(p) = 1 THEN 0 ELSE IF p = {"AA", "BB"} THEN 1 ELSE 2]
Licence(a, t, c) == [authority |-> a, type |-> t, classes |-> c]
MCLicences == [l1 |-> Licence("EASA", "PPL", {"SEP"}), l2 |-> Licence("EASA", "PPL", {}), l3 |-> Licence("FAA", "PRIVATE", {"TMG"})]
MCBaselines == {[day |-> 3, minutes |-> 5, flights |-> 2, dual |-> 1, landings |-> 4]}
Everything == [reg |-> "", dep |-> "", arr |-> "", role |-> "", licence |-> ""]
During(k, m, a, b) == [kind |-> k, months |-> m, from |-> a, to |-> b]
Definition(f, w, g, m, l) == [filter |-> f, window |-> w, groupBy |-> g, metric |-> m, limit |-> l]
Always == During("all", 0, 0, 0)
MCDefinitions ==
  {Definition(Everything, w, "month", "minutes", 0) :
     w \in {Always, During("lastMonths", 2, 0, 0), During("lastMonths", 121, 0, 0), During("range", 0, Unlimited, 5),
            During("range", 0, 5, 4), During("range", 0, 3, 30)}}
  \cup {Definition(Everything, w, "year", "minutes", 0) : w \in {During("yearToDate", 0, 0, 0), During("range", 0, 2, Unlimited)}}
  \cup {Definition(Everything, Always, "dayOfWeek", "fstd", 0), Definition(Everything, Always, "route", "flights", 101), Definition(Everything, Always, "route", "fstd", Unlimited)}
  \cup {Definition(Everything, Always, g, "landings", 1) : g \in {"aircraftType", "registration", "departure"}}
  \cup {Definition(f, Always, "route", "dual", 1) :
          f \in {[Everything EXCEPT !.dep = "aa"], [Everything EXCEPT !.reg = "r1"], [Everything EXCEPT !.arr = " "],
                 [Everything EXCEPT !.role = "dual"], [Everything EXCEPT !.licence = "l1"], [Everything EXCEPT !.licence = "l4"]}}
MCAnalyses == {[months |-> 0, limit |-> 2], [months |-> 1, limit |-> Unlimited], [months |-> 601, limit |-> 3]}
Listing(f, l, by, order) == [filter |-> f, licence |-> l, sortBy |-> by, sortOrder |-> order]
MCLists == {Listing(NoFilter, "", "date", "desc"), Listing([NoFilter EXCEPT !.from = 4], "l4", "date", "asc"),
            Listing([NoFilter EXCEPT !.reg = "r1", !.pic = {TRUE}], "", "totalTime", "desc"),
            Listing([NoFilter EXCEPT !.to = 5, !.since = 1], "l1", "createdAt", "asc")}

\* Import
AllFields == {"date", "aircraftReg", "departureIcao", "arrivalIcao", "route", "offBlockTime", "onBlockTime", "totalTime", "nightTime",
              "landingsDay", "landingsNight", "landingsTotal", "actualInstrumentTime", "person1", "person2", "instructorName",
              "fstdType", "simulatedFlightTime"}
ImportHeader == <<"date", "aircraftReg", "departureIcao", "arrivalIcao", "route", "offBlockTime", "onBlockTime", "totalTime", "hobbs",
                  "nightTime", "landingsDay", "landingsNight", "landingsTotal", "actualInstrumentTime", "person1", "person2",
                  "instructorName", "sic">>
Code(t) == [codeShaped |-> TRUE, short |-> TRUE, text |-> t, upper |-> t]
Town(t, lead) == [codeShaped |-> FALSE, text |-> t, inParens |-> "", hasLower |-> TRUE, leading |-> lead, trailing |-> ""]
Clock(d, t) == [date |-> d, time |-> t]
Person(n, r) == [name |-> n, role |-> r]
Filled(record) == [j \in DOMAIN record |-> <<record[j]>>]
MCFiles == << [aircraft |-> <<>>, flights |-> << << <<>>, << <<"x">> >> >>,
   << << <<"export">>, <<>>, <<>> >>, Filled(ImportHeader),
      << <<1>>, <<"D-1">>, <<Town("EDAA Town", "EDAA")>>, <<Code("B")>>, <<>>, <<Clock(Blank, 1430)>>, <<Clock(Blank, 28)>>, <<40>>, <<90>>,
         <<50>>, <<1>>, <<1>>, <<3>>, <<70>>, <<Person("Roe, Ann", "pic")>>, <<Person("SELF", "sic")>>, <<>>, <<>> >>,
      << <<>>, <<"note">> >>,
      << <<>>, <<"d1">>, <<>>, <<Code("B")>>, <<<<Code("C"), Code("B")>>>>, <<Clock(2, 0)>>, <<Clock(3, 70)>>, <<60>>, <<>>,
         <<>>, <<>>, <<>>, <<2>>, <<>>, <<>>, <<>>, <<"Ann Roe">>, <<20>> >> >> >>],
   [aircraft |-> <<>>, flights |-> << <<Filled(<<"date", "reg", "off">>)>> >>],
   [aircraft |-> <<>>, flights |-> << <<Filled(<<"date", "aircraftReg", "offBlockTime">>), Filled(<<Unread, "D-1", Clock(Blank, 600)>>)>> >>] >>
Own(S) == [f \in S |-> f]
Entry(c, f) == [column |-> c, field |-> f]
MCMapping(hobbs) == [j \in DOMAIN ImportHeader |-> Entry(ImportHeader[j], IF ImportHeader[j] = "hobbs" THEN hobbs
                                                                          ELSE IF ImportHeader[j] = "sic" THEN "ignore" ELSE ImportHeader[j])]
MCPreviews == {[entries |-> MCMapping("ignore"), skip |-> TRUE], [entries |-> MCMapping("totalTime"), skip |-> FALSE]}
MCTemplates == <<
  [columns |-> Own(AllFields) @@ [x \in {"total time"} |-> "totalTime"] @@ [x \in {"sic", "co-pilot"} |-> "ignore"], signature |-> {"offBlockTime", "onBlockTime"}, min |-> 1, priority |-> 20],
  [columns |-> Own({"date", "aircraftReg", "departureIcao", "arrivalIcao", "offBlockTime"}) @@ [x \in {"total time"} |-> "totalTime"] @@ [x \in {"total-time"} |-> "nightTime"] @@ [x \in {"instructor"} |-> "instructorName"],
   signature |-> {"offBlockTime", "instructor"}, min |-> 1, priority |-> 10],
  [columns |-> Own(AllFields), signature |-> {}, min |-> 0, priority |-> 90] >>
MCHeaderRows == {<<"Date", "Off", "total_time", "aircraftReg", "SIC", "co-pilot">>, <<"date", "instructor", "offBlockTime", "total_time", "total time", "">>,
  <<"date", "total-time", "total time", "instructor", "mood">>, <<"Date", "date", "departureIcao", "mood", "arrivalIcao">>}
MCNormalize == Own(AllFields \cup {"", "hobbs", "reg", "off", "total time", "total_time", "total-time", "instructor", "sic", "co-pilot", "mood"})
               @@ [x \in {"Date"} |-> "date"] @@ [x \in {"Off"} |-> "offBlockTime"] @@ [x \in {"SIC"} |-> "sic"]
MCLoose == [x \in {"total time", "total_time", "total-time"} |-> "totaltime"] @@ [x \in {"co-pilot"} |-> "copilot"]
           @@ Own(AllFields \cup {"", "hobbs", "reg", "off", "instructor", "sic", "mood"})
MCAux == [x \in {"sic", "copilot"} |-> "sic"]
MCCanonicalReg == [x \in {"D-1", "d1"} |-> "D-1"]
MCLookupCode == [x \in {"B"} |-> "EDBB"]
MCLookupByName == <<>>
MCNightAt == [x \in {"EDAA", "EDBB"} |-> 1440 .. 1470]
MCPersonName == [x \in {"", "SELF", "Ann Roe", "Roe, Ann"} |-> IF x = "Roe, Ann" THEN "Ann Roe" ELSE x]
MCKeyOf == [x \in {"", "SELF", "Ann Roe"} |-> CASE x = "SELF" -> "self" [] x = "Ann Roe" -> "ann roe" [] OTHER -> x]
MCConfirmations == {[rows |-> {}, duplicates |-> FALSE], [rows |-> {1}, duplicates |-> TRUE]}
Symmetry == Permutations(Procs)

\* UpdateCheck
MCTags == << <<1, 0, 0, <<<<1, 3>>, <<0, 10>>>>>> >>
MCVersions == {<<1, 0, 0, <<<<1, 3>>, <<0, 2>>>>>>}
MCConfigs == {[enabled |-> TRUE, periodic |-> TRUE], [enabled |-> FALSE, periodic |-> TRUE]}
OnBranch == <<0, 0>>
MCFrontendCommits == {<<>>, <<0, 1>>}
MCMaxHead == [api |-> 1, frontend |-> 0]

\* AirportData
MCOrder == <<"2B", "A1", "AAAA", "AB-1", "BBBB", "CCCC">>
MCUpper == [c \in {"a1", "2b", "aaaa", "ab-1", "bbbb"} |->
              CASE c = "a1" -> "A1" [] c = "2b" -> "2B" [] c = "aaaa" -> "AAAA"
                [] c = "ab-1" -> "AB-1" [] OTHER -> "BBBB"]
MCMatching == [q \in {"2", "A", "B"} |->
              CASE q = "2" -> {"2B"} [] q = "A" -> {"A1", "AAAA", "AB-1"} [] OTHER -> {"BBBB"}]
Csv(i, g, k, c, n, l, f) == [ident |-> i, gps |-> g, kind |-> k, coords |-> c, name |-> n, local |-> l, filled |-> f]
MCCsv == { Csv("AAAA", "", "airport", "zero", <<"aspen", "valley", "airport">>, "A1", {"country"}),
           Csv("AB-1", "", "airport", "ok", <<"aspen", "valley", "strip">>, "A1", {}),
           Csv("B1", "BBBB", "airport", "ok", <<"aspen", "valley">>, "2B", {"iata"}),
           Csv("B2", "BBBB", "airport", "ok", <<"bow", "airport">>, "A1", {"city"}),
           Csv("BBBB", "", "airport", "unparsable", <<"bow">>, "AB-1", {}) }
Json(k, i, c, n, f) == [key |-> k, icao |-> i, coords |-> c, name |-> n, filled |-> f]
MCJson == { Json("AAAA", "", "ok", <<>>, {"timezone"}),
            Json("B", "BBBB", "ok", <<"aspen", "valley", "field">>, {"country", "city"}),
            Json("CCCC", "", "ok", <<"aspen", "valley">>, {}) }

\* BackupProviders
MCAddresses == {[form |-> "v4", v4 |-> "public"], [form |-> "nat64", v4 |-> "private"],
                [form |-> "compatible", v4 |-> "loopback"]}
Cfg(p, a, s, i) == [complete |-> TRUE, pinned |-> p, acceptAny |-> a, scheme |-> s, allowInsecure |-> i]
MCSettings == {Cfg("good", FALSE, "https", FALSE), Cfg("none", TRUE, "http", TRUE), Cfg("none", FALSE, "http", FALSE)}
MCOwn == {[name |-> <<"own", 1>>, type |-> "plain", whole |-> TRUE],
          [name |-> <<"own", 2>>, type |-> "hidden", whole |-> TRUE]}

\* FlightSearch
Piece(r, t) == [role |-> r, text |-> t, means |-> [tag |-> "?"]]
When(t, tag, rel, v) == [role |-> "condition", text |-> t, means |-> [tag |-> tag, rel |-> rel, value |-> v]]
Meaningless(t) == Piece("condition", t)
Span(a, b) == [from |-> a, to |-> b]
OffBlock == When(<<"off", ">", "=", "10", ":", "30", " ">>, "off", "since", Span(37800, 37800))
InMonth == When(<<"date", ":", "2001-02", " ">>, "date", "is", Span(8, 9))
AnyText == When(<<"\"", "D-", "*", "f", "\"", " ">>, "", "contains", <<<<"D-">>, <<"f">>>>)
NotBob == When(<<"crew", "!", "=", "\"", "bob", " ", "e", "\"">>, "crew", "differs", <<<<"bob", " ", "e">>>>)
LongFlight == When(<<"total", ">", "1.5", "h", " ">>, "total", "after", Span(90, 90))
NoDateGiven == Meaningless(<<"date", ":", " ">>)
MCPieces == { Piece("open", <<"(">>), Piece("close", <<")">>), Piece("not", <<"NOT", " ">>),
  Piece("or", <<"OR", " ">>), OffBlock, AnyText }
Conditions == { OffBlock, InMonth, NotBob, LongFlight, NoDateGiven,
  When(<<"date", "<", "=", "2002", " ">>, "date", "upto", Span(12, 17)),
  When(<<"date", "!", "=", "2001-02-02", " ">>, "date", "differs", Span(9, 9)),
  When(<<"reg", "=", "d-", "f", " ">>, "reg", "is", <<<<"d-", "f">>>>),
  When(<<"crew", ":", "bob", " ">>, "crew", "contains", <<<<"bob">>>>),
  When(<<"total", "<", "1", ":", "30", " ">>, "total", "before", Span(90, 90)),
  When(<<"distance", ">", "=", "1.5", " ">>, "distance", "since", Span(15, 15)),
  When(<<"signed", "!", "=", "no", " ">>, "signed", "truly", TRUE),
  When(<<"approach", ":", "e", " ">>, "approach", "contains", <<<<"e">>>>),
  Meaningless(<<"total", ":", "30", ":", "1", " ">>), Meaningless(<<"reg", ">", "e", " ">>), Meaningless(<<"who", ":", "e", " ">>) }
Connectives == {Piece("or", <<"OR", " ">>), Piece("and", <<"&&">>), Piece("and", <<"and", " ">>)}
Second == {OffBlock, InMonth, NotBob, LongFlight, NoDateGiven}
MCSaved == UNION {{<<Piece("not", <<"-">>), c, op, d>> : op \in Connectives} : c \in Conditions, d \in Second}
  \cup {<<n, Piece("open", <<"(">>), OffBlock, op, AnyText, Piece("close", <<")">>)>> : n \in {Piece("not", <<"NOT", " ">>), AnyText}, op \in Connectives}
Lexemes == {"(", ")", "NOT", "not", " ", "-", "and", "&&", "OR", "or", "off", ">", "<", "=", "10", ":", "30", "1", "1.5", "h", "date", "2001-02", "2001-02-02",
            "2002", "crew", "!", "\"", "bob", "D-", "d-", "*", "f", "e", "reg", "total", "signed", "no", "who", "approach", "distance"}
MCWidth == [l \in Lexemes |-> CASE l \in {"NOT", "not", "and", "off", "bob", "1.5", "reg", "who"} -> 3 [] l \in {"date", "crew", "2002"} -> 4
                                [] l \in {"&&", "OR", "or", "10", "30", "D-", "d-", "no"} -> 2 [] l = "total" -> 5 [] l = "signed" -> 6 [] l = "approach" -> 12 [] l = "distance" -> 8
                                [] l = "2001-02" -> 7 [] l = "2001-02-02" -> 10 [] OTHER -> 1]
MCFold == [l \in Lexemes |-> CASE l = "NOT" -> "not" [] l = "OR" -> "or" [] l = "D-" -> "d-" [] OTHER -> l]
Tag(n, t) == [name |-> n, type |-> t]
MCFieldOf == [off |-> Tag("off", "clock"), date |-> Tag("date", "date"), crew |-> Tag("crew", "many"), approach |-> Tag("approach", "many"), reg |-> Tag("reg", "text"),
              total |-> Tag("total", "duration"), signed |-> Tag("signed", "signed"), distance |-> Tag("distance", "number")]
MCNumber == "1" :> 1 @@ "10" :> 10 @@ "30" :> 30 @@ "2002" :> 2002
MCTenths == "1" :> 10 @@ "1.5" :> 15
MCCalendar == "2001-02" :> <<1, 2>> @@ "2001-02-02" :> <<1, 2, 2>> @@ "2002" :> <<2>>
Searched(o, d, t, s, r, c) == [columns |-> [off |-> o, date |-> d, total |-> t, signed |-> s, distance |-> d + 6], texts |-> [reg |-> r], many |-> [crew |-> c, approach |-> {<<"e">>}]]
MCSearched == { Searched(37800, 9, 90, TRUE, <<"d-", "e", "f">>, {<<"bob", " ", "e">>}), Searched(0 - 1, 7, 91, FALSE, <<"D-", "f">>, {}),
                Searched(0, 12, 0, FALSE, <<"e">>, {<<"bob", " ", "e">>, <<"e">>}) }
MCNoValue == 0 - 1
=============================================================================
