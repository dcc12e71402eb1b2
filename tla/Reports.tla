------------------------------ MODULE Reports ------------------------------
(***************************************************************************)
(* The figures a pilot reads: the statistics, the analytics page, the      *)
(* older reports and the map, the paged list of flights, custom reports,   *)
(* and the initial hours that are added to some of them.  The rows are     *)
(* only read, but a page is put together from many statements that are not *)
(* in one transaction, so a flight can be logged or removed, and the month *)
(* can change, between two of them.  Which flights may be logged is the    *)
(* constant Catalogue; a row carries the columns the sums tell apart, and  *)
(* its id is also the order in which the rows were created and updated.    *)
(***************************************************************************)
EXTENDS Integers, Sequences, FiniteSets, FiniteSetsExt, SequencesExt, TLC

CONSTANTS
  Catalogue,    \* the flights that can be logged, by id
  Logbooks,     \* the sets of flights an account may start with
  ClassOf,      \* the class of each registration when it is in the fleet
  FeaturesOf,   \* its features: Tailwheel, Complex, High Performance
  Trim, Upper, Lower,   \* what the database makes of every text that is typed
  Canonical,    \* the canonical form of a registration
  Collation,    \* the order of the texts
  CountryOf,    \* the country of each known airport, "" when it has none
  Distance,     \* the distance between two known airports
  Licences,     \* authority, type and rated classes of the pilot's licences, by id
  Baselines,    \* the initial hours a pilot may enter
  Requests,     \* the months and limit an analytics request may carry
  Lists,        \* the requests for the list: filters and order
  Definitions,  \* the definitions a custom report may have, valid or not
  MaxTimeBuckets,
  PageSize,
  DaysPerMonth, MonthsPerYear,
  Today,        \* the first day of the model
  MaxWrites     \* bound: changes of flights, aircraft, contacts, initial hours, month

VARIABLES
  logged,       \* the ids of the flights in the logbook
  fleet,        \* the registrations in the fleet
  contacts,     \* the contacts, each by its name in lower case
  baseline,     \* the initial hours, or NoBaseline
  today,
  req,          \* the analytics request under way, or the last answer
  list,         \* a client reading the list page by page
  reportWrites

reportVars == <<logged, fleet, contacts, baseline, today, req, list, reportWrites>>

NoDay == -1000
NoBaseline == [day |-> -1, minutes |-> 0, flights |-> 0, dual |-> 0, landings |-> 0]
NoRequest == [at |-> 0, months |-> 0, limit |-> 1, now |-> 0, fresh |-> FALSE, out |-> <<>>]
NoList == [at |-> 0, page |-> 0, what |-> <<>>, opts |-> <<>>, total |-> 0, totals |-> <<>>, logbook |-> <<>>,
           seen |-> <<>>, rows |-> <<>>, months |-> <<>>, fresh |-> FALSE]

----------------------------------------------------------------------------
(* Rows and groups of rows. *)

monthOf(d) == d \div DaysPerMonth
Fl(i) == Catalogue[i]
sumOver(S, col(_)) == MapThenSumSet(col, S)

\* The count and the sums; one column stands for all the functions' times.
sumRow(S) ==
  [flights |-> Cardinality(S), minutes |-> sumOver(S, LAMBDA i : Fl(i).minutes),
   dual |-> sumOver(S, LAMBDA i : Fl(i).dual), landings |-> sumOver(S, LAMBDA i : Fl(i).landings)]

groupBy(S, key(_)) == LET K == {key(i) : i \in S}
                      IN [k \in K |-> sumRow({i \in S : key(i) = k})]

sumOfGroups(g) == [minutes |-> MapThenSumSet(LAMBDA k : g[k].minutes, DOMAIN g),
                   flights |-> MapThenSumSet(LAMBDA k : g[k].flights, DOMAIN g)]

\* MIN and MAX of the dates; NoDay is a null.
firstDate(S) == IF S = {} THEN NoDay ELSE Min({Fl(i).date : i \in S})
lastDate(S) == IF S = {} THEN NoDay ELSE Max({Fl(i).date : i \in S})

\* A session in a simulator and a flight as a passenger are no flight time.
onlyFlightTime(S) == {i \in S : Fl(i).kind = "flight"}

\* First day of the window, by the database's clock at the time of the statement.
windowStart(months, now) == (monthOf(now) - months) * DaysPerMonth

newReportScope(months) ==
  {i \in onlyFlightTime(logged) : months > 0 => Fl(i).date >= windowStart(months, today)}

\* The rankings of the queries with a LIMIT, on a first and a second figure.
byMinutes == <<"minutes", "flights">>
byFlights == <<"flights", "minutes">>
notBelow(a, b) == a[1] > b[1] \/ (a[1] = b[1] /\ a[2] >= b[2])

\* The tables such a query may return: ties fall either way, and a limit of zero
\* or less is none.
withLimit(g, limit, by) ==
  LET K == DOMAIN g
      rank(k) == <<g[k][by[1]], g[k][by[2]]>>
      n == IF limit <= 0 THEN Cardinality(K) ELSE Min({limit, Cardinality(K)})
  IN {[k \in T |-> g[k]] : T \in {T \in kSubset(n, K) :
                                    \A k \in T, o \in K \ T : notBelow(rank(k), rank(o))}}

----------------------------------------------------------------------------
(* The statements of the reports repository. *)

Totals(months) == LET S == newReportScope(months)
  IN [approaches |-> sumOver(S, LAMBDA i : Fl(i).counted),
      registrations |-> Cardinality({Fl(i).reg : i \in S}),
      types |-> Cardinality({Fl(i).type : i \in S}),
      first |-> firstDate(S), last |-> lastDate(S)] @@ sumRow(S)

Monthly(months) == groupBy(newReportScope(months), LAMBDA i : monthOf(Fl(i).date))
Yearly(months) == groupBy(newReportScope(months), LAMBDA i : monthOf(Fl(i).date) \div MonthsPerYear)

CarriedForwardMinutes(months) ==
  IF months <= 0 THEN 0
  ELSE sumOver({i \in onlyFlightTime(logged) : Fl(i).date < windowStart(months, today)},
               LAMBDA i : Fl(i).minutes)

ByAircraft(months, limit, byRegistration) ==
  LET S == newReportScope(months)
      key(i) == IF byRegistration THEN Fl(i).reg ELSE Fl(i).type
      g == groupBy(S, key)
      mine(k) == {i \in S : key(i) = k}
  IN withLimit([k \in DOMAIN g |-> [first |-> firstDate(mine(k)), last |-> lastDate(mine(k))] @@ g[k]],
               limit, byMinutes)

\* A LEFT JOIN: a flight whose aircraft is not in the fleet is Unclassified.
classOf(i) == IF Fl(i).reg \in fleet THEN ClassOf[Fl(i).reg] ELSE "Unclassified"
ByClass(months) == groupBy(newReportScope(months), classOf)

\* An inner join, once for each feature: a flight may be in several rows or in none.
ByCategory(months) ==
  LET S == {i \in newReportScope(months) : Fl(i).reg \in fleet}
      K == UNION {FeaturesOf[Fl(i).reg] : i \in S}
  IN [k \in K |-> sumRow({i \in S : k \in FeaturesOf[Fl(i).reg]})]

\* A flight that starts and ends at one airport has two legs there and is one flight.
ByAirport(months) ==
  LET S == newReportScope(months)
      dep == {i \in S : Fl(i).dep # ""}
      arr == {i \in S : Fl(i).arr # ""}
      K == {Upper[Fl(i).dep] : i \in dep} \cup {Upper[Fl(i).arr] : i \in arr}
      from(a) == {i \in dep : Upper[Fl(i).dep] = a}
      to(a) == {i \in arr : Upper[Fl(i).arr] = a}
  IN [a \in K |-> [departures |-> Cardinality(from(a)), arrivals |-> Cardinality(to(a)),
                   flights |-> Cardinality(from(a) \cup to(a))]]

\* The order of its rows: the most visited first, then by code.
airportOrder(rows) ==
  SetToSortSeq(DOMAIN rows, LAMBDA a, b : \/ rows[a].flights > rows[b].flights
                                          \/ (rows[a].flights = rows[b].flights /\ Collation[a] < Collation[b]))

ByRoute(months, limit) ==
  LET S == {i \in newReportScope(months) : Fl(i).dep # "" /\ Fl(i).arr # ""}
      route(i) == <<Upper[Fl(i).dep], Upper[Fl(i).arr]>>
      g == groupBy(S, route)
  IN withLimit([r \in DOMAIN g |-> [distance |-> Max({Fl(i).distance : i \in {i \in S : route(i) = r}})] @@ g[r]],
               limit, byFlights)

\* The minutes of an instructor are the dual time flown with him.
ByInstructor(months, limit) ==
  LET S == {i \in newReportScope(months) : Trim[Fl(i).instructor] # ""}
      with(n) == {i \in S : Trim[Fl(i).instructor] = n}
  IN withLimit([n \in {Trim[Fl(i).instructor] : i \in S} |->
                  [flights |-> Cardinality(with(n)), minutes |-> sumOver(with(n), LAMBDA i : Fl(i).dual),
                   last |-> lastDate(with(n))]], limit, byMinutes)

\* The person a crew entry stands for: its contact, else the contact that has
\* its name in any case, else the name.
personKey(m) == LET n == Lower[Trim[m.name]]
                IN IF m.contact # "" THEN <<"contact", m.contact>>
                   ELSE IF n \in contacts THEN <<"contact", n>> ELSE <<"name", n>>

\* One row per person; the roles are shown by the minutes flown in them.
ByCrew(months, limit) ==
  LET S == newReportScope(months)
      entries == {e \in UNION {{<<i, m>> : m \in Fl(i).crew} : i \in S} : Trim[e[2].name] # ""}
      mine(k) == {e \in entries : personKey(e[2]) = k}
      time(E) == MapThenSumSet(LAMBDA e : Fl(e[1]).minutes, E)
      in(k, role) == {e \in mine(k) : e[2].role = role}
  IN withLimit([k \in {personKey(e[2]) : e \in entries} |->
                  [flights |-> Cardinality(mine(k)), minutes |-> time(mine(k)),
                   roles |-> [role \in {e[2].role : e \in mine(k)} |-> time(in(k, role))],
                   last |-> lastDate({e[1] : e \in mine(k)})]], limit, byMinutes)

ApproachTypes(months) ==
  LET S == newReportScope(months)
      all == UNION {{<<i, n>> : n \in DOMAIN Fl(i).approaches} : i \in S}
      typeOf(p) == IF Fl(p[1]).approaches[p[2]] = "" THEN "Unknown" ELSE Fl(p[1]).approaches[p[2]]
  IN [t \in {typeOf(p) : p \in all} |-> Cardinality({p \in all : typeOf(p) = t})]

ApproachesCountTotal(months) == sumOver(newReportScope(months), LAMBDA i : Fl(i).counted)

\* The model's day 0 is a Monday; Monday is 1.
DayOfWeekBuckets(months) == groupBy(newReportScope(months), LAMBDA i : (Fl(i).date % 7) + 1)
MonthOfYearBuckets(months) ==
  groupBy(newReportScope(months), LAMBDA i : (monthOf(Fl(i).date) % MonthsPerYear) + 1)

\* A flight without an off-block or a departure time is in no hour.
HourOfDayBuckets(months) ==
  groupBy({i \in newReportScope(months) : Fl(i).hour # -1}, LAMBDA i : Fl(i).hour)

\* The first bound the flight is shorter than; the widest bucket has none.
DurationBuckets(months) ==
  groupBy(newReportScope(months),
          LAMBDA i : Cardinality({b \in {30, 60, 120, 180, 300} : Fl(i).minutes >= b}))

\* The flights a query ordered by a column and the date may return first; none is 0.
recordFlight(months, col) ==
  LET S == newReportScope(months)
  IN IF S = {} THEN {0}
     ELSE {i \in S : \A o \in S : notBelow(<<Fl(i)[col], Fl(i).date>>, <<Fl(o)[col], Fl(o).date>>)}
LongestFlight(months) == recordFlight(months, "minutes")
FarthestFlight(months) == recordFlight(months, "distance")

BusiestDay(months) ==
  LET g == groupBy(newReportScope(months), LAMBDA i : Fl(i).date)
      first == {d \in DOMAIN g : \A o \in DOMAIN g : notBelow(<<g[d].flights, d>>, <<g[o].flights, o>>)}
  IN IF first = {} THEN [day |-> NoDay, flights |-> 0]
     ELSE LET d == CHOOSE d \in first : TRUE IN [day |-> d, flights |-> g[d].flights]

LastFlightDate == lastDate(onlyFlightTime(logged))

\* The two queries behind the map: no window, and the codes as they were typed.
RouteCounts ==
  groupBy({i \in onlyFlightTime(logged) : Fl(i).dep # "" /\ Fl(i).arr # ""},
          LAMBDA i : <<Fl(i).dep, Fl(i).arr>>)

AirportCounts ==
  LET S == onlyFlightTime(logged)
      rows == {<<Fl(i).dep, "dep">> : i \in S} \cup {<<Fl(i).arr, "arr">> : i \in S}
  IN [r \in {r \in rows : r[1] # ""} |->
        Cardinality({i \in S : r[1] = IF r[2] = "dep" THEN Fl(i).dep ELSE Fl(i).arr})]

\* The older trend and class reports sum the same scope.
MonthlyTrends(months) == groupBy(newReportScope(months), LAMBDA i : monthOf(Fl(i).date))
AircraftTypeTrends(months) == groupBy(newReportScope(months), LAMBDA i : Fl(i).type)
StatsByClass(months) == groupBy(newReportScope(months), classOf)
StatsByCategory(months) ==
  LET S == {i \in newReportScope(months) : Fl(i).reg \in fleet}
  IN [k \in UNION {FeaturesOf[Fl(i).reg] : i \in S} |->
        [x \in {"flights", "dual"} |-> sumRow({i \in S : k \in FeaturesOf[Fl(i).reg]})[x]]]

\* A number of months that is out of range is taken for a year.
trendMonths(m) == IF m \in 0..600 THEN m ELSE 12

GetFlightTrends(m) ==
  [monthly |-> MonthlyTrends(trendMonths(m)), byAircraftType |-> AircraftTypeTrends(trendMonths(m))]

\* Every authority and type the pilot has a licence of is shown all the flights.
GetStatsByClass(m) ==
  LET byClass == StatsByClass(trendMonths(m))
  IN [byClass |-> byClass, byCategory |-> StatsByCategory(trendMonths(m)),
      byAuthority |-> [k \in {<<Licences[l].authority, Licences[l].type>> : l \in DOMAIN Licences} |->
                         sumOfGroups(byClass)]]

\* A route is drawn when both its airports are known.
GetFlightRoutes ==
  LET drawn == {r \in DOMAIN RouteCounts : {Upper[r[1]], Upper[r[2]]} \subseteq DOMAIN CountryOf}
  IN [routes |-> [r \in drawn |-> RouteCounts[r].flights],
      airports |-> UNION {{Upper[r[1]], Upper[r[2]]} : r \in drawn}]

\* The rows come in the order of the codes and each is assigned: of two spellings
\* of one code the later one's count is kept.
GetAirportStats ==
  LET C == AirportCounts
      kept(a, dir) == LET R == {r \in DOMAIN C : Upper[r[1]] = a /\ r[2] = dir}
                      IN IF R = {} THEN 0
                         ELSE C[CHOOSE r \in R : \A o \in R : Collation[r[1]] >= Collation[o[1]]]
  IN [a \in {Upper[r[1]] : r \in DOMAIN C} |->
        [departures |-> kept(a, "dep"), arrivals |-> kept(a, "arr"), total |-> kept(a, "dep") + kept(a, "arr")]]

----------------------------------------------------------------------------
(* Statistics and initial hours. *)

\* GetStatsByUserID of the repository.
statsOf(from, to) ==
  sumRow({i \in onlyFlightTime(logged) : (from # NoDay => Fl(i).date >= from) /\ (to # NoDay => Fl(i).date <= to)})

baselineCoversRange(b, from) == from # NoDay => from <= b.day

addBaseline(t, b) == [t EXCEPT !.flights = @ + b.flights, !.minutes = @ + b.minutes,
                               !.dual = @ + b.dual, !.landings = @ + b.landings]

GetStatsByUserID(from, to, applyBaseline) ==
  IF applyBaseline /\ baseline # NoBaseline /\ baselineCoversRange(baseline, from)
  THEN addBaseline(statsOf(from, to), baseline) ELSE statsOf(from, to)

Stale == /\ req' = [req EXCEPT !.fresh = FALSE]
         /\ list' = [list EXCEPT !.fresh = FALSE]

Write == /\ reportWrites < MaxWrites
         /\ reportWrites' = reportWrites + 1
         /\ Stale

\* FlightBaseline.Validate: not after tomorrow, and no negative figure.
validBaseline(b) == b.day <= today + 1 /\ \A c \in DOMAIN b \ {"day"} : b[c] >= 0

UpsertBaseline(b) ==
  /\ Write /\ validBaseline(b)
  /\ baseline' = b
  /\ UNCHANGED <<logged, fleet, contacts, today>>

DeleteBaseline ==
  /\ Write /\ baseline # NoBaseline
  /\ baseline' = NoBaseline
  /\ UNCHANGED <<logged, fleet, contacts, today>>

----------------------------------------------------------------------------
(* The query over the flights that the list, its totals and the custom      *)
(* reports share.  A filter on a function is the set of values it admits;   *)
(* what a search finds is modelled by FlightSearch.                         *)

NoOptions == [from |-> NoDay, to |-> NoDay, since |-> 0, reg |-> "", dep |-> "", arr |-> "",
              pic |-> BOOLEAN, dual |-> BOOLEAN, byRegistrations |-> FALSE, registrations |-> {}]

\* An empty list of registrations matches no flight.
appendRegistrationFilter(o, i) == o.byRegistrations => Upper[Fl(i).reg] \in o.registrations

appendFlightFilters(o) ==
  {i \in logged : /\ o.from # NoDay => Fl(i).date >= o.from
                  /\ o.to # NoDay => Fl(i).date <= o.to
                  /\ i > o.since
                  /\ o.reg # "" => Upper[Fl(i).reg] = Upper[o.reg]
                  /\ o.dep # "" => Upper[Fl(i).dep] = Upper[o.dep]
                  /\ o.arr # "" => Upper[Fl(i).arr] = Upper[o.arr]
                  /\ Fl(i).isPic \in o.pic /\ Fl(i).isDual \in o.dual
                  /\ appendRegistrationFilter(o, i)}

\* A licence's logbook: the aircraft of the fleet in the classes it is rated for;
\* without a rating it is every flight.  A licence that is not the pilot's is an
\* error, which the caller deals with.
LogbookScope(l, o) ==
  IF Licences[l].classes = {} THEN o
  ELSE [o EXCEPT !.byRegistrations = TRUE,
                 !.registrations = {Canonical[reg] : reg \in {reg \in fleet : ClassOf[reg] \in Licences[l].classes}}]

----------------------------------------------------------------------------
(* Custom reports: a filter, a window, a grouping and a metric, evaluated on *)
(* request.  One statement reads the flights.                                *)

ReportDefaultLimit == 20
ReportMaxLimit == 100
ReportMaxMonths == 120

IsTimeGrouping(g) == g \in {"month", "year", "dayOfWeek"}
ReportGroupings == {"month", "year", "dayOfWeek", "aircraftType", "registration", "departure", "arrival", "route"}
ReportMetrics == {"flights", "minutes", "dual", "fstd", "landings"}

\* Text filters are trimmed, and what a definition does not use is dropped; "" and
\* NoDay stand for an absent value.
Normalize(d) ==
  [d EXCEPT !.filter.reg = Trim[@], !.filter.dep = Trim[@], !.filter.arr = Trim[@], !.filter.role = Trim[@],
            !.window.months = IF d.window.kind = "lastMonths" THEN @ ELSE NoDay,
            !.window.from = IF d.window.kind = "range" THEN @ ELSE NoDay,
            !.window.to = IF d.window.kind = "range" THEN @ ELSE NoDay,
            !.limit = IF IsTimeGrouping(d.groupBy) THEN NoDay ELSE @]

Validate(d) ==
  /\ d.groupBy \in ReportGroupings /\ d.metric \in ReportMetrics
  /\ d.limit # NoDay => d.limit \in 1..ReportMaxLimit
  /\ \/ d.window.kind \in {"all", "yearToDate"}
     \/ d.window.kind = "lastMonths" /\ d.window.months \in 1..ReportMaxMonths
     \/ d.window.kind = "range" /\ (NoDay \in {d.window.from, d.window.to} \/ d.window.from <= d.window.to)
  /\ d.filter.role \in {"", "pic", "dual"}

\* The first and the last day of a window.
resolveWindow(w, now) ==
  CASE w.kind = "lastMonths" -> <<windowStart(w.months - 1, now), now>>
    [] w.kind = "yearToDate" -> <<windowStart(monthOf(now) % MonthsPerYear, now), now>>
    [] w.kind = "range" -> <<w.from, w.to>>
    [] OTHER -> <<NoDay, NoDay>>

\* No options are an answer "the logbook licence of this report does not exist".
queryOptions(f, w) ==
  LET o == [NoOptions EXCEPT !.from = w[1], !.to = w[2], !.dep = f.dep, !.arr = f.arr,
                             !.reg = IF f.reg = "" THEN "" ELSE Canonical[f.reg],
                             !.pic = IF f.role = "pic" THEN {TRUE} ELSE @,
                             !.dual = IF f.role = "dual" THEN {TRUE} ELSE @]
  IN IF f.licence = "" THEN {o}
     ELSE IF f.licence \in DOMAIN Licences THEN {LogbookScope(f.licence, o)} ELSE {}

\* The key of a row: a number for the groupings in time, else a tuple of texts.
reportGroupExpr(g, i) ==
  LET text(x) == Upper[Trim[x]]
  IN CASE g = "month" -> monthOf(Fl(i).date)
       [] g = "year" -> monthOf(Fl(i).date) \div MonthsPerYear
       [] g = "dayOfWeek" -> (Fl(i).date % 7) + 1
       [] g = "aircraftType" -> <<text(Fl(i).type)>>
       [] g = "registration" -> <<text(Fl(i).reg)>>
       [] g = "departure" -> <<text(Fl(i).dep)>>
       [] g = "arrival" -> <<text(Fl(i).arr)>>
       [] OTHER -> <<text(Fl(i).dep), text(Fl(i).arr)>>

\* The sums of the flight time of a group, and of the sessions in a simulator.  A
\* group that has neither is a group, with nothing in it.
reportRow(S) == [fstd |-> sumOver({i \in S : Fl(i).kind = "simulator"}, LAMBDA i : Fl(i).fstd)]
                @@ sumRow(onlyFlightTime(S))
Aggregate(o, g) ==
  LET S == appendFlightFilters(o)
  IN [k \in {reportGroupExpr(g, i) : i \in S} |-> reportRow({i \in S : reportGroupExpr(g, i) = k})]

\* The rows of a time grouping without gaps, the newest if there are too many.
timeKeys(g, keys, w, now) ==
  LET bucket(d) == IF g = "year" THEN monthOf(d) \div MonthsPerYear ELSE monthOf(d)
      newest == IF keys = {} THEN NoDay ELSE Max(keys)
      lo == IF w[1] # NoDay THEN bucket(w[1]) ELSE IF keys = {} THEN NoDay ELSE Min(keys)
      hi == IF w[2] # NoDay THEN Min({bucket(w[2]), Max({bucket(now), newest})}) ELSE newest
  IN IF g = "dayOfWeek" THEN 1..7
     ELSE IF NoDay \in {lo, hi} THEN {}
     ELSE Max({lo, hi - MaxTimeBuckets + 1})..hi

\* The order of the keys of equal value, and the ranking.
keyBefore(a, b) ==
  \E n \in DOMAIN a : (\A j \in 1..n - 1 : a[j] = b[j]) /\ Collation[a[n]] < Collation[b[n]]
ranked(groups, metric) ==
  SetToSortSeq(DOMAIN groups, LAMBDA a, b : \/ groups[a][metric] > groups[b][metric]
                                            \/ (groups[a][metric] = groups[b][metric] /\ keyBefore(a, b)))

\* The rows in their order, the totals of all groups and how many groups the
\* limit hides.
buildResult(d, groups, w, now) ==
  LET K == DOMAIN groups
      timed == IsTimeGrouping(d.groupBy)
      limit == IF d.limit = NoDay THEN ReportDefaultLimit ELSE d.limit
      all == IF timed THEN SetToSortSeq(timeKeys(d.groupBy, K, w, now), <) ELSE ranked(groups, d.metric)
      keys == IF timed THEN all ELSE SubSeq(all, 1, Min({limit, Len(all)}))
  IN [keys |-> keys,
      rows |-> [k \in Range(keys) |-> IF k \in K THEN groups[k] ELSE reportRow({})],
      totals |-> [c \in ReportMetrics |-> sumOver(K, LAMBDA k : groups[k][c])],
      otherGroups |-> IF timed THEN 0 ELSE Len(all) - Len(keys)]

\* No result is an answer "invalid".
Evaluate(def) ==
  LET d == Normalize(def)
      w == resolveWindow(d.window, today)
  IN IF ~Validate(d) THEN {}
     ELSE {buildResult(d, Aggregate(o, d.groupBy), w, today) : o \in queryOptions(d.filter, w)}

----------------------------------------------------------------------------
(* The writers, as far as the reports see them. *)

LogFlight(i) == /\ Write /\ i \notin logged /\ logged' = logged \cup {i}
                /\ UNCHANGED <<fleet, contacts, baseline, today>>
DeleteFlight(i) == /\ Write /\ i \in logged /\ logged' = logged \ {i}
                   /\ UNCHANGED <<fleet, contacts, baseline, today>>
ChangeFleet(reg) == /\ Write
                    /\ fleet' = IF reg \in fleet THEN fleet \ {reg} ELSE fleet \cup {reg}
                    /\ UNCHANGED <<logged, contacts, baseline, today>>
AddContact(n) == /\ Write /\ n \notin contacts /\ contacts' = contacts \cup {n}
                 /\ UNCHANGED <<logged, fleet, baseline, today>>
MonthPasses == /\ Write /\ today' = today + DaysPerMonth
               /\ UNCHANGED <<logged, fleet, contacts, baseline>>

----------------------------------------------------------------------------
(* GET /reports/analytics: one statement after another, each on its own. *)

defaultAnalyticsRowLimit == 25
maxAnalyticsRowLimit == 200
maxAnalyticsMonths == 600

Sections == <<"totals", "monthly", "yearly", "type", "registration", "class", "category",
              "airports", "routes", "instructors", "crew", "approaches", "counted",
              "dayOfWeek", "monthOfYear", "hourOfDay", "duration", "longest", "farthest", "busiestDay", "last",
              "baseline", "carried">>

\* A figure out of range is answered with an error; an absent one has a default.
GetFlightAnalytics(r) ==
  LET months == IF r.months = NoDay THEN 12 ELSE r.months
      limit == IF r.limit = NoDay THEN defaultAnalyticsRowLimit ELSE r.limit
  IN /\ req.at = 0 /\ list.page = 0
     /\ months \in 0..maxAnalyticsMonths /\ limit \in 1..maxAnalyticsRowLimit
     /\ req' = [at |-> 1, months |-> months, limit |-> limit, now |-> today, fresh |-> TRUE, out |-> <<>>]
     /\ UNCHANGED <<logged, fleet, contacts, baseline, today, list, reportWrites>>

Load(section, value) ==
  /\ req.at \in DOMAIN Sections /\ Sections[req.at] = section
  /\ req' = [req EXCEPT !.at = @ + 1, !.out = (section :> value) @@ @]
  /\ UNCHANGED <<logged, fleet, contacts, baseline, today, list, reportWrites>>

\* A statement fails: the page is answered with an error and nothing of it is kept.
LoadFails ==
  /\ req.at \in DOMAIN Sections
  /\ req' = NoRequest
  /\ UNCHANGED <<logged, fleet, contacts, baseline, today, list, reportWrites>>

analyticsTotals == Load("totals", Totals(req.months))
analyticsMonthly == Load("monthly", Monthly(req.months))
analyticsYearly == Load("yearly", Yearly(req.months))
analyticsByAircraft ==
  \/ \E g \in ByAircraft(req.months, req.limit, FALSE) : Load("type", g)
  \/ \E g \in ByAircraft(req.months, req.limit, TRUE) : Load("registration", g)
analyticsGroups == Load("class", ByClass(req.months)) \/ Load("category", ByCategory(req.months))
analyticsByAirport == Load("airports", ByAirport(req.months))

\* A route no flight has a distance for takes it from the airports, if both are known.
withDistance(g) ==
  [r \in DOMAIN g |->
     IF g[r].distance = 0 /\ r[1] # r[2] /\ {r[1], r[2]} \subseteq DOMAIN CountryOf
     THEN [g[r] EXCEPT !.distance = Distance[{r[1], r[2]}]] ELSE g[r]]
analyticsByRoute == \E g \in ByRoute(req.months, req.limit) : Load("routes", withDistance(g))
analyticsPeople ==
  \/ \E g \in ByInstructor(req.months, req.limit) : Load("instructors", g)
  \/ \E g \in ByCrew(req.months, req.limit) : Load("crew", g)

\* The approaches that have no type of their own are counted as Unspecified, when
\* there are any.
unspecified(structured, counted) ==
  LET rest == counted - sumOver(DOMAIN structured, LAMBDA t : structured[t])
  IN IF rest > 0 THEN structured @@ ("Unspecified" :> rest) ELSE structured
analyticsApproachTypes ==
  \/ Load("approaches", ApproachTypes(req.months))
  \/ Load("counted", unspecified(req.out.approaches, ApproachesCountTotal(req.months)))

\* Every bucket is present, with zeros where no flight is.
denseBuckets(g, lo, hi) == [k \in lo..hi |-> IF k \in DOMAIN g THEN g[k] ELSE sumRow({})]
analyticsPatterns ==
  \/ Load("dayOfWeek", denseBuckets(DayOfWeekBuckets(req.months), 1, 7))
  \/ Load("monthOfYear", denseBuckets(MonthOfYearBuckets(req.months), 1, MonthsPerYear))
  \/ Load("hourOfDay", denseBuckets(HourOfDayBuckets(req.months), 0, 23))
  \/ Load("duration", denseBuckets(DurationBuckets(req.months), 0, 5))

\* The days since the last flight of the whole logbook, none below zero; NoDay
\* when nothing was ever flown.
daysSince(last) == IF last = NoDay THEN NoDay ELSE Max({0, req.now - last})
analyticsRecords ==
  \/ \E i \in LongestFlight(req.months) : Load("longest", i)
  \/ \E i \in FarthestFlight(req.months) : Load("farthest", i)
  \/ Load("busiestDay", BusiestDay(req.months))
  \/ Load("last", daysSince(LastFlightDate))
analyticsBaseline == Load("baseline", baseline)
analyticsCarried == Load("carried", CarriedForwardMinutes(req.months))

\* The rest is computed from the sections the request has loaded.
analyticsCoversBaseline(b) == req.months <= 0 \/ windowStart(req.months, req.now) <= b.day

reportTotals ==
  LET o == req.out
  IN IF o.baseline # NoBaseline /\ analyticsCoversBaseline(o.baseline)
     THEN addBaseline(o.totals, o.baseline) ELSE o.totals

\* The cumulative curve: after each month of the series, oldest first.
cumulative ==
  LET o == req.out
      start == o.carried + o.baseline.minutes
  IN [m \in DOMAIN o.monthly |->
        start + sumOver({n \in DOMAIN o.monthly : n <= m}, LAMBDA n : o.monthly[n].minutes)]

\* An airport that is unknown, or has no country, is in none.
countriesFromAirports(rows) ==
  LET known == {a \in DOMAIN rows : a \in DOMAIN CountryOf /\ CountryOf[a] # ""}
      in(c) == {a \in known : CountryOf[a] = c}
  IN [c \in {CountryOf[a] : a \in known} |->
        [airports |-> Cardinality(in(c)), flights |-> sumOver(in(c), LAMBDA a : rows[a].flights)]]

\* The runs of consecutive months, walked oldest first as the handler does.
monthStreaks(months, now) ==
  LET walk[n \in 0..Len(months)] ==
        IF n = 0 THEN [run |-> 0, longest |-> 0]
        ELSE LET prior == walk[n - 1]
                 run == IF n > 1 /\ months[n - 1] + 1 = months[n] THEN prior.run + 1 ELSE 1
             IN [run |-> run, longest |-> IF run > prior.longest THEN run ELSE prior.longest]
      end == walk[Len(months)]
  IN [longest |-> end.longest,
      current |-> IF months # <<>> /\ Last(months) \in {monthOf(now), monthOf(now) - 1} THEN end.run ELSE 0]

\* The first of the series with the most minutes; NoDay when it is empty.
busiest(series) ==
  LET most == {k \in DOMAIN series : \A o \in DOMAIN series : series[k].minutes >= series[o].minutes}
  IN IF most = {} THEN NoDay ELSE Min(most)

\* The busiest month and year, the home base (the first of the airports) and the
\* airport farthest from it: the first at the greatest distance, if that is not 0.
applyAirportRecords(o) ==
  LET order == airportOrder(o.airports)
      home == IF order = <<>> THEN "" ELSE order[1]
      away(n) == IF order[n] \in DOMAIN CountryOf THEN Distance[{home, order[n]}] ELSE 0
      best == {n \in DOMAIN order : away(n) > 0 /\ \A j \in DOMAIN order :
                                      away(j) < away(n) \/ (away(j) = away(n) /\ n <= j)}
      records == [month |-> busiest(o.monthly), year |-> busiest(o.yearly),
                  active |-> Cardinality(DOMAIN o.monthly), home |-> home]
  IN IF home \notin DOMAIN CountryOf \/ best = {} THEN records @@ [farthest |-> "", miles |-> 0]
     ELSE LET n == CHOOSE n \in best : TRUE IN records @@ [farthest |-> order[n], miles |-> away(n)]

\* The list of airports is cut to the limit last, after what is derived from it.
finishAnalytics ==
  /\ req.at = Len(Sections) + 1
  /\ LET o == req.out
         countries == countriesFromAirports(o.airports)
         order == airportOrder(o.airports)
     IN req' = [req EXCEPT !.at = @ + 1,
          !.out = [final |-> reportTotals, curve |-> cumulative,
                   streaks |-> monthStreaks(SetToSortSeq(DOMAIN o.monthly, <), req.now),
                   shown |-> SubSeq(order, 1, Min({Len(order), req.limit})),
                   countries |-> countries,
                   distinct |-> [airports |-> Len(order), countries |-> Cardinality(DOMAIN countries)],
                   records |-> applyAirportRecords(o)] @@ @]
  /\ UNCHANGED <<logged, fleet, contacts, baseline, today, list, reportWrites>>

LoadNext == \/ analyticsTotals \/ analyticsMonthly \/ analyticsYearly \/ analyticsByAircraft
            \/ analyticsGroups \/ analyticsByAirport \/ analyticsByRoute \/ analyticsPeople
            \/ analyticsApproachTypes \/ analyticsPatterns \/ analyticsRecords
            \/ analyticsBaseline \/ analyticsCarried \/ finishAnalytics \/ LoadFails

----------------------------------------------------------------------------
(* GET /flights, read page by page: the totals, the totals with the initial *)
(* hours, the rows and the totals of their months are four statements.      *)

\* The options a request may get.  Every error of the scope is swallowed: a
\* licence that is not the pilot's leaves the list unfiltered, and so does a
\* failed read of the ratings or of the fleet.
applyFlightFilters(q) ==
  LET o == [q.filter EXCEPT !.reg = IF @ = "" THEN "" ELSE Canonical[@]]
  IN {o} \cup IF q.licence \in DOMAIN Licences THEN {LogbookScope(q.licence, o)} ELSE {}

\* All flights, apart from a range of dates.
listIsUnfiltered(o) == [o EXCEPT !.from = NoDay, !.to = NoDay] = NoOptions

TotalsByUserID(o) == sumRow(appendFlightFilters(o))

\* <<>> when the initial hours do not belong to what is listed.
LogbookTotals(o, totals) ==
  IF listIsUnfiltered(o) /\ baseline # NoBaseline /\ baselineCoversRange(baseline, o.from)
  THEN addBaseline(totals, baseline) ELSE <<>>

sortColumn(by, i) == CASE by = "totalTime" -> Fl(i).minutes [] by = "createdAt" -> i [] OTHER -> Fl(i).date
\* Mutant: no tie-break, so two statements may order equal flights differently.
orderedByColumnOnly(S, by, order) ==
  {s \in SetToSeqs(S) : \A j, k \in DOMAIN s :
     j < k => IF order = "asc" THEN sortColumn(by, s[j]) <= sortColumn(by, s[k])
              ELSE sortColumn(by, s[j]) >= sortColumn(by, s[k])}
\* By the column, then by off-block time with none at the old end, then by
\* creation and id, all in one direction, so that every statement has one order.
buildQuery(S, by, order) ==
  LET newestFirst == SetToSortSeq(S, LAMBDA i, o :
        \/ sortColumn(by, i) > sortColumn(by, o)
        \/ (sortColumn(by, i) = sortColumn(by, o) /\ Fl(i).hour > Fl(o).hour)
        \/ (sortColumn(by, i) = sortColumn(by, o) /\ Fl(i).hour = Fl(o).hour /\ i > o))
  IN {IF order = "asc" THEN Reverse(newestFirst) ELSE newestFirst}

flightMonths(rows) == {monthOf(Fl(rows[n]).date) : n \in DOMAIN rows}

\* One statement over the days from the first to the last of the months, of which
\* the wanted ones are kept.
MonthTotalsByUserID(o, wanted) ==
  LET S == {i \in appendFlightFilters(o) : monthOf(Fl(i).date) \in Min(wanted)..Max(wanted)}
      g == groupBy(S, LAMBDA i : monthOf(Fl(i).date))
  IN IF wanted = {} THEN <<>> ELSE [m \in wanted \cap DOMAIN g |-> g[m]]

listUnchanged == UNCHANGED <<logged, fleet, contacts, baseline, today, req, reportWrites>>

\* The client asks for the first page, or for the next one of what it is reading.
\* The page is no longer fresh when the options are not those of the last page.
ListFlights(q) ==
  /\ list.at = 0 /\ req.at = 0
  /\ list.page > 0 => list.what = q
  /\ \E o \in applyFlightFilters(q) :
     LET totals == TotalsByUserID(o)
     IN list' = [list EXCEPT !.at = 1, !.page = @ + 1, !.what = q, !.opts = o,
                             !.totals = totals, !.total = totals.flights,
                             !.fresh = list.page = 0 \/ (@ /\ o = list.opts)]
  /\ listUnchanged

ListLogbookTotals ==
  /\ list.at = 1
  /\ list' = [list EXCEPT !.at = 2, !.logbook = LogbookTotals(list.opts, list.totals)]
  /\ listUnchanged

ListRows ==
  /\ list.at = 2
  /\ \E all \in buildQuery(appendFlightFilters(list.opts), list.what.sortBy, list.what.sortOrder) :
       LET rows == SubSeq(all, (list.page - 1) * PageSize + 1, Min({list.page * PageSize, Len(all)}))
       IN list' = [list EXCEPT !.at = 3, !.rows = rows, !.seen = @ \o rows]
  /\ listUnchanged

totalPages == (list.total + PageSize - 1) \div PageSize

\* The months are summed when the list is in the order of the dates and whole.
\* The answer is sent; after its last page the client has read the list (at is 4).
ListMonthTotals ==
  /\ list.at = 3
  /\ LET summed == list.what.sortBy = "date" /\ list.opts.since = 0
         months == IF summed THEN MonthTotalsByUserID(list.opts, flightMonths(list.rows)) ELSE <<>>
     IN list' = [list EXCEPT !.months = months @@ @, !.rows = <<>>,
                             !.at = IF list.page >= totalPages THEN 4 ELSE 0]
  /\ listUnchanged

\* A statement fails, and the page is answered with an error.
ListFails ==
  /\ list.at \in {1, 2, 3}
  /\ list' = NoList
  /\ listUnchanged

\* The answer has been read.  The two readers change nothing, so the model has
\* one of them at a time.
AnswerRead == /\ list.at = 4 \/ req.at = Len(Sections) + 2
              /\ list' = NoList /\ req' = NoRequest
              /\ UNCHANGED <<logged, fleet, contacts, baseline, today, reportWrites>>

----------------------------------------------------------------------------
crewNames == UNION {{Lower[Trim[m.name]] : m \in Fl(i).crew} : i \in DOMAIN Catalogue}
linked == UNION {{m.contact : m \in Fl(i).crew} : i \in DOMAIN Catalogue}

ReportInit ==
  /\ logged \in Logbooks /\ fleet = {}
  /\ contacts = linked \ {""} /\ baseline \in Baselines \cup {NoBaseline}
  /\ today = Today /\ req = NoRequest /\ list = NoList /\ reportWrites = 0

ReportNext ==
  \/ \E i \in DOMAIN Catalogue : LogFlight(i) \/ DeleteFlight(i)
  \/ \E reg \in DOMAIN ClassOf : ChangeFleet(reg)
  \/ \E n \in crewNames \ {""} : AddContact(n)
  \/ \E b \in Baselines : UpsertBaseline(b)
  \/ DeleteBaseline \/ MonthPasses
  \/ \E r \in Requests : GetFlightAnalytics(r)
  \/ LoadNext
  \/ \E q \in Lists : ListFlights(q)
  \/ ListLogbookTotals \/ ListRows \/ ListMonthTotals \/ ListFails \/ AnswerRead

ReportSpec == ReportInit /\ [][ReportNext]_reportVars

----------------------------------------------------------------------------
Answered == req.at = Len(Sections) + 2
Undisturbed == Answered /\ req.fresh

\* The breakdowns of the analytics page add up: when nothing was written while
\* the request ran, every way of dividing the window's flights (by month, by
\* year, by month of the year, by weekday, by class, by length, and by aircraft
\* when the list is not cut) has the totals' flights and minutes, the minutes of a
\* person's roles are his minutes, and the approaches by type, with the
\* unspecified ones, are the totals' approaches, as long as no flight has been
\* given a count below the approaches listed for it (UpdateFlight takes one).
BreakdownsAddUp ==
  Undisturbed =>
    LET o == req.out
        whole(g) == sumOfGroups(g) = [minutes |-> o.totals.minutes, flights |-> o.totals.flights]
        uncut(g) == Cardinality(DOMAIN g) < req.limit
        approaches == sumOver(DOMAIN o.counted, LAMBDA t : o.counted[t])
    IN /\ \A g \in {o.monthly, o.monthOfYear, o.dayOfWeek, o.yearly, o.duration} : whole(g)
       /\ whole(o.class)
       /\ \A g \in {o.type, o.registration} : uncut(g) => whole(g)
       /\ \A k \in DOMAIN o.crew : LET m == o.crew[k].roles IN o.crew[k].minutes = sumOver(DOMAIN m, LAMBDA t : m[t])
       /\ (\A i \in newReportScope(req.months) : Fl(i).counted >= Len(Fl(i).approaches)) =>
            approaches = o.totals.approaches

\* The totals of the analytics page are those of the statistics for the same
\* window, initial hours included, and its curve ends at the career total that
\* the statistics give without a window.
AgreesWithStatistics ==
  Undisturbed =>
    LET o == req.out
        from == IF req.months > 0 THEN windowStart(req.months, req.now) ELSE NoDay
        want == GetStatsByUserID(from, NoDay, TRUE)
    IN /\ \A c \in DOMAIN want : o.final[c] = want[c]
       /\ DOMAIN o.curve # {} => o.curve[Max(DOMAIN o.curve)] = GetStatsByUserID(NoDay, NoDay, TRUE).minutes

\* The records and countries derived from the airports see every airport of the
\* window, also those the limit cuts from the list, an airport counts a flight
\* once, and the cut hides no airport that has more flights than a shown one.
PlacesSeeEveryAirport ==
  Undisturbed =>
    LET o == req.out
        S == newReportScope(req.months)
        A == DOMAIN o.airports
        at(a) == {i \in S : \/ Fl(i).dep # "" /\ Upper[Fl(i).dep] = a
                            \/ Fl(i).arr # "" /\ Upper[Fl(i).arr] = a}
        home == o.records.home
    IN /\ o.distinct.airports = Cardinality({Upper[c] : c \in UNION {{Fl(i).dep, Fl(i).arr} : i \in S} \ {""}})
       /\ \A a \in A : o.airports[a].flights = Cardinality(at(a))
       /\ \A a \in Range(o.shown), b \in A \ Range(o.shown) : o.airports[a].flights >= o.airports[b].flights
       /\ home \in DOMAIN CountryOf =>
            /\ \A a \in A \cap DOMAIN CountryOf : o.records.miles >= Distance[{home, a}]
            /\ o.records.farthest # "" => o.records.miles = Distance[{home, o.records.farthest}]

\* A streak is a longest set of consecutive months that all have a flight, and
\* the current one reaches this month or the one before.
StreaksAreRuns ==
  Answered =>
    LET o == req.out
        M == DOMAIN o.monthly
        runs == {r \in M \X M : r[1] <= r[2] /\ r[1]..r[2] \subseteq M}
        len(r) == r[2] - r[1] + 1
        ending == {r \in runs : r[2] = Max(M) /\ r[2] >= monthOf(req.now) - 1 /\ r[2] <= monthOf(req.now)}
    IN /\ o.streaks.longest = Max({len(r) : r \in runs} \cup {0})
       /\ o.streaks.current = Max({len(r) : r \in ending} \cup {0})

\* The records are the records: no flight of the window is longer or went farther
\* than the ones shown, no day of it had more flights than the busiest, the months
\* and years shown as busiest have the most minutes of the charts, and the days
\* since the last flight are those of the whole logbook, never negative.
RecordsAreRecords ==
  Undisturbed =>
    LET o == req.out
        S == newReportScope(req.months)
        most(k, g) == k \in DOMAIN g /\ \A x \in DOMAIN g : g[x].minutes <= g[k].minutes
    IN /\ S # {} => /\ {o.longest, o.farthest} \subseteq S
                    /\ \A i \in S : Fl(i).minutes <= Fl(o.longest).minutes /\ Fl(i).distance <= Fl(o.farthest).distance
                    /\ most(o.records.month, o.monthly) /\ most(o.records.year, o.yearly)
       /\ \A d \in {Fl(i).date : i \in S} : Cardinality({i \in S : Fl(i).date = d}) <= o.busiestDay.flights
       /\ \A i \in onlyFlightTime(logged) : o.last >= 0 /\ o.last <= Max({0, req.now - Fl(i).date})

\* A person of the crew is one row: whoever has a contact is never listed under
\* the name as well, no name is listed in two spellings, and every entry of the
\* window that has a name is counted in one row.
OneRowPerPerson ==
  Undisturbed =>
    LET o == req.out
        named(i) == {m \in Fl(i).crew : Trim[m.name] # ""}
    IN /\ \A k \in DOMAIN o.crew : k[1] = "name" => k[2] \notin contacts
       /\ Cardinality(DOMAIN o.crew) < req.limit =>
            sumOver(DOMAIN o.crew, LAMBDA k : o.crew[k].flights)
              = sumOver(newReportScope(req.months), LAMBDA i : Cardinality(named(i)))

\* A client that reads the list to its last page while nothing is written, and
\* the scope of a licence is read for all pages or for none, sees every flight of
\* the filter exactly once, in whatever order it asked for, and the totals of the
\* months on its pages add up to the totals of the list.
PagesPartitionTheList ==
  (list.at = 4 /\ list.fresh) =>
    LET S == appendFlightFilters(list.opts)
    IN /\ ToSet(list.seen) = S /\ Len(list.seen) = Cardinality(S)
       /\ list.what.sortBy = "date" /\ list.opts.since = 0 => sumOfGroups(list.months).flights = list.total

\* The older reports and the map count the same flights as the analytics page:
\* trends by month and by type, the classes and what is shown for a licence have
\* the totals of the window, and when every airport is spelled in one way the map
\* has the departures and arrivals of the analytics.
OlderReportsAgree ==
  (req.at = 0 /\ list.page = 0) =>
    /\ \A r \in Requests :
         LET t == Totals(trendMonths(r.months))
             whole(g) == g.minutes = t.minutes /\ g.flights = t.flights
             trends == GetFlightTrends(r.months)
             stats == GetStatsByClass(r.months)
             byCategory == ByCategory(trendMonths(r.months))
         IN /\ whole(sumOfGroups(trends.monthly)) /\ whole(sumOfGroups(trends.byAircraftType))
            /\ \A k \in DOMAIN stats.byAuthority : whole(stats.byAuthority[k])
            /\ \A k \in DOMAIN byCategory : byCategory[k].dual = stats.byCategory[k].dual
    /\ LET typed == UNION {{Fl(i).dep, Fl(i).arr} : i \in logged}
           A == ByAirport(0)
           map == GetFlightRoutes
       IN (\A c, d \in typed : Upper[c] = Upper[d] => c = d) =>
            /\ DOMAIN GetAirportStats = DOMAIN A
            /\ \A a \in DOMAIN A : GetAirportStats[a] = [departures |-> A[a].departures, arrivals |-> A[a].arrivals,
                                                         total |-> A[a].departures + A[a].arrivals]
            /\ sumOver(DOMAIN map.routes, LAMBDA r : map.routes[r]) <= sumOver(DOMAIN A, LAMBDA a : A[a].departures)
            /\ map.airports \subseteq DOMAIN A

\* The list's totals with the initial hours are the statistics' plus the flights
\* that are in the logbook and are no flight time.
ListAgreesWithStatistics ==
  (list.at = 4 /\ list.fresh /\ list.logbook # <<>>) =>
    list.logbook.minutes = GetStatsByUserID(list.opts.from, list.opts.to, TRUE).minutes
      + sumOver(appendFlightFilters(list.opts) \ onlyFlightTime(logged), LAMBDA i : Fl(i).minutes)

\* A custom report accounts for its flights: however they are grouped the totals
\* are those of the statistics for the same days and filter, a series in time has
\* no gap and no flight outside its rows unless it is too long, a ranking hides
\* no group above a shown one and says how many it hides, and the last months are
\* those of the analytics page when no flight lies in the future.
CustomReportsAccount ==
  (req.at = 0 /\ list.page = 0) =>
    \A d \in Definitions : \A res \in Evaluate(d) :
      LET n == Normalize(d)
          w == resolveWindow(n.window, today)
          all == Aggregate(CHOOSE o \in queryOptions(n.filter, w) : TRUE, d.groupBy)
          keys == DOMAIN res.rows
          unfiltered == queryOptions(n.filter, w) = {[NoOptions EXCEPT !.from = w[1], !.to = w[2]]}
          inRows(c) == sumOver(keys, LAMBDA k : res.rows[k][c])
          stats == statsOf(w[1], w[2])
          monthly == Monthly(d.window.months - 1)
      IN /\ unfiltered => \A c \in DOMAIN stats : res.totals[c] = stats[c]
         /\ IsTimeGrouping(d.groupBy) =>
              /\ \A k \in keys : k > Min(keys) => k - 1 \in keys
              /\ Cardinality(keys) <= Max({MaxTimeBuckets, 7})
              /\ d.groupBy = "dayOfWeek" \/ Cardinality(keys) < MaxTimeBuckets =>
                   \A c \in ReportMetrics : inRows(c) = res.totals[c]
              /\ \A k \in (DOMAIN all) \ keys : \A o \in keys : k < o
         /\ ~IsTimeGrouping(d.groupBy) =>
              /\ Cardinality(keys) + res.otherGroups = Cardinality(DOMAIN all)
              /\ \A k \in (DOMAIN all) \ keys, o \in keys : all[k][d.metric] <= all[o][d.metric]
              /\ res.otherGroups = 0 => \A c \in ReportMetrics : inRows(c) = res.totals[c]
         /\ unfiltered /\ d.window.kind = "lastMonths" /\ d.groupBy = "month" /\ d.window.months > 1
            /\ (\A i \in logged : Fl(i).date <= today) =>
              \A m \in keys \cap DOMAIN monthly : \A c \in DOMAIN monthly[m] : res.rows[m][c] = monthly[m][c]

=============================================================================
