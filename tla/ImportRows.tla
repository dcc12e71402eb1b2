----------------------------- MODULE ImportRows -----------------------------
(***************************************************************************)
(* What an uploaded file says (handlers/import.go, service/importtemplate):*)
(* its tables, the format it is taken for, and the flight a row describes  *)
(* under a mapping of its columns.  The columns of an imported flight are  *)
(* completed by FlightCalc.                                                *)
(*                                                                         *)
(* The mapped columns are visited in the random order of a Go map: of two  *)
(* columns for one field the last wins, and the first time column with a   *)
(* date gives the date of a row that has none.                             *)
(*                                                                         *)
(* A cell is <<>> when blank, else <<v>> with v as it parses: a number or  *)
(* Bad, a time of day with the date written before it, a place, a person   *)
(* with a role tag, or a text.                                             *)
(***************************************************************************)
EXTENDS Integers, Sequences, FiniteSets, SequencesExt

CONSTANTS
    TemplateCatalogue, \* the known formats, in order; the last one is the generic one
    NormalizeHeader, \* a header as written -> its key in lower case, "" when blank
    LooseKey,       \* a key -> the key without punctuation
    AuxField,       \* a loose key -> the auxiliary value in a column that is ignored
    CanonicalReg,   \* a registration as written -> in canonical notation
    LookupCode,     \* the airports by code (AirportData)
    LookupByName,   \* the airports by name, where only one bears it (AirportData)
    NightAt,        \* known airport -> minutes of night (FlightCalc)
    PersonName,     \* a name as written -> first name first (normalizePersonName)
    KeyOf,          \* a name -> the name in lower case
    OwnNames,       \* the names the user goes by (flightrules.MatchesUser)
    MaxImportRows

Calc == INSTANCE FlightCalc WITH Day <- 1440, Night <- NightAt, Flights <- {}, Patches <- {}, MaxWrites <- 0,
                                 row <- <<>>, multi <- FALSE, seen <- "no", writes <- 0

Empty == -1
Bad == -2
least(a, b) == IF a < b THEN a ELSE b
orZero(v) == IF v = Empty THEN 0 ELSE v

-----------------------------------------------------------------------------
(* Reading a file.                                                         *)

Unparsable == [headers |-> <<>>, rows |-> <<>>]
nonEmpty(record) == Cardinality({j \in DOMAIN record : record[j] # <<>>})

\* A record as a row: the cells that are not blank, by column; of two columns
\* of one name the later counts.
rowOf(headers, record) ==
    LET at == {j \in DOMAIN headers : /\ j <= Len(record) /\ headers[j] # ""
                                      /\ \A k \in j + 1 .. least(Len(headers), Len(record)) : headers[k] # headers[j]}
    IN  [h \in {headers[j] : j \in {j \in at : record[j] # <<>>}} |->
            record[CHOOSE j \in at : headers[j] = h][1]]

\* parseSectionCSV: the first delimiter that gives two records of three columns;
\* the first record with three cells filled is the header, and a record with
\* fewer than two is dropped.  A file without rows, or with too many, is refused.
parseSectionCSV(tries) ==
    LET fit == {d \in DOMAIN tries : Len(tries[d]) >= 2 /\ Len(tries[d][1]) >= 3}
    IN  IF fit = {} THEN Unparsable
        ELSE LET records == tries[Min(fit)]
                 wide == {i \in DOMAIN records : nonEmpty(records[i]) >= 3}
                 top == IF wide = {} THEN 1 ELSE Min(wide)
                 headers == [j \in DOMAIN records[top] |-> IF records[top][j] = <<>> THEN "" ELSE records[top][j][1]]
                 filled == SelectSeq(SubSeq(records, top + 1, Len(records)), LAMBDA r : nonEmpty(r) >= 2)
             IN  IF filled = <<>> \/ Len(filled) > MaxImportRows THEN Unparsable
                 ELSE [headers |-> headers, rows |-> [i \in DOMAIN filled |-> rowOf(headers, filled[i])]]

\* parseCSV: the aircraft table of a ForeFlight export is read by itself, and
\* one that cannot be read is left out.
parseCSV(file) == parseSectionCSV(file.flights) @@ [aircraft |-> parseSectionCSV(file.aircraft).rows]

-----------------------------------------------------------------------------
(* Recognising a file by its header row (importtemplate).                  *)

signatureWeight == 4
GenericTemplate == TemplateCatalogue[Len(TemplateCatalogue)]

\* buildLooseColumns: spellings that mean different things are left to the user.
looseColumns(t) ==
    [l \in {LooseKey[k] : k \in DOMAIN t.columns} |->
        LET fields == {t.columns[k] : k \in {k \in DOMAIN t.columns : LooseKey[k] = l}}
        IN  IF Cardinality(fields) = 1 THEN CHOOSE f \in fields : TRUE ELSE "ignore"]

\* The field of a column: by its exact key, else by the loose one.
columnField(t, key) ==
    IF key \in DOMAIN t.columns THEN t.columns[key]
    ELSE IF LooseKey[key] \in DOMAIN looseColumns(t) THEN looseColumns(t)[LooseKey[key]] ELSE "unknown"

\* Template.Suggest: the first column that names a field has it.
Suggest(t, headers) ==
    FoldLeft(LAMBDA out, h :
        LET key == NormalizeHeader[h]
            f == IF key = "" THEN "unknown" ELSE columnField(t, key)
        IN  IF f \in {"unknown", "ignore"}
               \/ (\E m \in ToSet(out) : NormalizeHeader[m.column] = key \/ m.field = f)
            THEN out ELSE Append(out, [column |-> h, field |-> f]), <<>>, headers)

\* Template.AuxColumns: the ignored columns that are read all the same.
AuxColumns(t, headers) ==
    FoldLeft(LAMBDA out, h :
        LET key == NormalizeHeader[h]
        IN  IF \/ key = "" \/ columnField(t, key) # "ignore" \/ LooseKey[key] \notin DOMAIN AuxField
               \/ \E m \in ToSet(out) : m.field = AuxField[LooseKey[key]]
            THEN out ELSE Append(out, [column |-> h, field |-> AuxField[LooseKey[key]]]), <<>>, headers)

\* Template.Matches: the columns it knows and the ones that give it away.
Matches(t, headers) ==
    LET present == {NormalizeHeader[h] : h \in ToSet(headers)} \ {""}
    IN  [columns |-> Cardinality(present \intersect DOMAIN t.columns),
         signature |-> Cardinality(present \intersect t.signature)]

\* Detect: of the templates with enough of their signature the best score, then
\* the lower priority, then the earlier entry; 0 when none is recognised.
Detect(headers) ==
    LET hits == [n \in DOMAIN TemplateCatalogue |-> Matches(TemplateCatalogue[n], headers)]
        score(n) == hits[n].columns + signatureWeight * hits[n].signature
        prio(n) == TemplateCatalogue[n].priority
        candidates == {n \in DOMAIN TemplateCatalogue :
                          /\ TemplateCatalogue[n].min > 0 /\ TemplateCatalogue[n].signature # {}
                          /\ hits[n].signature >= TemplateCatalogue[n].min}
        better(n, o) == \/ score(n) > score(o)
                        \/ score(n) = score(o) /\ prio(n) < prio(o)
                        \/ score(n) = score(o) /\ prio(n) = prio(o) /\ n < o
    IN  IF candidates = {} THEN 0
        ELSE CHOOSE n \in candidates : \A o \in candidates \ {n} : better(n, o)

\* ByID: the template of a file, the generic one for an unknown format.
ByID(n) == IF n = 0 THEN GenericTemplate ELSE TemplateCatalogue[n]

\* sessionAuxColumns.
columnFields(entries) == [c \in {e.column : e \in entries} |-> (CHOOSE e \in entries : e.column = c).field]
sessionAuxColumns(template, headers) == columnFields(ToSet(AuxColumns(ByID(template), headers)))

\* What an upload keeps of its file: the tables, the template detected, and its
\* auxiliary columns, which every request derives anew from the template.
withTemplate(parsed, template) ==
    parsed @@ [template |-> template, aux |-> sessionAuxColumns(template, parsed.headers)]
openedFile(file) == LET parsed == parseCSV(file) IN withTemplate(parsed, Detect(parsed.headers))

-----------------------------------------------------------------------------
(* From a row to a flight.  m maps columns to fields, and a reading r says *)
(* which of the columns of one field is visited last and which of the time *)
(* columns first.                                                          *)

TimeFields == {"offBlockTime", "onBlockTime", "departureTime", "arrivalTime"}
PlaceFields == {"departureIcao", "arrivalIcao"}
Slots == <<"person1", "person2", "person3", "person4", "person5", "person6">>
Persons == {"person1", "person2", "person3", "person4", "person5", "person6"}

\* The fields that hold a number; all but the last must parse.
Checked == {"date", "totalTime", "nightTime", "crossCountryTime", "ifrTime", "actualInstrumentTime",
            "simulatedInstrumentTime", "simulatedFlightTime", "dualGivenTime", "holds", "approachesCount",
            "landingsDay", "landingsNight", "landingsTotal"}
Numbers == Checked \union {"isDual"}

\* Fields the row says nothing about.
NoValues ==
    [f \in Numbers |-> Empty] @@ [f \in TimeFields |-> [date |-> Empty, time |-> Empty]]
    @@ [f \in PlaceFields |-> [text |-> ""]] @@ [f \in Persons |-> [name |-> "", role |-> ""]]
    @@ [f \in {"aircraftReg", "aircraftType", "fstdType", "instructorName"} |-> ""] @@ [route |-> <<>>]

\* mappingLookup: an entry for a column replaces the one before it.
lookup(entries) ==
    [c \in {e.column : e \in ToSet(entries)} |->
        entries[Max({i \in DOMAIN entries : entries[i].column = c})].field]

\* The orders of a map's iteration, as far as they tell.
Readings(m) ==
    LET contested == {c \in DOMAIN m : \E d \in DOMAIN m \ {c} : m[c] = m[d]}
        times == {c \in DOMAIN m : m[c] \in TimeFields}
    IN  [wins : {w \in SUBSET contested : \A c \in contested : Cardinality({d \in w : m[d] = m[c]}) = 1},
         stamp : IF times = {} THEN {"none"} ELSE times]

\* isSelfCrewSentinel: the logbook's owner, not a person.
isSelf(name) == KeyOf[PersonName[name]] = "self"

\* The switch over the columns of a row: the value of each field.  A number
\* that does not parse and the owner's own marker are passed over; landings by
\* day and by night add up.
cells(row, m, r) ==
    LET read == {c \in DOMAIN m \intersect DOMAIN row :
                    /\ m[c] \in Numbers => row[c] # Bad
                    /\ m[c] \in Persons => ~isSelf(row[c].name)
                    /\ m[c] = "instructorName" => ~isSelf(row[c])}
        named(f) == {c \in read : m[c] = f}
        last(f) == CHOOSE c \in named(f) : c \in r.wins \/ named(f) \intersect r.wins = {}
    IN  [f \in {m[c] : c \in read} |->
            IF f \in {"landingsDay", "landingsNight"} THEN MapThenSumSet(LAMBDA c : row[c], named(f)) ELSE row[last(f)]]
        @@ NoValues

selfSIC(row, m) ==
    \E c \in DOMAIN m \intersect DOMAIN row : m[c] \in Persons /\ isSelf(row[c].name) /\ row[c].role = "sic"

\* normalizeTime keeps the time of day; midnight stands for a time that was
\* never recorded.
timeOf(v) == IF v.time = 0 THEN Empty ELSE v.time

\* The date: its column, else the first one written into a time column
\* (captureDateFromTimestamp).
dateOf(row, m, r, own) ==
    LET stamped == {c \in DOMAIN m \intersect DOMAIN row : m[c] \in TimeFields /\ row[c].date # Empty}
    IN  IF own # Empty \/ stamped = {} THEN own
        ELSE row[IF r.stamp \in stamped THEN r.stamp ELSE CHOOSE c \in stamped : TRUE].date

\* normalizeLocation: what is shaped like a code is looked up, or written in
\* capitals if it is short; a name stands for the only airport that bears it;
\* then the code in parentheses, and in mixed case the code before or after
\* the name.
normalizeLocation(place) ==
    IF place.text = "" THEN ""
    ELSE IF place.codeShaped
    THEN IF place.text \in DOMAIN LookupCode THEN LookupCode[place.text]
         ELSE IF place.short THEN place.upper ELSE place.text
    ELSE IF place.text \in DOMAIN LookupByName THEN LookupByName[place.text]
    ELSE IF place.inParens \in DOMAIN LookupCode THEN LookupCode[place.inParens]
    ELSE IF place.hasLower /\ place.leading # "" THEN place.leading
    ELSE IF place.hasLower /\ place.trailing # "" THEN place.trailing ELSE place.text

\* splitRouteEndpoints: the ends of the route, one place when it names one.
splitRouteEndpoints(route) ==
    IF route = <<>> THEN <<"", "">> ELSE <<normalizeLocation(Head(route)), normalizeLocation(Last(route))>>

\* The end points: the columns, else the route's.
endpoints(v) ==
    LET dep == normalizeLocation(v.departureIcao)
        arr == normalizeLocation(v.arrivalIcao)
        ends == splitRouteEndpoints(v.route)
    IN  <<IF dep = "" THEN ends[1] ELSE dep, IF arr = "" THEN ends[2] ELSE arr>>

\* calculateBlockTime: over midnight when on-block is the smaller; identical
\* or unreadable times are an error, which yields no block time.
blockTime(off, on) == IF Bad \in {off, on} THEN 0 ELSE (on - off) % 1440

\* The instrument time: the file's, else what it has of actual and simulated
\* instrument time within the flight's time.
ifrTime(v) ==
    LET off == timeOf(v.offBlockTime)
        on == timeOf(v.onBlockTime)
        sum == orZero(v.actualInstrumentTime) + orZero(v.simulatedInstrumentTime)
        block == IF Empty \in {off, on} THEN 0 ELSE blockTime(off, on)
        cap == IF block > 0 THEN block ELSE orZero(v.totalTime)
        capped == IF cap > 0 /\ sum > cap THEN cap ELSE sum
    IN  IF v.ifrTime > 0 \/ capped = 0 THEN v.ifrTime ELSE capped

\* The approaches: the file's count, else those of ForeFlight's own columns; a
\* cell in free text (Bad) is one approach.
approaches(row, own) ==
    LET columns == {"Approach1", "Approach2", "Approach3", "Approach4", "Approach5", "Approach6"} \intersect DOMAIN row
        sum == MapThenSumSet(LAMBDA c : IF row[c] = Bad THEN 1 ELSE row[c], columns)
    IN  IF own > 0 \/ sum = 0 THEN orZero(own) ELSE sum

AuxValues == {"sic", "mp", "takeoffsDay", "takeoffsNight"}

\* An auxiliary column, unless it is mapped; what does not parse is skipped.
auxiliary(row, m, aux, field) ==
    LET cs == {c \in DOMAIN aux \intersect DOMAIN row :
                  /\ aux[c] = field /\ row[c] # Bad
                  /\ c \in DOMAIN m => m[c] = "ignore"}
    IN  IF cs = {} THEN Empty ELSE row[CHOOSE c \in cs : TRUE]

NormalizeLegacyRole(tag) ==
    CASE tag = "pic" -> "PIC" [] tag = "sic" -> "SIC"
      [] tag \in {"instructor", "cfi", "cfii"} -> "Instructor" [] tag = "student" -> "Student"
      [] tag \in {"passenger", "pax", "flightattendant", "flight attendant", "observer", "engineer", "other"} -> "Passenger"
      [] OTHER -> ""

\* InferLegacyCrew: who flew as what, by the role tags, else from the order of
\* the persons, the instructor and whether instruction was received or given.
InferLegacyCrew(people, instructor, received, given) ==
    LET training == instructor # "" \/ received
        apart == instructor # "" /\ KeyOf[people[1].name] # KeyOf[instructor]
        positional(s) == IF s = 1 THEN IF apart THEN "PIC" ELSE IF training THEN "Instructor"
                                       ELSE IF given THEN "Student" ELSE "PIC"
                         ELSE IF s = 2 /\ training THEN "Student" ELSE "Passenger"
        tagged(s) == NormalizeLegacyRole(people[s].role)
    IN  {[name |-> people[s].name, role |-> IF tagged(s) # "" THEN tagged(s) ELSE positional(s)] :
            s \in {s \in DOMAIN people : people[s].name # ""}}
        \union (IF apart THEN {[name |-> instructor, role |-> "Instructor"]} ELSE {})

\* The crew of a row, in the usual order of names (normalizePersonName).
crewOf(v) ==
    InferLegacyCrew([s \in DOMAIN Slots |-> [name |-> PersonName[v[Slots[s]].name], role |-> v[Slots[s]].role]],
                    PersonName[v.instructorName], v.isDual > 0, v.dualGivenTime > 0)

\* The registration, and the type: its column, else the fleet's, else the
\* registration itself.
regOf(v) == IF v.aircraftReg = "" THEN "" ELSE CanonicalReg[v.aircraftReg]
typeOf(v, types) ==
    IF v.aircraftType # "" THEN v.aircraftType
    ELSE IF regOf(v) \in DOMAIN types THEN types[regOf(v)] ELSE regOf(v)

\* The landings: the day and night columns, or the total if that is larger.
landings(v) ==
    LET split == orZero(v.landingsDay) + orZero(v.landingsNight)
    IN  IF v.landingsTotal > split THEN v.landingsTotal ELSE split

\* The errors of a row: cells that do not parse, and what a flight needs.
unparsed(row, m) == {m[c] : c \in {c \in DOMAIN m \intersect DOMAIN row : m[c] \in Checked /\ row[c] = Bad}}
missing(f) ==
    {x \in {"date"} : f.date = Empty} \union {x \in {"aircraftReg"} : f.reg = ""} \union {x \in {"aircraftType"} : f.type = ""}
    \union {x \in {"departureIcao"} : f.dep = ""} \union {x \in {"arrivalIcao"} : f.arr = ""}

\* The flight the values v of a row describe; total is the total-time column
\* alone.  An FSTD designation with a session's duration makes it a session.
rowFlight(row, m, types, r, v) ==
    [date |-> dateOf(row, m, r, v.date), reg |-> regOf(v), type |-> typeOf(v, types),
     dep |-> endpoints(v)[1], arr |-> endpoints(v)[2],
     off |-> timeOf(v.offBlockTime), on |-> timeOf(v.onBlockTime),
     takeoff |-> timeOf(v.departureTime), landing |-> timeOf(v.arrivalTime),
     total |-> v.totalTime, night |-> v.nightTime, cross |-> v.crossCountryTime, ifr |-> ifrTime(v),
     actual |-> v.actualInstrumentTime, simulated |-> v.simulatedInstrumentTime,
     simTime |-> v.simulatedFlightTime, given |-> v.dualGivenTime, approaches |-> approaches(row, v.approachesCount),
     landings |-> landings(v), landingsDay |-> v.landingsDay, landingsNight |-> v.landingsNight,
     sim |-> v.fstdType # "" /\ v.simulatedFlightTime > 0, crew |-> crewOf(v), selfSIC |-> selfSIC(row, m)]

withErrors(f, unread) == f @@ [errors |-> unread \union missing(f)]

\* mapImportRow: what the row says under a reading.
mapImportRow(row, m, aux, types, r) ==
    withErrors(rowFlight(row, m, types, r, cells(row, m, r)) @@ [x \in AuxValues |-> auxiliary(row, m, aux, x)],
               unparsed(row, m))

\* What a row may be read as.
mapped(session, i, m, types) == {mapImportRow(session.rows[i], m, session.aux, types, r) : r \in Readings(m)}

clock(t) == IF t = Bad THEN Calc!Absent ELSE t
whoIs(name) == IF name \in OwnNames THEN "self" ELSE name

\* buildImportedFlight: the block time before the total column, and the file's
\* own times within it as overrides.  A split of the landings is one as well,
\* and what only the total counts is added by day.
buildImportedFlight(f) ==
    LET both == Empty \notin {f.off, f.on}
        total == IF both THEN blockTime(f.off, f.on) ELSE orZero(f.total)
        declaredSIC == ~f.sim /\ (f.sic > 0 \/ (f.selfSIC /\ total > 0))
        declaredMP == ~f.sim /\ f.mp > 0
        split == orZero(f.landingsDay) + orZero(f.landingsNight)
        takeoffs == orZero(f.takeoffsDay) + orZero(f.takeoffsNight)
    IN  [sim |-> f.sim, passenger |-> FALSE, picName |-> Calc!NoName, dep |-> f.dep, arr |-> f.arr,
         crew |-> {[who |-> whoIs(c.name), role |-> c.role] : c \in f.crew},
         off |-> clock(f.off), on |-> clock(f.on), takeoff |-> clock(f.takeoff), landing |-> clock(f.landing),
         total |-> total, ifr |-> orZero(f.ifr), actual |-> orZero(f.actual), simulated |-> orZero(f.simulated),
         simTime |-> orZero(f.simTime), given |-> orZero(f.given), all |-> f.landings,
         night |-> least(orZero(f.night), total), nightO |-> f.night # Empty,
         cross |-> least(orZero(f.cross), total), crossO |-> f.cross # Empty,
         sic |-> IF ~declaredSIC THEN 0 ELSE IF f.sic > 0 THEN least(f.sic, total) ELSE total, sicO |-> declaredSIC,
         mp |-> IF declaredMP THEN least(f.mp, total) ELSE 0, mpO |-> declaredMP,
         landingsDay |-> IF split > 0 THEN f.landings - orZero(f.landingsNight) ELSE 0,
         landingsNight |-> IF split > 0 THEN orZero(f.landingsNight) ELSE 0, landingsO |-> split > 0,
         takeoffsDay |-> IF takeoffs > 0 THEN orZero(f.takeoffsDay) ELSE 0,
         takeoffsNight |-> IF takeoffs > 0 THEN orZero(f.takeoffsNight) ELSE 0, takeoffsO |-> takeoffs > 0]
        @@ Calc!Cleared

recalculated(flight, multi) == Calc!ApplyAutoCalculations(flight, flight.crew, multi)
calculated(f, multi) == recalculated(buildImportedFlight(f), multi)

\* CheckDownwardOverridesWith: under the strict rule an override may only
\* reduce what is calculated without it.
Overrides == [night |-> "nightO", cross |-> "crossO", takeoffsDay |-> "takeoffsO", takeoffsNight |-> "takeoffsO",
              landingsDay |-> "landingsO", landingsNight |-> "landingsO", sic |-> "sicO", mp |-> "mpO"]
exceedsDerived(flight, derived) == {x \in DOMAIN Overrides : flight[Overrides[x]] /\ flight[x] > derived[x]}
exceeds(flight, multi) ==
    exceedsDerived(flight, recalculated([x \in DOMAIN Overrides |-> 0] @@ [o \in Range(Overrides) |-> FALSE] @@ flight, multi))

\* What CreateFlightWith accepts; a time of day that is none fails in the database.
storable(f, flight) ==
    /\ Calc!IsValid(flight) /\ Calc!ValidateTimeDistribution(flight)
    /\ flight.sim \/ Bad \notin {f.off, f.on, f.takeoff, f.landing}

\* Mutant: the totals must agree to the minute.
duplicateExact(f, e) ==
    /\ e.date = f.date /\ e.reg = f.reg /\ e.dep = f.dep /\ e.arr = f.arr
    /\ e.total = orZero(f.total)

\* findDuplicate: same day, aircraft and places, totals within six minutes.
duplicate(f, e) ==
    /\ e.date = f.date /\ e.reg = f.reg /\ e.dep = f.dep /\ e.arr = f.arr
    /\ e.total - orZero(f.total) \in -6 .. 6

findDuplicate(f, existing) == \E e \in existing : duplicate(f, e)

=============================================================================
