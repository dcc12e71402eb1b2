----------------------------- MODULE FlightCalc -----------------------------
(***************************************************************************)
(* The calculated columns of a flight (service/flightcalc) and the rules   *)
(* of the pilot's function they rest on (service/flightrules): a write     *)
(* takes the stored row, applies the request's fields, derives every       *)
(* column the pilot did not set by hand, checks the result and saves it.   *)
(*                                                                         *)
(* An update reads the row without its crew.  A request that does not      *)
(* carry the crew therefore derives the columns as if the pilot had been   *)
(* alone and leaves the crew rows as they are; a recalculation loads them. *)
(* A failed read of the user's name, of the fleet or of the crew stops no   *)
(* write: the columns are derived without what was not read.  Signed        *)
(* flights, which no write changes, are in FlightSignatures, and what       *)
(* strict mode refuses is in FlightLog.                                     *)
(* A day has Day ticks; the times of a flight are ticks of the day, and    *)
(* Night gives the instants, counted from the flight's date, at which it   *)
(* is night at an airport.                                                 *)
(***************************************************************************)
EXTENDS Integers, FiniteSets, TLC

CONSTANTS
    Day,            \* ticks of a day
    Night,          \* known airport -> instants of night
    Flights,        \* the flights the pilot may log: rows before calculation
    Patches,        \* the requests that change one: field -> new value
    MaxWrites       \* bound on the writes

VARIABLES
    row,            \* the stored flight, crew included
    multi,          \* the aircraft is certificated for two pilots
    seen,           \* whether the last write knew the user's name, the crew and the
                    \* fleet entry ("calc"; "named" if it also chose the PIC name),
                    \* or not ("no") (history)
    writes          \* writes so far

calcVars == <<row, multi, seen, writes>>

Absent == -1
NoName == "none"
min(a, b) == IF a < b THEN a ELSE b

-----------------------------------------------------------------------------
(* The pilot's function.  Crew entries are [who, role]; MatchesUser has    *)
(* been applied: the user is "self".                                       *)

\* Without the user's name every member of the crew is a third party.
CrewFor(crew, nameRead) == {[c EXCEPT !.who = IF @ = "self" /\ ~nameRead THEN "pilot" ELSE @] : c \in crew}

Others(crew, role) == {c \in crew : c.role = role /\ c.who # "self"}
Own(crew, role) == [who |-> "self", role |-> role] \in crew

HasDeclaredFunctionTime(f) == f.picus > 0 \/ f.spic > 0 \/ f.relief > 0
declaredCoPilot(f) == f.sicO /\ f.sic > 0

mayLogCoPilotTime(f, crew, mp) ==
    mp \/ Own(crew, "SafetyPilot") \/ Own(crew, "SIC") \/ HasDeclaredFunctionTime(f) \/ declaredCoPilot(f)

\* DetermineRole: instruction received, given, the co-pilot's seat, a
\* passenger's, or in command.
DetermineRole(f, crew, mp) ==
    IF Others(crew, "Instructor") # {} \/ Others(crew, "Examiner") # {} THEN "DualReceiving"
    ELSE IF Own(crew, "Instructor") \/ Others(crew, "Student") # {} THEN "DualGiving"
    ELSE IF (Others(crew, "PIC") # {} \/ Own(crew, "SIC")) /\ ~Own(crew, "PIC")
         THEN IF mayLogCoPilotTime(f, crew, mp) THEN "SIC" ELSE "Passenger"
    ELSE IF Own(crew, "SafetyPilot") /\ ~Own(crew, "PIC") THEN "SIC"
    ELSE IF crew = {} /\ (declaredCoPilot(f) \/ HasDeclaredFunctionTime(f)) THEN "SIC"
    ELSE "PIC"

IsMultiPilotOperation(crew, role, mp) ==
    mp /\ (role = "SIC" \/ \E c \in crew : c.role = "SIC")

\* The first third party of a role by name, with the precedence of the save.
thirdPartyNameFromCrew(crew, role) ==
    IF Others(crew, role) = {} THEN NoName ELSE (CHOOSE c \in Others(crew, role) : TRUE).who

\* The legacy column first, then the crew by role.
knownInstructor(f, crew) ==
    LET named == {r \in {"Instructor", "Examiner", "PIC"} : thirdPartyNameFromCrew(crew, r) # NoName}
    IN  IF f.instructor # NoName THEN f.instructor
        ELSE IF named = {} THEN NoName
        ELSE thirdPartyNameFromCrew(crew, IF "Instructor" \in named THEN "Instructor"
                                          ELSE IF "Examiner" \in named THEN "Examiner" ELSE "PIC")

\* ResolvePICNameForSave: a name set wins, but "Self" gives way to a known
\* instructor, examiner or commander.
ResolvePICNameForSave(f, crew) ==
    IF f.picName # NoName /\ ~(f.picName = "Self" /\ knownInstructor(f, crew) # NoName) THEN f.picName
    ELSE IF knownInstructor(f, crew) # NoName THEN knownInstructor(f, crew)
    ELSE IF f.isPic /\ ~f.isDual THEN "Self" ELSE f.picName

\* DisplayPICName: what the exports print.
DisplayPICName(f, crew) ==
    IF f.sim THEN NoName
    ELSE IF f.picName # NoName /\ ~(f.picName = "Self" /\ knownInstructor(f, crew) # NoName) THEN f.picName
    ELSE IF knownInstructor(f, crew) # NoName THEN knownInstructor(f, crew) ELSE "Self"

\* The function columns of the two paper layouts.
PICColumnTime(f) == f.pic + f.picus + f.spic
CoPilotColumnTime(f) == f.sic + f.relief
FAASICColumnTime(f) == f.sic + f.picus + f.relief

\* Mutant: supervised solo time is in no column of the FAA layout.
faaDualAlone(f) == f.dual

FAADualColumnTime(f) == f.dual + f.spic

-----------------------------------------------------------------------------
(* Instants.                                                               *)

\* A time earlier than the anchor is on the following day.
roll(t, anchor) == IF t # Absent /\ anchor # Absent /\ t < anchor THEN t + Day ELSE t

instantsOf(f) ==
    LET anchor == IF f.off # Absent THEN f.off ELSE f.takeoff
    IN  [off |-> f.off, takeoff |-> roll(f.takeoff, anchor),
         landing |-> roll(f.landing, anchor), on |-> roll(f.on, anchor)]

inBlockWindow(t, from, to, fallback) ==
    IF t = Absent \/ (from # Absent /\ t < from) \/ (to # Absent /\ t > to) THEN fallback ELSE t

takeoffAt(f) == LET i == instantsOf(f) IN inBlockWindow(i.takeoff, i.off, i.on, i.off)
landingAt(f) == LET i == instantsOf(f) IN inBlockWindow(i.landing, i.off, i.on, i.on)

blockMinutes(f) ==
    IF f.off = Absent \/ f.on = Absent THEN 0
    ELSE IF f.on > f.off THEN f.on - f.off ELSE f.on + Day - f.off

IsNight(t, airport) == t \in Night[airport]
Known(airport) == airport \in DOMAIN Night

-----------------------------------------------------------------------------
(* The calculated columns.                                                 *)

derivedFunctionMinutes(f) ==
    LET left == f.total - (f.picus + f.spic + f.relief) IN IF left < 0 THEN 0 ELSE left

calculatePICDual(f, role) ==
    [f EXCEPT !.isPic = role \notin {"DualReceiving", "SIC"}, !.isDual = role = "DualReceiving",
              !.pic = IF role \in {"DualReceiving", "SIC"} THEN 0 ELSE derivedFunctionMinutes(f),
              !.dual = IF role = "DualReceiving" THEN derivedFunctionMinutes(f) ELSE 0]

calculateNightTime(f) ==
    LET i == instantsOf(f)
    IN  IF f.nightO \/ ~Known(f.dep) \/ i.off = Absent \/ i.on = Absent THEN f
        ELSE [f EXCEPT !.night = min(f.total, Cardinality(i.off .. i.on - 1 \cap Night[f.dep]))]

calculateLandingSplit(f) ==
    LET total == IF f.all = 0 THEN f.landingsDay + f.landingsNight ELSE f.all
        dark == Known(f.arr) /\ landingAt(f) # Absent /\ IsNight(landingAt(f), f.arr)
    IN  IF f.landingsO THEN f
        ELSE [f EXCEPT !.landingsDay = IF dark THEN 0 ELSE total, !.landingsNight = IF dark THEN total ELSE 0]

allLandings(f) == [f EXCEPT !.all = f.landingsDay + f.landingsNight]

calculateSoloTime(f, crew) ==
    [f EXCEPT !.solo = IF /\ f.isPic /\ ~f.isDual /\ ~HasDeclaredFunctionTime(f) /\ f.examiner = 0
                          /\ \A c \in crew : c.who = "self"
                       THEN f.total ELSE 0]

calculateCrossCountryTime(f) ==
    IF f.crossO THEN f
    ELSE [f EXCEPT !.cross = IF f.dep # NoName /\ f.arr # NoName /\ f.dep # f.arr THEN f.total ELSE 0]

calculateTakeoffSplit(f) ==
    LET dark == f.all > 0 /\ Known(f.dep) /\ takeoffAt(f) # Absent /\ IsNight(takeoffAt(f), f.dep)
    IN  IF f.takeoffsO THEN f
        ELSE [f EXCEPT !.takeoffsDay = IF dark THEN 0 ELSE f.all, !.takeoffsNight = IF dark THEN f.all ELSE 0]

calculateSICTime(f, role) ==
    [f EXCEPT !.sic = IF role # "SIC" THEN 0 ELSE IF f.sicO THEN @ ELSE derivedFunctionMinutes(f)]

calculateDualGivenTime(f, crew, role) ==
    [f EXCEPT !.given = IF role = "DualGiving" THEN f.total ELSE IF crew # {} THEN 0 ELSE @]

calculateMultiPilotTime(f, crew, role, mp) ==
    IF f.mpO THEN f
    ELSE [f EXCEPT !.mp = IF IsMultiPilotOperation(crew, role, mp) THEN f.total ELSE 0]

EffectiveIFRTime(f) ==
    LET asked == IF f.ifr > 0 THEN f.ifr ELSE f.actual + f.simulated
    IN  IF f.sim THEN 0 ELSE min(asked, f.total)

Cleared ==
    [total |-> 0, isPic |-> FALSE, isDual |-> FALSE, pic |-> 0, dual |-> 0, sic |-> 0, given |-> 0, mp |-> 0,
     picus |-> 0, spic |-> 0, examiner |-> 0, relief |-> 0, solo |-> 0, cross |-> 0, night |-> 0, ifr |-> 0,
     landingsDay |-> 0, landingsNight |-> 0, all |-> 0, takeoffsDay |-> 0, takeoffsNight |-> 0, actual |-> 0]

\* An FSTD session has no flight time, no places and no times of day.
applySessionCalculations(f) ==
    [dep |-> NoName, arr |-> NoName, off |-> Absent, on |-> Absent, takeoff |-> Absent, landing |-> Absent,
     simulated |-> min(f.simulated, f.simTime)] @@ Cleared @@ f

\* A passenger keeps the record of the trip and nothing else.
applyPassengerCalculations(f) == [simulated |-> 0, simTime |-> 0, passenger |-> TRUE] @@ Cleared @@ f

\* The derivations of a flight the user was crew of, in their order.
applyPilotCalculations(g, crew, role, mp) ==
    LET f1 == allLandings(calculateLandingSplit(calculateNightTime(calculatePICDual(g, role))))
        f2 == calculateTakeoffSplit(calculateCrossCountryTime(calculateSoloTime(f1, crew)))
        f3 == calculateDualGivenTime(calculateSICTime(f2, role), crew, role)
        f4 == calculateMultiPilotTime(f3, crew, role, mp)
    IN  [f4 EXCEPT !.ifr = EffectiveIFRTime(f4)]

ApplyAutoCalculations(f, crew, mp) ==
    LET g == [f EXCEPT !.total = IF @ = 0 THEN blockMinutes(f) ELSE @, !.passenger = FALSE]
        role == DetermineRole(g, crew, mp)
    IN  IF f.sim THEN applySessionCalculations(f)
        ELSE IF role = "Passenger" THEN applyPassengerCalculations(g)
        ELSE applyPilotCalculations(g, crew, role, mp)

ValidateTimeDistribution(f) ==
    IF f.sim THEN f.simTime > 0 /\ f.simulated <= f.simTime
    ELSE /\ ~(f.isPic /\ f.isDual)
         /\ f.night <= f.total /\ f.ifr <= f.total /\ f.cross <= f.total
         /\ f.pic + f.picus + f.spic + f.sic + f.dual + f.relief <= f.total
         /\ f.given <= f.total /\ f.examiner <= f.total
IsValid(f) == f.sim \/ f.passenger \/ f.total > 0

-----------------------------------------------------------------------------
(* Requests.                                                               *)

Overridable == [sic |-> "sicO", mp |-> "mpO", night |-> "nightO", cross |-> "crossO"]

\* applyOverride: a value set by hand is kept from derivation; null hands the
\* column back.
applyOverride(f, patch) ==
    [x \in DOMAIN f |->
        IF x \in DOMAIN Overridable /\ x \in DOMAIN patch THEN IF patch[x] = Absent THEN 0 ELSE patch[x]
        ELSE IF \E y \in DOMAIN patch \cap DOMAIN Overridable : Overridable[y] = x
             THEN \E y \in DOMAIN patch \cap DOMAIN Overridable : Overridable[y] = x /\ patch[y] # Absent
        ELSE IF x \in DOMAIN patch THEN patch[x] ELSE f[x]]

\* The total follows the block times when one of them is changed, if both are
\* there, and the request's own total counts only when neither is; identical
\* block times are refused.
blockPatched(patch) == DOMAIN patch \cap {"off", "on"} # {}
patched(f, patch) ==
    LET g == applyOverride(f, patch)
    IN  [g EXCEPT !.total = IF ~blockPatched(patch) THEN @
                            ELSE IF g.off # Absent /\ g.on # Absent THEN (g.on - g.off) % Day ELSE f.total]
refused(f, patch) == blockPatched(patch) /\ f.off # Absent /\ f.off = f.on

Named(f, crew) == [f EXCEPT !.picName = ResolvePICNameForSave(f, crew)]

Knowing(complete, named) == IF ~complete THEN "no" ELSE IF named THEN "named" ELSE "calc"

\* CreateFlight: a name in the request is kept as it is.
CreateFlight(f, nameRead, fleetRead) ==
    LET crew == CrewFor(f.crew, nameRead)
        calculated == ApplyAutoCalculations(f, crew, multi /\ fleetRead)
        new == IF f.picName = NoName THEN Named(calculated, crew) ELSE calculated
    IN  /\ row = <<>> /\ writes < MaxWrites /\ IsValid(new) /\ ValidateTimeDistribution(new)
        /\ row' = new /\ seen' = Knowing(nameRead /\ fleetRead, f.picName = NoName)
        /\ writes' = writes + 1 /\ UNCHANGED multi

\* UpdateFlight: the row as read has no crew; the crew rows are replaced only
\* if the request has some.
UpdateFlight(patch, nameRead, fleetRead) ==
    LET f == patched([row EXCEPT !.crew = {}], patch)
        crew == CrewFor(f.crew, nameRead)
        calculated == ApplyAutoCalculations(f, crew, multi /\ fleetRead)
        new == IF "picName" \in DOMAIN patch THEN calculated ELSE Named(calculated, crew)
    IN  /\ row # <<>> /\ writes < MaxWrites /\ ~refused(f, patch)
        /\ IsValid(new) /\ ValidateTimeDistribution(new)
        /\ row' = IF "crew" \in DOMAIN patch THEN new ELSE [new EXCEPT !.crew = row.crew]
        /\ seen' = Knowing(nameRead /\ fleetRead /\ ("crew" \in DOMAIN patch \/ row.crew = {}), "picName" \notin DOMAIN patch)
        /\ writes' = writes + 1 /\ UNCHANGED multi

\* RecalculateFlights: with the crew loaded, if that succeeds; the crew rows
\* and the name are left alone.
RecalculateFlights(nameRead, fleetRead, crewRead) ==
    LET crew == IF crewRead THEN CrewFor(row.crew, nameRead) ELSE {}
        new == ApplyAutoCalculations(row, crew, multi /\ fleetRead)
    IN  /\ row # <<>> /\ IsValid(new) /\ ValidateTimeDistribution(new)
        /\ row' = new /\ seen' = Knowing(nameRead /\ fleetRead /\ crewRead, FALSE) /\ UNCHANGED <<multi, writes>>

\* The pilot corrects the fleet entry; nothing is recalculated.
UpdateAircraft ==
    /\ multi' = ~multi /\ seen' = "no" /\ UNCHANGED <<row, writes>>

CalcInit == row = <<>> /\ multi = FALSE /\ seen = "no" /\ writes = 0

CalcNext ==
    \/ \E nameRead, fleetRead \in BOOLEAN :
          \/ \E f \in Flights : CreateFlight(f, nameRead, fleetRead)
          \/ \E p \in Patches : UpdateFlight(p, nameRead, fleetRead)
          \/ \E crewRead \in BOOLEAN : RecalculateFlights(nameRead, fleetRead, crewRead)
    \/ UpdateAircraft

CalcSpec == CalcInit /\ [][CalcNext]_calcVars

-----------------------------------------------------------------------------
(* Properties.                                                             *)

Flown == row # <<>> /\ ~row.sim /\ ~row.passenger

\* Every minute of a flight is in exactly one function column of the European
\* layout and in exactly one of the American, unless the pilot set the
\* co-pilot time by hand (flightrules columns over calculatePICDual and
\* calculateSICTime); no more than the total even then.
MinutesCountedOnce ==
    Flown =>
        LET easa == PICColumnTime(row) + CoPilotColumnTime(row) + row.dual
            faa == row.pic + FAASICColumnTime(row) + FAADualColumnTime(row)
        IN  /\ easa = faa /\ easa <= row.total
            /\ ~row.sicO => easa = row.total

\* What a write that knew the crew stored is what a recalculation stores: no
\* column depends on how often, or in which order, the flight was written
\* (RecalculateFlights after CreateFlight and UpdateFlight).
RecalculationIsStable ==
    row # <<>> /\ seen # "no" => ApplyAutoCalculations(row, row.crew, multi) = row

\* No column of a former function is left behind when the crew changes: the
\* co-pilot has no command time, who receives instruction gives none, solo
\* time means alone, and multi-pilot time needs the aircraft, unless set by
\* hand (calculateSICTime, calculateSoloTime, calculateDualGivenTime).
NoFormerFunction ==
    Flown /\ seen # "no" =>
        LET role == DetermineRole(row, row.crew, multi)
        IN  /\ role = "SIC" => row.pic = 0 /\ row.dual = 0 /\ row.solo = 0
            /\ role = "DualReceiving" => row.pic = 0 /\ row.sic = 0 /\ row.given = 0 /\ row.solo = 0
            /\ role \in {"PIC", "DualGiving"} => row.sic = 0 /\ row.dual = 0
            /\ row.solo > 0 => row.crew \subseteq {c \in row.crew : c.who = "self"}
            /\ row.mp > 0 /\ ~row.mpO => multi

\* A flight under an instructor, an examiner or another commander is never
\* printed as flown by "Self", whatever was stored before they were entered,
\* unless the request itself gave that name (ResolvePICNameForSave; a
\* recalculation leaves the name alone, and what is printed gives way always).
SelfGivesWay ==
    Flown /\ knownInstructor(row, row.crew) # NoName =>
        /\ DisplayPICName(row, row.crew) # "Self"
        /\ seen = "named" => row.picName # "Self"

\* The moments that decide between day and night lie within the block times,
\* over midnight too (instantsOf, inBlockWindow), and no more night is logged
\* than there was, or than the flight lasted, unless set by hand.
NightWithinBlock ==
    row # <<>> /\ row.off # Absent /\ row.on # Absent =>
        LET i == instantsOf(row)
        IN  /\ i.off <= takeoffAt(row) /\ takeoffAt(row) <= i.on
            /\ i.off <= landingAt(row) /\ landingAt(row) <= i.on
            /\ i.on - i.off < Day
            /\ ~row.nightO => row.night <= i.on - i.off

\* The function of the stored times is the one the stored crew gives.
\* UpdateFlight breaks it: a request without the crew derives the times as if
\* the pilot had been alone.
FunctionMatchesCrew ==
    Flown => LET role == DetermineRole(row, row.crew, multi)
             IN  role = "DualReceiving" => row.pic = 0 /\ row.isDual

=============================================================================
