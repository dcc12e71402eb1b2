------------------------------ MODULE Currency ------------------------------
(***************************************************************************)
(* Currency evaluation: which ratings, passenger privileges and custom     *)
(* rules a pilot meets on a day, from the flights in the logbook.          *)
(* (src/internal/service/currency)                                         *)
(*                                                                         *)
(* Days are integers.  The calendar is abstracted to a year of Year days   *)
(* and a half year; the thresholds of the rules are those of the code.     *)
(* Messages, names and units of requirements are left out.                 *)
(***************************************************************************)
EXTENDS Integers, FiniteSets, FiniteSetsExt, Sequences

CONSTANTS Year, HalfYear, PaxWindowDays, Soon,   \* lengths in days
          Floor, LastDay, MaxLapseSearchRounds,
          Entries,        \* what can be logged: records without the date
          MaxFlights, Pilots, NoDate, Custom

ASSUME CurrencyAssumption ==
  /\ {Year, HalfYear, PaxWindowDays, Soon, LastDay, MaxLapseSearchRounds, MaxFlights} \subseteq Nat
  /\ Floor \in Int /\ Floor < 0

VARIABLES
  flights, today, pilot,
  told,       \* what the service answers today
  promise     \* what it answered when the latest flight was logged

currencyVars == <<flights, today, pilot, told, promise>>

-----------------------------------------------------------------------------
\* The aggregate reads (currency_flight_data.go).  A selection of flights has
\* no simulator and no passenger entries; `until` is the as-of day.

Eternity == LastDay + 10 * Year

Counted(fl, since, until) ==
  {f \in fl : f.own /\ f.date >= since /\ f.date <= until}

Towed(f) == f.launch \in {"winch", "aerotow", "car", "bungee"}

Total(fl, field) == MapThenSumSet(LAMBDA f : f[field], fl)

Metrics == {"flights", "total", "pic", "ifr", "dual", "landings", "night", "approaches", "holds", "launches", "training"}

\* What one flight adds to a metric.
Adds(f, m) ==
  CASE m = "flights" -> 1
    [] m = "landings" -> f.day + f.night
    [] m = "launches" -> Max({f.takeoffs, 1})
    [] m = "training" -> IF f.dual > 0 THEN 1 ELSE 0
    [] OTHER -> f[m]

Progress(fl) ==
  [m \in Metrics \cup {"longest"} |->
     IF m = "longest" THEN Max({0} \cup {f.total : f \in {f \in fl : f.dual > 0}})
     ELSE MapThenSumSet(LAMBDA f : Adds(f, m), fl)]

ByClass(fl, classes, towed, since, until) ==
  {f \in Counted(fl, since, until) : f.class \in classes /\ (towed \/ ~Towed(f))}

ULMatch(f, sel) ==
  /\ f.class = "ULTRALIGHT"
  /\ f.kind \in sel.kinds \/ (sel.unspecified /\ f.kind = "none")
  /\ sel.mtom = 0 \/ f.mtom >= sel.mtom

GetProgressByAircraftClass(fl, classes, towed, since, until) ==
  Progress(ByClass(fl, classes, towed, since, until))

GetProgressByULKind(fl, sel, towed, since, until) ==
  Progress({f \in Counted(fl, since, until) : ULMatch(f, sel) /\ (towed \/ ~Towed(f))})

GetProgressAll(fl, since, until) == Progress(Counted(fl, since, until))

GetLastProficiencyCheck(fl, classes, since, until) ==
  {f.date : f \in {f \in Counted(fl, since, until) :
      f.check /\ (classes = {"IR"} \/ (f.class \in classes /\ (f.class = "GLIDER" \/ ~Towed(f))))}}

GetLastProficiencyCheckByULKind(fl, sel, since, until) ==
  {f.date : f \in {f \in Counted(fl, since, until) : f.check /\ ULMatch(f, sel)}}

GetLastFlightReview(fl, until) == {f.date : f \in {f \in Counted(fl, Floor, until) : f.review}}

\* Mutant: the last flight of a date replaces the others.
LandingsOfOne(fl) ==
  [d \in {f.date : f \in {f \in fl : f.day + f.night > 0}} |->
     LET on == {f \in fl : f.date = d}
     IN [all |-> CHOOSE n \in {f.day + f.night : f \in on} : TRUE, night |-> Total(on, "night")]]
\* Landings per date, as a function; dates without a landing are left out.
LandingDays(fl) ==
  [d \in {f.date : f \in {f \in fl : f.day + f.night > 0}} |->
     LET on == {f \in fl : f.date = d}
     IN [all |-> Total(on, "day") + Total(on, "night"), night |-> Total(on, "night")]]

GetLandingDaysByAircraftClass(fl, class, towed, picOnly, since) ==
  LandingDays({f \in ByClass(fl, {class}, towed, since, Eternity) : picOnly => f.pic > 0})

GetLandingDaysByULKind(fl, sel, towed, since) ==
  LandingDays({f \in Counted(fl, since, Eternity) : ULMatch(f, sel) /\ (towed \/ ~Towed(f))})

GetLaunchCounts(fl, class, since, until, method) ==
  MapThenSumSet(LAMBDA f : Max({f.takeoffs, 1}),
    {f \in Counted(fl, since, until) : f.class = class /\ f.launch = method})

-----------------------------------------------------------------------------
\* The engine.  A runtime rt holds the rating, its peers on the licence, the
\* day `now` the rule is evaluated at, the wall clock `today`, the as-of day
\* and the flights.

Sel(kinds, unspecified, mtom) == [kinds |-> kinds, unspecified |-> unspecified, mtom |-> mtom]

\* No credit selects no flights.
NoCredit == [sel |-> Sel({}, FALSE, 0), native |-> FALSE, towed |-> FALSE]

metricVal(p, m) == IF m = "picOrDual" THEN p.pic + p.dual ELSE p[m]

allReqsMet(p, reqs) == \A q \in reqs : metricVal(p, q[1]) >= q[2]

rollingSince(rt, window) == rt.now - window

addProgress(p, q, withDual) ==
  [m \in DOMAIN p |->
     CASE m \in {"dual", "training"} -> p[m] + (IF withDual THEN q[m] ELSE 0)
       [] m = "longest" -> IF withDual THEN Max({p[m], q[m]}) ELSE p[m]
       [] OTHER -> p[m] + q[m]]

includeTowedFlights(class, sailplane) == sailplane \/ class = "GLIDER"

\* A rule: classes counted, whether sailplane launches count, whether dual
\* time on the classes is dropped, the ultralight credit, the requirements.
Rule(classes, towed, noDual, ul, reqs) ==
  [classes |-> classes, towed |-> towed, noDual |-> noDual, ul |-> ul, reqs |-> reqs]

fetchProgress(rt, rule, since) ==
  addProgress(addProgress(Progress({}),
                GetProgressByAircraftClass(rt.fl, rule.classes, rule.towed, since, rt.until), ~rule.noDual),
              GetProgressByULKind(rt.fl, rule.ul.sel, rule.ul.towed, since, rt.until), rule.ul.native)

lastProficiencyCheck(rt, rule, since) ==
  \/ GetLastProficiencyCheck(rt.fl, rule.classes, since, rt.until) # {}
  \/ /\ rule.ul.native
     /\ GetLastProficiencyCheckByULKind(rt.fl, rule.ul.sel, since, rt.until) # {}

hasClass(ratings, class) == \E r \in ratings : r.class = class

ratingULKind(rating) == IF rating.kind = "none" THEN "THREE_AXIS" ELSE rating.kind

AircraftKindsForRating(k) ==
  IF k = "THREE_AXIS" THEN {"THREE_AXIS", "THREE_AXIS_MOTORGLIDER"} ELSE {k}

\* models/expiry.go and models/class_rating.go: the expiry date is the last valid day.
DaysUntilExpiry(expiry, day) == expiry - day
IsExpired(rating, day) == rating.expiry # NoDate /\ DaysUntilExpiry(rating.expiry, day) < 0
IsExpiringSoon(rating, day) ==
  rating.expiry # NoDate /\ DaysUntilExpiry(rating.expiry, day) \in 0 .. Soon

ByExpiry(rt) ==
  CASE rt.rating.expiry = NoDate -> "unknown"
    [] IsExpired(rt.rating, rt.today) -> "expired"
    [] IsExpiringSoon(rt.rating, rt.today) -> "expiring"
    [] OTHER -> "current"

applyClosedWindow(rt) == rt.today < rt.rating.expiry - Year

setRecencyStatus(met) == IF met THEN "current" ELSE "expiring"

\* A recency rule has a rolling window; with a check, a proficiency check in the
\* window replaces the experience.
Recency(rule, window, withCheck) == [rule |-> rule, window |-> window, withCheck |-> withCheck]

recencyFinalize(rt, recency) ==
  LET rule == recency.rule
      since == rollingSince(rt, recency.window)
  IN setRecencyStatus(\/ allReqsMet(fetchProgress(rt, rule, since), rule.reqs)
                      \/ recency.withCheck /\ lastProficiencyCheck(rt, rule, since))

\* A revalidation rule looks at the year before the expiry date and ends in
\* the state of the date when the experience is complete.
Revalidation(rt, met) ==
  CASE rt.rating.expiry = NoDate -> "unknown"
    [] rt.rating.expiry # NoDate /\ applyClosedWindow(rt) -> "current"
    [] OTHER -> IF ~IsExpired(rt.rating, rt.today) /\ ~met THEN "expiring" ELSE ByExpiry(rt)

RevalidationStart(rt) == IF rt.rating.expiry = NoDate THEN 0 ELSE rt.rating.expiry - Year

-----------------------------------------------------------------------------
\* EASA (easa.go, credited_classes.go, gpl.go)

easaAeroplaneClasses == {"SEP_LAND", "SEP_SEA", "MEP_LAND", "MEP_SEA", "SET_LAND", "SET_SEA", "TMG"}

easaSEPTMGClasses(rt) ==
  LET both == {"SEP_LAND", "TMG"} IN
  IF rt.rating.class \in both /\ \A c \in both : hasClass(rt.peers, c) THEN both ELSE {rt.rating.class}

easaAnnexICredit(classes) ==
  LET kinds == {k \in {"THREE_AXIS", "THREE_AXIS_MOTORGLIDER"} :
                  (IF k = "THREE_AXIS" THEN "SEP_LAND" ELSE "TMG") \in classes}
  IN [NoCredit EXCEPT !.sel = Sel(kinds, FALSE, 0)]

gplAnnexICredit == [NoCredit EXCEPT !.sel = Sel({"GYROPLANE"}, FALSE, 450)]

\* Rules of a rating with an expiry date: the experience of the year before it.
Experienced(rt, rule) == allReqsMet(fetchProgress(rt, rule, RevalidationStart(rt)), rule.reqs)

easaSEPTMGRule(rt) ==
  Revalidation(rt, Experienced(rt,
    Rule(easaSEPTMGClasses(rt), FALSE, FALSE, easaAnnexICredit(easaSEPTMGClasses(rt)),
         {<<"total", 720>>, <<"pic", 360>>, <<"landings", 12>>, <<"dual", 60>>})))

easaMEPSETRule(rt) ==
  Revalidation(rt,
    \/ Experienced(rt, Rule({rt.rating.class}, FALSE, FALSE, NoCredit, {<<"flights", 10>>, <<"dual", 60>>}))
    \/ GetLastProficiencyCheck(rt.fl, {rt.rating.class}, RevalidationStart(rt), rt.until) # {})

easaIRRule(rt) ==
  LET since == RevalidationStart(rt)
  IN Revalidation(rt, /\ GetProgressAll(rt.fl, since, rt.until).ifr >= 600
                      /\ GetLastProficiencyCheck(rt.fl, {"IR"}, since, rt.until) # {})

easaExpiryOnlyRule(rt) == ByExpiry(rt)

easaLAPLLandSeaReqs(rt, since) ==
  \A c \in {"SEP_LAND", "SEP_SEA"} :
    allReqsMet(GetProgressByAircraftClass(rt.fl, {c}, FALSE, since, rt.until),
               {<<"total", 60>>, <<"landings", 6>>})

easaLAPLRule(rt) ==
  LET rule == Rule(easaAeroplaneClasses, FALSE, FALSE, easaAnnexICredit(easaAeroplaneClasses),
                   {<<"total", 720>>, <<"landings", 12>>, <<"dual", 60>>})
      since == rollingSince(rt, 2 * Year)
      both == \A c \in {"SEP_LAND", "SEP_SEA"} : hasClass(rt.peers, c)
  IN setRecencyStatus(
       \/ /\ allReqsMet(fetchProgress(rt, rule, since), rule.reqs)
          /\ both => easaLAPLLandSeaReqs(rt, since)
       \/ GetLastProficiencyCheck(rt.fl, rule.classes, since, rt.until) # {})

ulHoursCredit(rt, kinds, since) ==
  GetProgressByULKind(rt.fl, Sel(kinds, FALSE, 0), TRUE, since, rt.until).pic

\* Whether hours and the other requirements are met, or a check replaces them.
hoursAndReqs(rt, p, more, hours, reqs, class, since) ==
  setRecencyStatus(\/ metricVal(p, "picOrDual") + more >= hours /\ allReqsMet(p, reqs)
                   \/ GetLastProficiencyCheck(rt.fl, {class}, since, rt.until) # {})

classHours(rt, class, towed, since) ==
  metricVal(GetProgressByAircraftClass(rt.fl, {class}, towed, since, rt.until), "picOrDual")

easaSPLRule(rt) ==
  LET rule == Rule({rt.rating.class}, TRUE, FALSE, NoCredit, {<<"launches", 15>>, <<"training", 2>>})
      since == rollingSince(rt, 2 * Year)
  IN hoursAndReqs(rt, fetchProgress(rt, rule, since),
       IF rt.rating.class # "GLIDER" THEN 0
       ELSE classHours(rt, "TMG", FALSE, since) + ulHoursCredit(rt, {"SAILPLANE", "THREE_AXIS_MOTORGLIDER"}, since),
       300, rule.reqs, rt.rating.class, since)

launchMethodRequired(method) == IF method = "bungee" THEN 2 ELSE 5

\* SFCL.155(c): the methods ever used, and whether each is still current.
easaLaunchMethodCurrency(rt, since) ==
  LET methods == {m \in {"winch", "car", "aerotow", "self-launch", "bungee"} :
                    GetLaunchCounts(rt.fl, rt.rating.class, Floor, rt.until, m) > 0}
      tmg == IF rt.rating.class # "GLIDER" THEN 0
             ELSE GetProgressByAircraftClass(rt.fl, {"TMG"}, FALSE, since, rt.until).launches
  IN [m \in methods |-> GetLaunchCounts(rt.fl, rt.rating.class, since, rt.until, m)
                          + (IF m = "self-launch" THEN tmg ELSE 0) >= launchMethodRequired(m)]

\* Half of the hours must be on motor gliders.
SPLTMGMet(p, credit, more, reqs) ==
  LET own == metricVal(p, "picOrDual") + credit
  IN own + more >= 720 /\ own >= 360 /\ allReqsMet(p, reqs)

easaSPLTMGRule(rt) ==
  LET rule == Rule({"TMG"}, FALSE, FALSE, NoCredit, {<<"landings", 12>>, <<"longest", 60>>})
      since == rollingSince(rt, 2 * Year)
  IN setRecencyStatus(
       \/ SPLTMGMet(fetchProgress(rt, rule, since), ulHoursCredit(rt, {"THREE_AXIS_MOTORGLIDER"}, since),
                    classHours(rt, "GLIDER", TRUE, since) + ulHoursCredit(rt, {"SAILPLANE"}, since), rule.reqs)
       \/ GetLastProficiencyCheck(rt.fl, {"TMG"}, since, rt.until) # {})

easaGPLRule(rt) ==
  Recency(Rule({rt.rating.class}, FALSE, FALSE, gplAnnexICredit,
                           {<<"total", 720>>, <<"landings", 12>>, <<"dual", 60>>}), 2 * Year, TRUE)

isEASALAPLA(type) == type \in {"LAPL", "LAPL(A)"}
isEASASailplane(type) == type \in {"SPL", "LAPL(S)"}
isGPL(type) == type = "GPL"
isULLicence(type) == type \in {"UL", "ULTRALIGHT"}

easaSelectRule(class, type) ==
  CASE class = "IR" -> "easaIR"
    [] class = "GLIDER" -> "easaSPL"
    [] class = "GYROPLANE" -> "easaGPL"
    [] class = "ULTRALIGHT" -> "easaExpiryOnly"
    [] OTHER ->
       CASE isEASALAPLA(type) -> "easaLAPL"
         [] isEASASailplane(type) -> IF class = "TMG" THEN "easaSPLTMG" ELSE "easaSPL"
         [] OTHER ->
            CASE class \in {"SEP_LAND", "SEP_SEA", "TMG"} -> "easaSEPTMG"
              [] class \in {"MEP_LAND", "MEP_SEA", "SET_LAND", "SET_SEA"} -> "easaMEPSET"
              [] OTHER -> "easaExpiryOnly"

-----------------------------------------------------------------------------
\* German ultralights (german_ul.go)

germanULNativeCredit(rt) ==
  LET kind == ratingULKind(rt.rating) IN
  [sel |-> Sel(AircraftKindsForRating(kind), TRUE, 0), native |-> TRUE,
   towed |-> kind = "SAILPLANE"]

\* The recency rules of LuftPersV 45 that count classes beside the ultralights.
germanULRule(rt) ==
  Recency(Rule({"SEP_LAND", "TMG"}, FALSE, TRUE, germanULNativeCredit(rt),
    {<<"total", 720>>, <<"pic", 360>>, <<"landings", 12>>, <<"dual", 60>>}), 2 * Year, TRUE)
germanULGyroplaneRule(rt) ==
  Recency(Rule({"GYROPLANE"}, FALSE, TRUE, germanULNativeCredit(rt),
    {<<"total", 720>>, <<"pic", 360>>, <<"landings", 12>>, <<"dual", 60>>}), 2 * Year, TRUE)
germanULHelicopterRule(rt) ==
  Recency(Rule({}, FALSE, FALSE, germanULNativeCredit(rt),
    {<<"total", 360>>, <<"landings", 6>>, <<"dual", 60>>}), Year, TRUE)
germanULTrikeDULVRule(rt) ==
  Recency(Rule({}, FALSE, FALSE, germanULNativeCredit(rt), {<<"pic", 720>>}), 2 * Year, FALSE)
germanULTrikeDAeCRule(rt) ==
  Recency(Rule({}, FALSE, FALSE, germanULNativeCredit(rt),
    {<<"total", 720>>, <<"landings", 12>>}), 2 * Year, FALSE)
germanULPoweredParagliderRule(rt) ==
  Recency(Rule({}, FALSE, FALSE, germanULNativeCredit(rt), {<<"landings", 30>>}), 2 * Year, FALSE)
germanULSailplaneRule(rt) ==
  Recency(Rule({}, FALSE, FALSE, germanULNativeCredit(rt), {<<"landings", 5>>}), Year, FALSE)

germanULSelectRule(kind, authority) ==
  CASE kind = "HELICOPTER" -> "ulHelicopter"
    [] kind = "GYROPLANE" -> "ulGyroplane"
    [] kind = "WEIGHT_SHIFT" -> IF authority \in {"DAeC", "DAEC"} THEN "ulTrikeDAeC" ELSE "ulTrikeDULV"
    [] kind = "POWERED_PARAGLIDER" -> "ulParaglider"
    [] kind = "SAILPLANE" -> "ulSailplane"
    [] OTHER -> "ulThreeAxis"

-----------------------------------------------------------------------------
\* FAA (faa.go) and authorities without rules of their own (other.go)

faaLandings(p) == CASE p.landings < 3 -> "expired" [] p.landings >= 3 /\ p.night < 3 -> "expiring" [] OTHER -> "current"

faaPassengerRatingRule(rt) ==
  faaLandings(fetchProgress(rt, Rule({rt.rating.class}, FALSE, FALSE, NoCredit, {}), rollingSince(rt, PaxWindowDays)))

sixApproaches(p) == p.approaches >= 6 /\ p.holds >= 1

faaInstrumentRule(rt) ==
  LET met(since) == sixApproaches(GetProgressAll(rt.fl, since, rt.until)) IN
  IF IsExpired(rt.rating, rt.today) THEN "expired"
  ELSE IF met(rollingSince(rt, HalfYear)) THEN "current"
  ELSE IF met(rt.now - Year) THEN "expiring" ELSE "expired"

faaGliderRule(rt) ==
  LET p == fetchProgress(rt, Rule({rt.rating.class}, TRUE, FALSE, NoCredit, {}),
                         rollingSince(rt, PaxWindowDays))
  IN IF p.landings >= 3 THEN "current" ELSE "expired"

faaSuppressedIRRule(rt) == "unknown"

faaSelectRule(class, type) ==
  CASE class = "ULTRALIGHT" -> "otherExpiry"
    [] class = "IR" -> IF type \in {"SPORT", "RECREATIONAL"} THEN "faaSuppressedIR" ELSE "faaInstrument"
    [] OTHER -> IF type = "GLIDER" \/ class = "GLIDER" THEN "faaGlider" ELSE "faaPassengerRating"

otherExpiryRule(rt) == ByExpiry(rt)

otherSelectRule(class) == IF class = "GLIDER" THEN "easaSPL" ELSE "otherExpiry"

\* A review is valid to the end of the 24th month after it; months are not
\* modelled, so to the end of the second year.
faaFlightReviewStatus(day, last) ==
  CASE day > last + 2 * Year -> "expired"
    [] last + 2 * Year - day \in 0 .. Soon -> "expiring"
    [] OTHER -> "current"

EvaluateFlightReview(fl, day) ==
  LET reviews == GetLastFlightReview(fl, Eternity)
  IN IF reviews = {} THEN "expired" ELSE faaFlightReviewStatus(day, Max(reviews))

-----------------------------------------------------------------------------
\* Dispatch (evaluator.go, service.go) and the dates around a rolling rule.

germanAuthorities == {"LBA", "DULV", "DAeC", "DAEC"}

SelectRule(rating, lic) ==
  CASE lic.authority = "FAA" -> faaSelectRule(rating.class, lic.type)
    [] lic.authority \in germanAuthorities /\ rating.class = "ULTRALIGHT" ->
         germanULSelectRule(ratingULKind(rating), lic.authority)
    [] lic.authority = "EASA" \/ (lic.authority \in germanAuthorities /\ rating.class # "ULTRALIGHT") ->
         easaSelectRule(rating.class, lic.type)
    [] OTHER -> otherSelectRule(rating.class)

RecencyRule(name, rt) ==
  CASE name = "easaGPL" -> easaGPLRule(rt)
    [] name = "ulHelicopter" -> germanULHelicopterRule(rt)
    [] name = "ulGyroplane" -> germanULGyroplaneRule(rt)
    [] name = "ulTrikeDAeC" -> germanULTrikeDAeCRule(rt)
    [] name = "ulTrikeDULV" -> germanULTrikeDULVRule(rt)
    [] name = "ulParaglider" -> germanULPoweredParagliderRule(rt)
    [] name = "ulSailplane" -> germanULSailplaneRule(rt)
    [] name = "ulThreeAxis" -> germanULRule(rt)

RuleStatus(name, rt) ==
  CASE name = "easaIR" -> easaIRRule(rt)            [] name = "easaSPL" -> easaSPLRule(rt)
    [] name = "easaLAPL" -> easaLAPLRule(rt)        [] name = "easaSPLTMG" -> easaSPLTMGRule(rt)
    [] name = "easaSEPTMG" -> easaSEPTMGRule(rt)    [] name = "easaMEPSET" -> easaMEPSETRule(rt)
    [] name = "easaExpiryOnly" -> easaExpiryOnlyRule(rt)
    [] name = "faaInstrument" -> faaInstrumentRule(rt) [] name = "faaGlider" -> faaGliderRule(rt)
    [] name = "faaPassengerRating" -> faaPassengerRatingRule(rt)
    [] name = "faaSuppressedIR" -> faaSuppressedIRRule(rt)
    [] name = "otherExpiry" -> otherExpiryRule(rt)
    [] OTHER -> recencyFinalize(rt, RecencyRule(name, rt))

\* The length of a rolling window, 0 for the other rules (windowSpec.isRolling).
RollingWindow(name) ==
  CASE name \in {"easaSPL", "easaGPL", "easaLAPL", "easaSPLTMG", "ulGyroplane", "ulTrikeDAeC",
                 "ulTrikeDULV", "ulParaglider", "ulThreeAxis"} -> 2 * Year
    [] name \in {"ulHelicopter", "ulSailplane"} -> Year
    [] name = "faaInstrument" -> HalfYear
    [] name \in {"faaGlider", "faaPassengerRating"} -> PaxWindowDays
    [] OTHER -> 0

evalRatingRuleAt(fl, rating, lic, now, day, until) ==
  RuleStatus(SelectRule(rating, lic),
             [rating |-> rating, peers |-> lic.ratings, now |-> now, today |-> day,
              until |-> until, fl |-> fl])

\* Binary search for the last day from `lo` on which met still holds, given that
\* it holds on lo and not on hi (the loops of recencyLapseDate and lastCurrentDay).
Bisect(met, from, to) ==
  LET search[lo \in Int, hi \in Int] ==
        IF hi - lo <= 1 THEN lo
        ELSE LET mid == lo + (hi - lo) \div 2 IN IF met[mid] THEN search[mid, hi] ELSE search[lo, mid]
  IN search[from, to]

\* The last day of a rating that is current on `day`, by its status on later days.
recencyLapseDate(statusOn, window, day) ==
  LET currentOn == [d \in Int |-> statusOn[d] = "current"]
      hi == day + window + 1
  IN IF ~currentOn[day] \/ currentOn[hi] THEN NoDate ELSE Bisect(currentOn, day, hi)

\* RecencyExpiresOn: set only while a rolling rule is current.
WithRecencyDate(statusOn, window, day) ==
  [status |-> statusOn[day],
   until |-> IF window > 0 /\ statusOn[day] = "current" THEN recencyLapseDate(statusOn, window, day) ELSE NoDate]

evalRatingRuleWithPeers(fl, rating, lic, day) ==
  WithRecencyDate([d \in Int |-> evalRatingRuleAt(fl, rating, lic, d, day, Eternity)],
                  RollingWindow(SelectRule(rating, lic)), day)

\* Latest day before `day` on which metAt[d, d] holds.  metAt is monotone in
\* its first argument only, so every round fixes `until` and bisects.
lastCurrentDay(day, floor, metAt) ==
  LET round[until \in Int, n \in Nat] ==
        IF n = 0 \/ until < floor THEN NoDate
        ELSE IF metAt[until, until] THEN until
        ELSE IF ~metAt[floor, until] THEN NoDate
        ELSE LET met == [d \in Int |-> metAt[d, until]]
                 lo == Bisect(met, floor, until)
             IN IF metAt[lo, lo] THEN lo ELSE round[lo - 1, n - 1]
  IN round[day - 1, MaxLapseSearchRounds]

lapseAfter(last) == IF last = NoDate THEN NoDate ELSE last + 1

ratingLapseDate(fl, rating, lic, day) ==
  LET metAt == [d, until \in Int |-> evalRatingRuleAt(fl, rating, lic, d, day, until) = "current"]
  IN lapseAfter(lastCurrentDay(day, Floor, metAt))

-----------------------------------------------------------------------------
\* Passenger currency (passenger_expiry.go, lapse.go and the evaluators)

HasNightPrivilege(lic) ==
  ~ \/ lic.authority = "FAA" /\ lic.type \in {"SPORT", "RECREATIONAL", "GLIDER"}
    \/ lic.authority = "EASA" /\ (isEASASailplane(lic.type) \/ isEASALAPLA(lic.type))
    \/ lic.authority \in {"DULV", "DAeC", "DAEC"}
    \/ lic.authority = "LBA" /\ isULLicence(lic.type)
    \/ isGPL(lic.type)

hasValidIRRating(ratings, day) == \E r \in ratings : r.class = "IR" /\ r.expiry # NoDate /\ ~IsExpired(r, day)

latestIRExpiry(ratings) ==
  LET dates == {r.expiry : r \in {r \in ratings : r.class = "IR"}} \ {NoDate}
  IN IF dates = {} THEN NoDate ELSE Max(dates)

paxTotals(days, count) == MapThenSumSet(LAMBDA d : days[d][count], DOMAIN days)

\* Mutant: the privilege runs out with the oldest landing in the window.
paxExpiryOfOldest(days, required, count) ==
  IF required <= 0 \/ paxTotals(days, count) < required THEN NoDate ELSE Min(DOMAIN days) + PaxWindowDays

paxExpiryDate(days, required, count) ==
  LET since(d) == MapThenSumSet(LAMBDA e : days[e][count], {e \in DOMAIN days : e >= d})
      reached == {d \in DOMAIN days : since(d) >= required}
  IN IF required <= 0 \/ reached = {} THEN NoDate ELSE Max(reached) + PaxWindowDays

paxLapseDate(history, required, count, waiver, day) ==
  LET metAt == [d, until \in Int |->
        \/ waiver # NoDate /\ d <= waiver
        \/ MapThenSumSet(LAMBDA e : history[e][count],
             {e \in DOMAIN history : e >= d - PaxWindowDays /\ e <= until}) >= required]
  IN IF required <= 0 THEN NoDate ELSE lapseAfter(lastCurrentDay(day, Floor, metAt))

Landings(fl, rating, lic, since) ==
  IF lic.authority \in germanAuthorities /\ rating.class = "ULTRALIGHT"
  THEN LET kind == ratingULKind(rating)
       IN GetLandingDaysByULKind(fl, Sel(AircraftKindsForRating(kind), TRUE, 0), kind = "SAILPLANE", since)
  ELSE GetLandingDaysByAircraftClass(fl, rating.class,
         includeTowedFlights(rating.class, IF lic.authority = "FAA" THEN lic.type = "GLIDER" ELSE isEASASailplane(lic.type)),
         /\ lic.authority # "FAA"
         /\ rating.class = "GLIDER" \/ (rating.class = "TMG" /\ isEASASailplane(lic.type)), since)

paxWindowStart(day) == day - PaxWindowDays

\* fillPaxLapseDates: the lapse dates of the requirements that have expired.
fillPaxLapseDates(pax, history, waiver, day) ==
  [pax EXCEPT !.dayLapsed = IF pax.day = "expired" THEN paxLapseDate(history, 3, "all", NoDate, day) ELSE NoDate,
              !.nightLapsed = IF pax.night = "expired"
                              THEN paxLapseDate(history, pax.nightRequired, "night", waiver, day) ELSE NoDate]

PassengerCurrency(day, night, nightRequired, dayUntil, nightUntil) ==
  [day |-> day, night |-> night, nightRequired |-> nightRequired, dayUntil |-> dayUntil,
   nightUntil |-> nightUntil, dayLapsed |-> NoDate, nightLapsed |-> NoDate]

DayStatus(days) == IF paxTotals(days, "all") >= 3 THEN "current" ELSE "expired"

\* Gyroplane passengers on a Part-FCL licence need ten hours as PIC since its issue.
tooFewPICHours(fl, rating, lic) ==
  /\ rating.class = "GYROPLANE" /\ isGPL(lic.type)
  /\ GetProgressByAircraftClass(fl, {"GYROPLANE"}, FALSE, lic.issued, Eternity).pic < 600

easaLandings(days, night, ir, short) ==
  LET required == IF ir THEN 0 ELSE 1
  IN PassengerCurrency(
       IF short THEN "expired" ELSE DayStatus(days),
       CASE ~night -> "unknown"
         [] night /\ (ir \/ paxTotals(days, "night") >= 1) -> "current"
         [] OTHER -> "expired",
       required,
       IF short THEN NoDate ELSE paxExpiryDate(days, 3, "all"),
       IF night THEN paxExpiryDate(days, required, "night") ELSE NoDate)

easaFilled(pax, short) == IF short THEN [pax EXCEPT !.dayLapsed = NoDate] ELSE pax

easaPassengerCurrency(fl, rating, lic, day) ==
  LET short == tooFewPICHours(fl, rating, lic)
  IN easaFilled(fillPaxLapseDates(
       easaLandings(Landings(fl, rating, lic, paxWindowStart(day)), HasNightPrivilege(lic) /\ rating.class # "GLIDER",
                    hasValidIRRating(lic.ratings, day), short),
       Landings(fl, rating, lic, Floor), latestIRExpiry(lic.ratings), day), short)

faaPassengers(days, night, required) ==
  PassengerCurrency(DayStatus(days),
    CASE ~night -> "unknown" [] night /\ paxTotals(days, "night") >= 3 -> "current" [] OTHER -> "expired",
    required, paxExpiryDate(days, 3, "all"), paxExpiryDate(days, required, "night"))

faaPassengerCurrency(fl, rating, lic, day) ==
  fillPaxLapseDates(
    faaPassengers(Landings(fl, rating, lic, paxWindowStart(day)), HasNightPrivilege(lic), IF HasNightPrivilege(lic) THEN 3 ELSE 0),
    Landings(fl, rating, lic, Floor), NoDate, day)

ulPassengers(days) == PassengerCurrency(DayStatus(days), "unknown", 0, paxExpiryDate(days, 3, "all"), NoDate)

germanULPassengerCurrency(fl, rating, lic, day) ==
  fillPaxLapseDates(ulPassengers(Landings(fl, rating, lic, paxWindowStart(day))), Landings(fl, rating, lic, Floor), NoDate, day)

-----------------------------------------------------------------------------
\* Service.EvaluateAll for the licences of the pilot, read in their order.

holdsPartFCLTMG(licences) ==
  \E i \in DOMAIN licences : LET lic == licences[i] IN
    /\ lic.authority \in {"EASA"} \cup germanAuthorities
    /\ ~isEASASailplane(lic.type) /\ ~isULLicence(lic.type)
    /\ hasClass(lic.ratings, "TMG")

applySFCLTMGExemption == [status |-> "current", until |-> NoDate]

EvaluateRating(fl, licences, i, rating, day) ==
  IF SelectRule(rating, licences[i]) = "easaSPLTMG" /\ holdsPartFCLTMG(licences)
  THEN applySFCLTMGExemption ELSE evalRatingRuleWithPeers(fl, rating, licences[i], day)

\* Ratings without passenger privileges of their own: IR, and ultralights
\* outside German rules; other authorities have no passenger evaluator.
HasPassengerCurrency(rating, lic) ==
  /\ rating.class # "IR"
  /\ lic.authority \in {"EASA", "FAA"} \cup germanAuthorities
  /\ rating.class = "ULTRALIGHT" => lic.authority \in germanAuthorities

passengerKey(rating, lic) ==
  <<rating.class, lic.authority, IF rating.class = "ULTRALIGHT" THEN ratingULKind(rating) ELSE "none">>

EvaluatePassenger(fl, rating, lic, day) ==
  CASE lic.authority = "FAA" -> faaPassengerCurrency(fl, rating, lic, day)
    [] lic.authority \in germanAuthorities /\ rating.class = "ULTRALIGHT" ->
         germanULPassengerCurrency(fl, rating, lic, day)
    [] OTHER -> easaPassengerCurrency(fl, rating, lic, day)

\* One result per class and authority: the first licence that has it.
EvaluateAll(fl, licences, day) ==
  [ratings |-> [x \in {<<i, r>> : i \in DOMAIN licences, r \in UNION {l.ratings : l \in Range(licences)}} |->
                  IF x[2] \in licences[x[1]].ratings
                  THEN EvaluateRating(fl, licences, x[1], x[2], day) ELSE [status |-> "none", until |-> NoDate]],
   passenger |-> LET pairs == {<<i, r>> \in (DOMAIN licences) \X UNION {l.ratings : l \in Range(licences)} :
                                 r \in licences[i].ratings /\ HasPassengerCurrency(r, licences[i])}
                     keys == {passengerKey(x[2], licences[x[1]]) : x \in pairs}
                 IN [k \in keys |->
                      LET of == {x \in pairs : passengerKey(x[2], licences[x[1]]) = k}
                          first == CHOOSE x \in of : \A y \in of : x[1] <= y[1]
                      IN EvaluatePassenger(fl, first[2], licences[first[1]], day)],
   review |-> IF \E i \in DOMAIN licences : licences[i].authority = "FAA"
              THEN EvaluateFlightReview(fl, day) ELSE "none"]

-----------------------------------------------------------------------------
\* Custom rules (custom.go, custom_currency_data.go).  A body has a window, a
\* set of filters and a set of requirements, all of which must be met.

UnitLength(unit) ==
  CASE unit = "weeks" -> 7 [] unit = "months" -> Max({1, Year \div 12}) [] unit = "years" -> Year
    [] OTHER -> 1

windowSince(day, w) == day - w.amount * UnitLength(w.unit)
windowEnd(date, w) == date + w.amount * UnitLength(w.unit)

windowDays(w) ==
  w.amount * (CASE w.unit = "weeks" -> 7 [] w.unit = "months" -> 30 [] w.unit = "years" -> 365 [] OTHER -> 1)

expiringThresholdDays(w) == Max({1, Min({30, windowDays(w) \div 2})})

\* now is later than midnight, and the quotient of hours is truncated
daysBetween(day, t) == IF t > day THEN t - day - 1 ELSE 0

buildCustomFilterClause(f, filter) ==
  CASE filter.op = "is_true" ->
         (CASE filter.field = "is_pic" -> f.pic > 0 [] filter.field = "is_dual" -> f.dual > 0
            [] filter.field = "has_night" -> f.night > 0 [] OTHER -> f.ifr > 0)
    [] filter.op \in {"eq", "in"} ->
         (IF filter.field = "aircraft_class" THEN f.class ELSE f.launch) \in filter.values

buildCustomWhere(fl, since, filters) ==
  {f \in Counted(fl, since, Eternity) : \A x \in filters : buildCustomFilterClause(f, x)}

MetricRow(f, metric) ==
  CASE metric = "flights" -> 1 [] metric = "landings" -> f.day + f.night [] OTHER -> f[metric]

AggregateMetrics(fl, metric) == MapThenSumSet(LAMBDA f : MetricRow(f, metric), fl)

IsTimeMetric(metric) == metric \in {"total", "pic", "dual", "ifr"}

\* Thresholds in the unit of the database: minutes for time metrics.
rawThreshold(r) == IF IsTimeMetric(r.metric) /\ r.unit # "minutes" THEN r.min * 60 ELSE r.min

\* hours are compared as minutes over 60, so exactly
buildCustomRequirement(r, raw) == raw >= rawThreshold(r)

\* For each requirement, the oldest flights leave the window first; the one
\* whose loss takes the total below the threshold ends the rule.
computeExpiry(fl, body) ==
  LET leaves(r) ==
        LET excess == AggregateMetrics(fl, r.metric) - rawThreshold(r)
            gone(d) == AggregateMetrics({f \in fl : f.date <= d}, r.metric)
            ends == {d \in {f.date : f \in fl} : gone(d) > excess}
        IN IF ends = {} THEN {} ELSE {windowEnd(Min(ends), body.window)}
      dates == UNION {leaves(r) : r \in body.requirements}
  IN IF dates = {} THEN NoDate ELSE Min(dates)

requirementsMet(in, body) == \A r \in body.requirements : buildCustomRequirement(r, AggregateMetrics(in, r.metric))

\* The search for the lapse leaves out the flights of the window's first day, which the query
\* of an evaluation (buildCustomWhere) counts.
CustomMetAt(fl, body, d, until) ==
  requirementsMet({f \in fl : f.date > windowSince(d, body.window) /\ f.date <= until}, body)

computeLapse(fl, body, day) ==
  LET all == buildCustomWhere(fl, Floor, body.filters)
      metAt == [d, until \in Int |-> CustomMetAt(all, body, d, until)]
  IN lapseAfter(lastCurrentDay(day, windowEnd(Floor, body.window), metAt))

CustomStatus(fl, in, until, body, day) ==
  IF ~requirementsMet(in, body)
  THEN [status |-> "expired", until |-> NoDate, lapsed |-> computeLapse(fl, body, day)]
  ELSE [status |-> IF until # NoDate /\ daysBetween(day, until) <= expiringThresholdDays(body.window)
                   THEN "expiring" ELSE "current",
        until |-> until, lapsed |-> NoDate]

evaluated(fl, body, day) == buildCustomWhere(fl, windowSince(day, body.window), body.filters)
CustomEvaluate(fl, body, day) ==
  LET in == evaluated(fl, body, day)
  IN CustomStatus(fl, in, computeExpiry(in, body), body, day)

-----------------------------------------------------------------------------
\* The pilot logs flights while days pass.  What the service tells after a
\* flight is logged is remembered as a promise.

Told(fl, day) == [all |-> EvaluateAll(fl, pilot, day), custom |-> CustomEvaluate(fl, Custom, day)]

CurrencyInit ==
  /\ flights = {} /\ today = 1
  /\ pilot \in Pilots
  /\ told = Told({}, 1) /\ promise = told

\* A flight is entered for any day up to tomorrow's date.
LogFlight ==
  /\ Cardinality(flights) < MaxFlights
  /\ \E e \in Entries, d \in 0 .. today + 1 :
       LET f == [x \in DOMAIN e \cup {"date"} |-> IF x = "date" THEN d ELSE e[x]] IN
       /\ f \notin flights
       /\ flights' = flights \cup {f}
       /\ told' = Told(flights', today) /\ promise' = told'
  /\ UNCHANGED <<today, pilot>>

NextDay ==
  /\ today < LastDay
  /\ today' = today + 1
  /\ told' = Told(flights, today')
  /\ UNCHANGED <<flights, pilot, promise>>

CurrencyNext == LogFlight \/ NextDay

CurrencySpec == CurrencyInit /\ [][CurrencyNext]_currencyVars

-----------------------------------------------------------------------------
\* Type invariant.
CurrencyTypeOK ==
  /\ \A f \in flights : f.date \in 0 .. LastDay + 1
  /\ today \in 1 .. LastDay
  /\ pilot \in Pilots

\* The dates shown with a current item are exact: without another flight it
\* stays current through that day and is not current on any later one
\* (RecencyExpiresOn, DayExpiresOn, NightExpiresOn, ExpiresOn).
PromisesKept ==
  /\ \A x \in DOMAIN promise.all.ratings :
       LET until == promise.all.ratings[x].until IN
       until # NoDate =>
         /\ today <= until /\ ~IsExpired(x[2], today) => told.all.ratings[x].status = "current"
         /\ today > until => told.all.ratings[x].status # "current"
  /\ \A k \in DOMAIN promise.all.passenger :
       LET p == promise.all.passenger[k]
           q == told.all.passenger[k] IN
       /\ p.dayUntil # NoDate => (q.day = "current" <=> today <= p.dayUntil)
       /\ p.nightUntil # NoDate => (q.night = "current" <=> today <= p.nightUntil)
  /\ promise.custom.until # NoDate =>
       (told.custom.status # "expired" <=> today <= promise.custom.until)

\* The day after the latest of the days before today on which met holds.
DayAfterLast(met) ==
  LET days == {d \in Floor .. today - 1 : met[d]}
  IN IF days = {} THEN NoDate ELSE Max(days) + 1

LapsedOn(lapse, met) == ~met[today] => lapse = DayAfterLast(met)

PassengersLapse(history) ==
  paxLapseDate(history, 3, "all", NoDate, today)
    = DayAfterLast([d \in Int |-> MapThenSumSet(LAMBDA e : history[e].all,
                                     {e \in DOMAIN history : e \in d - PaxWindowDays .. d}) >= 3])

\* Whether an evaluation on day d finds the custom rule met by the flights logged up to d, and
\* whether it does without those of the first day of its window.
CustomMetOn(d) == requirementsMet(evaluated({f \in flights : f.date <= d}, Custom, d), Custom)
CustomMetInside(d) ==
  requirementsMet(evaluated({f \in flights : f.date <= d /\ f.date # windowSince(d, Custom.window)}, Custom, d), Custom)

\* The day an item is said to have lapsed on is the day after the latest day
\* on which the flights logged up to that day sufficed, whatever search finds it.
\* A custom rule's is the day after the latest day that sufficed without the first
\* day of the window: on the day told an evaluation still finds the rule met.
LapseIsFirstDay ==
  /\ \A i \in DOMAIN pilot : \A r \in pilot[i].ratings :
       /\ RollingWindow(SelectRule(r, pilot[i])) > 0 =>
            LapsedOn(ratingLapseDate(flights, r, pilot[i], today),
                     [d \in Int |-> evalRatingRuleAt(flights, r, pilot[i], d, today, d) = "current"])
       /\ PassengersLapse(Landings(flights, r, pilot[i], Floor))
  /\ told.custom.status = "expired" =>
       /\ told.custom.lapsed = DayAfterLast([d \in Int |-> CustomMetInside(d)])
       /\ told.custom.lapsed # NoDate => told.custom.lapsed < today /\ CustomMetOn(told.custom.lapsed)

\* One more flight never takes a rating or a privilege away.
LoggingNeverWorsens ==
  [][flights' # flights =>
       /\ \A x \in DOMAIN told.all.ratings :
            told.all.ratings[x].status = "current" => told'.all.ratings[x].status = "current"
       /\ \A k \in DOMAIN told.all.passenger :
            told.all.passenger[k].day = "current" => told'.all.passenger[k].day = "current"]_currencyVars
=============================================================================
