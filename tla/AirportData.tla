---------------------------- MODULE AirportData ----------------------------
(***************************************************************************)
(* The airport database: internal/airports and the handlers of             *)
(* handlers/maps.go that read it.                                          *)
(*                                                                         *)
(* Two public files are fetched, parsed, merged into one record per ident, *)
(* indexed and swapped in as one immutable snapshot.  A reload in which    *)
(* both files fail, or whose result is less than half of the live one,     *)
(* leaves the live snapshot in place.  Readers load the pointer once per   *)
(* lookup, and reloads are serialised by a mutex.                          *)
(*                                                                         *)
(* A name is the sequence of its folded words; a code is an element of     *)
(* Order, the codes in alphabetical order.                                 *)
(***************************************************************************)
EXTENDS Integers, Sequences, FiniteSets, SequencesExt

CONSTANTS
    CsvRows,    \* the rows airports.csv may hold, no ident twice
    JsonRows,   \* the entries airports.json may hold
    Order,      \* every ident and local code, alphabetically
    FourLong,   \* the codes of four letters and digits
    Hyphenated, \* the longer idents with a hyphen ("US-0123")
    WithDigit,  \* the codes that hold a digit
    Generic,    \* the words that name no place ("airport")
    Upper,      \* a typed code -> what ToUpper(TrimSpace(...)) makes of it
    Matching,   \* a typed query -> the codes that start with it
    Limit       \* the most results of a search

VARIABLES
    current,    \* the live snapshot: [list, byName, byLocal]
    fetched     \* the reload under way: [oa, mw], the rows of each file

airportVars == <<current, fetched>>

\* The index entry of a key that several airports share.
ambiguousName == -1

\* Before the first load there is no snapshot; every reader answers as it
\* would for an empty one.
NotLoaded == [list |-> <<>>, byName |-> <<>>, byLocal |-> <<>>]

-----------------------------------------------------------------------------
(* Names.                                                                  *)

\* The part of a folded name before its generic words, when it has generic
\* words and at least two words before them; otherwise none.
shortNameKey(f) ==
    LET n == CHOOSE k \in 0 .. Len(f) :
                 /\ \A i \in k + 1 .. Len(f) : f[i] \in Generic
                 /\ k = 0 \/ f[k] \notin Generic
    IN  IF n < 2 \/ n = Len(f) THEN <<>> ELSE SubSeq(f, 1, n)

\* The keys under which newSnapshot files a name.
nameKeys(f) ==
    (IF Len(f) > 1 THEN {f} ELSE {}) \union ({shortNameKey(f)} \ {<<>>})

\* A query matches a name at the start of one of its words.
nameMatches(f, q) ==
    \E k \in 0 .. Len(f) - Len(q) : SubSeq(f, k + 1, k + Len(q)) = q

-----------------------------------------------------------------------------
(* The two sources.                                                        *)

validIdent(ident) == ident \in FourLong \union Hyphenated

\* A local code is kept when it has a digit and is not the ident itself.
localCode(code, ident) == IF code \in WithDigit /\ code # ident THEN code ELSE ""

\* The airports of the rows of airports.csv.  A row whose ident is not four
\* long goes by its four-letter GPS code when it has one, but only when no
\* other row claims that code.
fetchOurAirports(rows) ==
    LET byGPS(r)  == r.ident \notin FourLong /\ r.gps \in FourLong
        key(r)    == IF byGPS(r) THEN r.gps ELSE r.ident
        usable    == {r \in rows : validIdent(key(r)) /\ r.kind = "airport"
                                   /\ r.coords # "unparsable"}
        own       == {r \in usable : ~byGPS(r)}
        claimed   == {r \in usable :
                         /\ byGPS(r)
                         /\ \A o \in own : o.ident # key(r)
                         /\ \A q \in usable \ {r} : byGPS(q) => key(q) # key(r)}
    IN  [c \in {key(r) : r \in own \union claimed} |->
            LET r == CHOOSE r \in own \union claimed : key(r) = c
            IN  [icao |-> c, name |-> r.name, valid |-> r.coords = "ok",
                 local |-> localCode(r.local, c), filled |-> r.filled]]

\* The airports of airports.json, which carries no local codes.
fetchMWGG(rows) ==
    LET key(r) == IF r.icao = "" THEN r.key ELSE r.icao
        usable == {r \in rows : key(r) \in FourLong}
    IN  [c \in {key(r) : r \in usable} |->
            LET r == CHOOSE r \in usable : key(r) = c
            IN  [icao |-> c, name |-> r.name, valid |-> r.coords = "ok",
                 local |-> "", filled |-> r.filled]]

-----------------------------------------------------------------------------
(* The merge.                                                              *)

\* How complete a record is; -1 without usable coordinates.
score(a) ==
    IF ~a.valid THEN -1
    ELSE (IF a.name # <<>> THEN 4 ELSE 0)
         + 2 * Cardinality(a.filled \intersect {"country", "iata"})
         + Cardinality(a.filled \intersect {"city", "timezone", "elevation"})

\* The gaps of one record filled from the other, coordinates never.
fillGaps(base, other) ==
    [base EXCEPT !.name   = IF @ = <<>> THEN other.name ELSE @,
                 !.local  = IF @ = "" THEN other.local ELSE @,
                 !.filled = @ \union other.filled]

\* Mutant: OurAirports is always the base.
mergeOurs(oa, mw) ==
    LET both   == DOMAIN oa \intersect DOMAIN mw
        all    == [c \in DOMAIN oa \union DOMAIN mw |->
                      IF c \in both THEN fillGaps(oa[c], mw[c])
                      ELSE IF c \in DOMAIN oa THEN oa[c] ELSE mw[c]]
    IN  [c \in {c \in DOMAIN all : all[c].valid} |-> all[c]]

\* One record per ident: the more complete one, OurAirports on a tie, with
\* the other's data in its gaps; nothing without usable coordinates.
mergeSources(oa, mw) ==
    LET both   == DOMAIN oa \intersect DOMAIN mw
        pick(c) == IF score(mw[c]) > score(oa[c]) THEN fillGaps(mw[c], oa[c])
                                                  ELSE fillGaps(oa[c], mw[c])
        all    == [c \in DOMAIN oa \union DOMAIN mw |->
                      IF c \in both THEN pick(c)
                      ELSE IF c \in DOMAIN oa THEN oa[c] ELSE mw[c]]
    IN  [c \in {c \in DOMAIN all : all[c].valid} |-> all[c]]

-----------------------------------------------------------------------------
(* The snapshot.                                                           *)

\* Mutant: a third airport of the same name takes an ambiguous entry over.
addNameToggle(byName, key, i) ==
    IF key \in DOMAIN byName /\ byName[key] # ambiguousName /\ byName[key] # i
    THEN [byName EXCEPT ![key] = ambiguousName]
    ELSE [k \in DOMAIN byName \union {key} |-> IF k = key THEN i ELSE byName[k]]

\* A key filed for two airports leads to neither.
addName(byName, key, i) ==
    IF key \in DOMAIN byName /\ byName[key] # i
    THEN [byName EXCEPT ![key] = ambiguousName]
    ELSE [k \in DOMAIN byName \union {key} |-> IF k = key THEN i ELSE byName[k]]

\* Likewise for local codes.
addLocal(byLocal, a, i) ==
    IF a.local = "" THEN byLocal
    ELSE [k \in DOMAIN byLocal \union {a.local} |->
             IF k # a.local THEN byLocal[k]
             ELSE IF k \in DOMAIN byLocal THEN ambiguousName ELSE i]

\* The list by ident, and the indexes filled along it.
newSnapshot(records) ==
    LET list == [i \in 1 .. Cardinality(DOMAIN records) |->
                    records[SelectSeq(Order, LAMBDA c : c \in DOMAIN records)[i]]]
        names[i \in 0 .. Len(list)] ==
            IF i = 0 THEN <<>>
            ELSE FoldSet(LAMBDA k, m : addName(m, k, i), names[i - 1], nameKeys(list[i].name))
        locals[i \in 0 .. Len(list)] ==
            IF i = 0 THEN <<>> ELSE addLocal(locals[i - 1], list[i], i)
    IN  [list |-> list, byName |-> names[Len(list)], byLocal |-> locals[Len(list)]]

None == [icao |-> "", name |-> <<>>, valid |-> FALSE, local |-> "", filled |-> {}]

\* The airport of an ident.
lookup(s, icao) ==
    IF \E a \in ToSet(s.list) : a.icao = icao
    THEN CHOOSE a \in ToSet(s.list) : a.icao = icao ELSE None

\* The airport of an ident, else of a local code that is not ambiguous.
lookupCode(s, code) ==
    IF lookup(s, code) # None THEN lookup(s, code)
    ELSE IF code \in DOMAIN s.byLocal /\ s.byLocal[code] # ambiguousName
         THEN s.list[s.byLocal[code]] ELSE None

\* The airport of a name that is not ambiguous.
lookupName(s, name) ==
    IF name \in DOMAIN s.byName /\ s.byName[name] # ambiguousName
    THEN s.list[s.byName[name]] ELSE None

\* The idents that start with the query, alphabetically.
searchPrefix(s, query) ==
    SelectSeq(s.list, LAMBDA a : a.icao \in Matching[query])

\* Then the unambiguous local codes that do, where not yet among the results.
searchLocal(s, query, results) ==
    LET codes == SelectSeq(Order, LAMBDA c : /\ c \in Matching[query]
                                             /\ c \in DOMAIN s.byLocal
                                             /\ s.byLocal[c] # ambiguousName)
    IN  results \o SelectSeq([i \in 1 .. Len(codes) |-> s.list[s.byLocal[codes[i]]]],
                             LAMBDA a : a \notin ToSet(results))

\* Then the names with a word that does.
searchName(s, words, results) ==
    results \o SelectSeq(s.list, LAMBDA a : /\ a \notin ToSet(results)
                                            /\ words # <<>> /\ nameMatches(a.name, words))

\* The three in that order, as many as fit.
Search(s, query, words) ==
    LET found == searchName(s, words, searchLocal(s, query, searchPrefix(s, query)))
    IN  SubSeq(found, 1, IF Len(found) < Limit THEN Len(found) ELSE Limit)

-----------------------------------------------------------------------------
(* Actions.                                                                *)

Idle == [oa |-> {}, mw |-> {}]

\* StartRefresher's tick: both files are fetched side by side, and either may
\* fail (no rows) or come back short.
Fetch ==
    /\ fetched = Idle
    /\ \E oa \in SUBSET CsvRows, mw \in SUBSET JsonRows : fetched' = [oa |-> oa, mw |-> mw]
    /\ UNCHANGED current

\* Reload.  A source that yields no airport has failed; both failed, or a result
\* smaller than half of the live one, changes nothing.
Reload ==
    LET O == fetchOurAirports(fetched.oa)
        M == fetchMWGG(fetched.mw)
        next == newSnapshot(mergeSources(O, M))
    IN  /\ fetched # Idle /\ fetched' = Idle
        /\ current' = IF \/ DOMAIN O = {} /\ DOMAIN M = {}
                         \/ 2 * Len(next.list) < Len(current.list)
                      THEN current ELSE next

AirportInit == current = NotLoaded /\ fetched = Idle

AirportNext == Fetch \/ Reload

AirportSpec == AirportInit /\ [][AirportNext]_airportVars

-----------------------------------------------------------------------------
(* Properties.                                                             *)

\* A name leads to an airport exactly when that airport, and no other of the
\* snapshot, bears it, in full or without its generic words, however many
\* share it and in whatever order they are filed (index.go addName).
NamesFindTheOnlyOne ==
    LET bearers(k) == {a \in ToSet(current.list) : k \in nameKeys(a.name)}
        keys == UNION {nameKeys(a.name) : a \in ToSet(current.list)}
    IN  \A k \in keys : lookupName(current, k) = IF Cardinality(bearers(k)) = 1
                                                 THEN CHOOSE a \in bearers(k) : TRUE ELSE None

\* A typed code leads to the airport of that ident, else to the only airport
\* with that local code, else nowhere (index.go lookupCode).
CodesFindTheOwner ==
    \A typed \in DOMAIN Upper :
        LET found == lookupCode(current, Upper[typed])
            idents == {a \in ToSet(current.list) : a.icao = Upper[typed]}
            locals == {a \in ToSet(current.list) : a.local = Upper[typed]}
        IN  found = IF idents # {} THEN CHOOSE a \in idents : TRUE
                    ELSE IF Cardinality(locals) = 1 THEN CHOOSE a \in locals : TRUE ELSE None

\* A search never returns an airport twice, and an airport that matches by
\* its ident is never pushed out by one that matches otherwise (Search).
SearchIsOrdered ==
    \A q \in DOMAIN Matching, w \in {a.name : a \in ToSet(current.list)} \union {<<>>} :
        LET res == Search(current, q, w)
            byIdent(i) == res[i].icao \in Matching[q]
        IN  /\ \A i, j \in DOMAIN res : i # j => res[i].icao # res[j].icao
            /\ \A i, j \in DOMAIN res : byIdent(j) /\ i < j => byIdent(i)
            /\ (\E i \in DOMAIN res : ~byIdent(i)) =>
                   \A a \in ToSet(current.list) : a.icao \in Matching[q] => a \in ToSet(res)

\* A reload that changes the data loses nothing the files it fetched say: every
\* airport to which either gives usable coordinates is there, with a name, a
\* local code and every other field that either fills, whichever of the two
\* records is the base.  So an airport disappears only when neither file just
\* fetched has it (merge.go mergeSources, fillGaps).  That includes the airports
\* only the other file had when one of them fails: KnownAirportsKept.
NothingUsableLostStep ==
    current' # current =>
          LET O == fetchOurAirports(fetched.oa)
              M == fetchMWGG(fetched.mw)
              says(c) == {F[c] : F \in {F \in {O, M} : c \in DOMAIN F}}
          IN  /\ {a.icao : a \in ToSet(current'.list)} =
                    {c \in DOMAIN O \union DOMAIN M : \E r \in says(c) : r.valid}
              /\ \A a \in ToSet(current'.list) : \A r \in says(a.icao) :
                    /\ r.name # <<>> => a.name # <<>>
                    /\ r.local # "" => a.local = r.local
                    /\ r.filled \subseteq a.filled
NothingUsableLost == [][NothingUsableLostStep]_airportVars

\* What a reader may take from "the other one is used on its own" (Reload): the
\* failure of one file takes no airport away.  The snapshot is replaced by what
\* the other file has, as long as that is half of it, so it does not hold.
KnownAirportsKept ==
    [][fetched # Idle /\ (fetched.oa = {} \/ fetched.mw = {}) =>
          {a.icao : a \in ToSet(current.list)} \subseteq {a.icao : a \in ToSet(current'.list)}]_airportVars

=============================================================================
