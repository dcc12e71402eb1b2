---------------------------- MODULE FlightSearch ----------------------------
(***************************************************************************)
(* The search language of the logbook (internal/flightsearch): a query is  *)
(* parsed by recursive descent without a scanner, its conditions are       *)
(* checked against the types of their fields, and the tree is handed to    *)
(* the database as one condition, which evaluates it in three-valued       *)
(* logic.                                                                  *)
(*                                                                         *)
(* A query is a sequence of lexemes: punctuation, blanks and stretches of  *)
(* letters.  Letters that touch form one word, as in the code, so what a   *)
(* lexeme is depends on its neighbours.  The pilot types the query piece   *)
(* by piece; a piece carries its place in the documented grammar and a     *)
(* condition what the pilot means by it, independently of how either is    *)
(* parsed and compiled.                                                    *)
(***************************************************************************)
EXTENDS Integers, Sequences, FiniteSets, FiniteSetsExt, SequencesExt

CONSTANTS
    Pieces,         \* what the pilot may type next: [role, text, means]
    Saved,          \* queries kept in a report, from which he may start
    MaxPieces,      \* bound on the query
    Width,          \* bytes of a lexeme
    Fold,           \* a lexeme in lower case
    FieldOf,        \* tags and aliases -> [name, type]
    Number,         \* the lexemes that are numbers
    Tenths,         \* decimal numbers, in tenths
    Calendar,       \* dates as written -> <<y>>, <<y, m>> or <<y, m, d>>
    DaysPerMonth, MonthsPerYear,
    SearchedFlights,    \* the logbook: [columns, texts, many]
    NoValue,        \* a column without a value
    MaxQueryLength, MaxQueryTerms, MaxFreeTextTerms, MinFreeTextTermLen, MaxDurationHours

VARIABLES
    typed,          \* the pieces of the query
    tree            \* what Parse made of it

Blank == " "
Parens == {"(", ")"}
OpChars == {":", "=", "<", ">", "!"}
Quotes == {"\"", "'"}

-----------------------------------------------------------------------------
\* Reading lexemes.

FirstFrom(s, i, Found(_)) == LET J == {j \in i .. Len(s) : Found(s[j])}
                             IN IF J = {} THEN Len(s) + 1 ELSE Min(J)
at(s, i, l) == i <= Len(s) /\ s[i] = l
skipSpace(s, i) == FirstFrom(s, i, LAMBDA l : l # Blank)
readWord(s, i) == FirstFrom(s, i, LAMBDA l : l = Blank \/ l \in Parens \cup OpChars)
readValue(s, i) == FirstFrom(s, i, LAMBDA l : l = Blank \/ l \in Parens)
Bytes(v) == FoldFunction(LAMBDA l, n : Width[l] + n, 0, v)

matchKeywordAt(s, i, kw) == /\ i <= Len(s) /\ Fold[s[i]] = kw
                            /\ i = Len(s) \/ s[i + 1] = Blank \/ s[i + 1] \in Parens
\* A '-' negates only when a term is attached to it.
matchSymbolAt(s, i, sym) == /\ at(s, i, sym)
                            /\ sym = "-" => i < Len(s) /\ s[i + 1] # Blank

readOperator(s, i) ==
  CASE i < Len(s) /\ s[i] \in {">", "<", "!"} /\ s[i + 1] = "=" -> <<s[i], "=">>
    [] i <= Len(s) /\ s[i] \in {":", "=", ">", "<"} /\ ~(i < Len(s) /\ s[i] \in {">", "<"} /\ s[i + 1] = "=") -> <<s[i]>>
    [] OTHER -> <<>>

\* The quoted text after the quote at i: [end, text]; end is 0 without a closing quote.
RECURSIVE readQuoted(_, _, _, _)
readQuoted(s, i, quote, text) ==
  IF i > Len(s) THEN [end |-> 0, text |-> text]
  ELSE IF s[i] = "\\" /\ i < Len(s) THEN readQuoted(s, i + 2, quote, Append(text, s[i + 1]))
  ELSE IF s[i] = quote THEN [end |-> i + 1, text |-> text]
  ELSE readQuoted(s, i + 1, quote, Append(text, s[i]))

-----------------------------------------------------------------------------
\* The value of a condition, by the type of its field; Bad when it is refused.

Bad == [kind |-> "bad"]
Value(x) == [kind |-> "value", is |-> x]
Numeral(v) == Len(v) = 1 /\ v[1] \in DOMAIN Number

parseDurationMinutes(v) ==
  IF \E i \in DOMAIN v : v[i] = ":" THEN
     IF /\ Len(v) = 3 /\ v[2] = ":" /\ {v[1], v[3]} \subseteq DOMAIN Number
        /\ Number[v[1]] <= MaxDurationHours /\ Number[v[3]] <= 59 /\ Width[v[3]] = 2
     THEN Value(Number[v[1]] * 60 + Number[v[3]]) ELSE Bad
  ELSE IF Fold[Last(v)] = "h" THEN
     IF Len(v) = 2 /\ v[1] \in DOMAIN Tenths /\ Tenths[v[1]] <= MaxDurationHours * 10
     THEN Value((Tenths[v[1]] * 60 + 5) \div 10) ELSE Bad
  ELSE IF Numeral(v) /\ Number[v[1]] <= MaxDurationHours * 60 THEN Value(Number[v[1]]) ELSE Bad

parseBool(v) == CASE Len(v) = 1 /\ Fold[v[1]] \in {"true", "yes", "1"} -> Value(TRUE)
                  [] Len(v) = 1 /\ Fold[v[1]] \in {"false", "no", "0"} -> Value(FALSE)
                  [] OTHER -> Bad

\* The days [start, next) of a year, a month or a day.
DaysPerYear == DaysPerMonth * MonthsPerYear
parseDateRange(v) ==
  IF Len(v) # 1 \/ v[1] \notin DOMAIN Calendar THEN Bad
  ELSE LET d == Calendar[v[1]]
           start == d[1] * DaysPerYear + (IF Len(d) > 1 THEN (d[2] - 1) * DaysPerMonth ELSE 0)
                    + (IF Len(d) > 2 THEN d[3] - 1 ELSE 0)
       IN Value([start |-> start, next |-> start + <<DaysPerYear, DaysPerMonth, 1>>[Len(d)]])

\* HH:MM or HH:MM:SS, in seconds.
parseClock(v) ==
  LET parts == SelectSeq(v, LAMBDA l : l # ":")
  IN IF /\ \/ Len(v) = 3 /\ v[2] = ":"
           \/ Len(v) = 5 /\ v[2] = ":" /\ v[4] = ":"
        /\ Len(parts) = (Len(v) + 1) \div 2 /\ Range(parts) \subseteq DOMAIN Number
        /\ Number[parts[1]] < 24 /\ Width[parts[1]] <= 2
        /\ \A i \in 2 .. Len(parts) : Number[parts[i]] < 60 /\ Width[parts[i]] = 2
     THEN Value(Number[parts[1]] * 3600 + Number[parts[2]] * 60 + (IF Len(v) = 5 THEN Number[parts[3]] ELSE 0))
     ELSE Bad

Convert(type, v) == CASE type \in {"text", "many"} -> Value(v)
                      [] type = "duration" -> parseDurationMinutes(v)
                      [] type = "number" -> IF Len(v) = 1 /\ v[1] \in DOMAIN Tenths THEN Value(Tenths[v[1]]) ELSE Bad
                      [] type = "int" -> IF Numeral(v) THEN Value(Number[v[1]]) ELSE Bad
                      [] type \in {"bool", "signed"} -> parseBool(v)
                      [] type = "date" -> parseDateRange(v)
                      [] type = "clock" -> parseClock(v)

Operators(type) == CASE type \in {"text", "many", "bool", "signed"} -> {<<":">>, <<"=">>, <<"!", "=">>}
                     [] OTHER -> {<<":">>, <<"=">>, <<"!", "=">>, <<">">>, <<">", "=">>, <<"<">>, <<"<", "=">>}

-----------------------------------------------------------------------------
\* The tree.  A parse step returns a node, the place after it and the terms so far.

Nil == [kind |-> "nil"]
Failed == [node |-> Bad, pos |-> 0, terms |-> 0, free |-> 0]
Sound(r) == r.node.kind # "bad"
Result(node, pos, r) == [r EXCEPT !.node = node, !.pos = pos]

leafOf(field, op, value) ==
  IF value = Bad \/ op \notin Operators(field.type) THEN Bad
  ELSE [kind |-> "leaf", field |-> field, op |-> op, value |-> value.is]
newFieldLeaf(field, op, v) == leafOf(field, op, Convert(field.type, v))
withLeaf(leaf, end, r) == IF leaf = Bad THEN Failed ELSE Result(leaf, end, r)

freeTextCondition(text, end, r) ==
  IF r.free + 1 > MaxFreeTextTerms \/ Bytes(text) < MinFreeTextTermLen THEN Failed
  ELSE Result([kind |-> "text", value |-> text], end, [r EXCEPT !.free = @ + 1])
quotedCondition(quoted, r) == IF quoted.end = 0 THEN Failed ELSE freeTextCondition(quoted.text, quoted.end, r)

quotedAt(s, i) == IF i <= Len(s) /\ s[i] \in Quotes THEN {s[i]} ELSE {}

conditionValue(s, i) ==
  IF quotedAt(s, i) # {} THEN readQuoted(s, i + 1, s[i], <<>>)
  ELSE [end |-> readValue(s, i), text |-> SubSeq(s, i, readValue(s, i) - 1)]

\* tag OP value
fieldCondition(word, op, value, r) ==
  IF Len(word) # 1 \/ word[1] \notin DOMAIN FieldOf \/ value.end = 0 \/ value.text = <<>> THEN Failed
  ELSE withLeaf(newFieldLeaf(FieldOf[word[1]], op, value.text), value.end, r)

wordCondition(s, word, w, op, r) ==
  CASE word = <<>> -> Failed
    [] word # <<>> /\ op = <<>> -> freeTextCondition(word, w, r)
    [] OTHER -> fieldCondition(word, op, conditionValue(s, w + Len(op)), r)

parseCondition(s, i, r) ==
  CASE r.terms > MaxQueryTerms -> Failed
    [] r.terms <= MaxQueryTerms /\ quotedAt(s, i) # {} -> quotedCondition(conditionValue(s, i), r)
    [] OTHER -> wordCondition(s, SubSeq(s, i, readWord(s, i) - 1), readWord(s, i), readOperator(s, readWord(s, i)), r)

Joined(kind, nodes) == IF Len(nodes) = 1 THEN nodes[1] ELSE [kind |-> kind, children |-> nodes]

Missing(r) == r.node.kind \in {"bad", "nil"}
From(r, i) == [r EXCEPT !.pos = i]

negation(negated) == IF Missing(negated) THEN Failed ELSE Result([kind |-> "not", child |-> negated.node], negated.pos, negated)
group(s, inner) ==
  LET close == skipSpace(s, inner.pos)
  IN IF Missing(inner) \/ ~at(s, close, ")") THEN Failed ELSE Result(inner.node, close + 1, inner)

RECURSIVE parseOr(_, _), orRest(_, _, _), parseAnd(_, _), andRest(_, _, _), parseUnary(_, _)

unaryAt(s, i, r) ==
  IF matchKeywordAt(s, i, "not") \/ matchSymbolAt(s, i, "-") THEN negation(parseUnary(s, From(r, i + 1)))
  ELSE IF at(s, i, "(") THEN group(s, parseOr(s, From(r, i + 1)))
  ELSE IF i > Len(s) \/ at(s, i, ")") THEN Result(Nil, i, r)
  ELSE parseCondition(s, i, [r EXCEPT !.terms = @ + 1])
parseUnary(s, r) == unaryAt(s, skipSpace(s, r.pos), r)

\* Adjacency is an AND; an OR binds looser and is left to parseOr.
afterAnd(s, nodes, explicit, next) ==
  IF ~Sound(next) \/ (explicit /\ next.node = Nil) THEN Failed
  ELSE IF next.node = Nil THEN Result(Joined("and", nodes), next.pos, next)
  ELSE andRest(s, Append(nodes, next.node), next)
andAt(s, nodes, i, explicit, r) ==
  IF ~explicit /\ matchKeywordAt(s, i, "or") THEN Result(Joined("and", nodes), i, r)
  ELSE afterAnd(s, nodes, explicit, parseUnary(s, From(r, IF explicit THEN i + 1 ELSE i)))
explicitAnd(s, i) == matchKeywordAt(s, i, "and") \/ matchSymbolAt(s, i, "&&")
andRest(s, nodes, r) == andAt(s, nodes, skipSpace(s, r.pos), explicitAnd(s, skipSpace(s, r.pos)), r)

firstOfAnd(s, first) == IF Missing(first) THEN first ELSE andRest(s, <<first.node>>, first)
parseAnd(s, r) == firstOfAnd(s, parseUnary(s, r))

afterOr(s, nodes, next) == IF Missing(next) THEN Failed ELSE orRest(s, Append(nodes, next.node), next)
orRest(s, nodes, r) ==
  LET i == skipSpace(s, r.pos)
  IN IF ~(matchKeywordAt(s, i, "or") \/ matchSymbolAt(s, i, "||")) THEN Result(Joined("or", nodes), i, r)
     ELSE afterOr(s, nodes, parseAnd(s, From(r, i + 1)))

firstOfOr(s, first) == IF Missing(first) THEN first ELSE orRest(s, <<first.node>>, first)
parseOr(s, r) == firstOfOr(s, parseAnd(s, r))

\* The tree of a query, or Bad.
complete(s, r) == IF ~Sound(r) \/ r.node = Nil \/ skipSpace(s, r.pos) <= Len(s) THEN Bad ELSE r.node
Parse(s) ==
  IF Bytes(s) > MaxQueryLength THEN Bad
  ELSE complete(s, parseOr(s, [node |-> Nil, pos |-> 1, terms |-> 0, free |-> 0]))

-----------------------------------------------------------------------------
\* The compiled condition, as the database evaluates it: 2 true, 1 unknown, 0 false.

Truth(b) == IF b THEN 2 ELSE 0
Negation(t) == 2 - t

\* ILIKE, in which '*' was translated to '%', any text.
RECURSIVE Like(_, _)
Like(text, v) ==
  IF v = <<>> THEN TRUE
  ELSE IF v[1] = "*" THEN \E i \in 1 .. Len(text) + 1 : Like(SubSeq(text, i, Len(text)), Tail(v))
  ELSE text # <<>> /\ Fold[text[1]] = Fold[v[1]] /\ Like(Tail(text), Tail(v))
Occurs(text, v) == \E i \in 1 .. Len(text) + 1 : Like(SubSeq(text, i, Len(text)), v)
Equal(text, v) == [i \in DOMAIN text |-> Fold[text[i]]] = [i \in DOMAIN v |-> Fold[v[i]]]

newTextLeaf(text, op, v) == CASE op = <<":">> -> Occurs(text, v)
                              [] op = <<"=">> -> Equal(text, v)
                              [] op = <<"!", "=">> -> ~Equal(text, v)

newCompareLeaf(x, op, n) == CASE op \in {<<":">>, <<"=">>} -> x = n
                              [] op = <<"!", "=">> -> x # n
                              [] op = <<">">> -> x > n
                              [] op = <<">", "=">> -> x >= n
                              [] op = <<"<">> -> x < n
                              [] op = <<"<", "=">> -> x <= n

newDateLeaf(x, op, d) == CASE op \in {<<":">>, <<"=">>} -> x >= d.start /\ x < d.next
                           [] op = <<"!", "=">> -> x < d.start \/ x >= d.next
                           [] op = <<">">> -> x >= d.next
                           [] op = <<">", "=">> -> x >= d.start
                           [] op = <<"<">> -> x < d.start
                           [] op = <<"<", "=">> -> x < d.next

newBoolLeaf(x, op, b) == x = (IF op = <<"!", "=">> THEN ~b ELSE b)

\* Crew members and approaches: one of them meets the condition (newCrewLeaf,
\* newApproachTypeLeaf).
evalLeaf(f, field, op, v) ==
  CASE field.type = "many" -> Truth(\E text \in f.many[field.name] : newTextLeaf(text, op, v))
    [] field.type = "text" -> Truth(newTextLeaf(f.texts[field.name], op, v))
    [] field.type = "signed" -> Truth(newBoolLeaf(f.columns.signed, op, v))
    [] OTHER ->
       LET x == f.columns[field.name]
       IN IF x = NoValue THEN 1
          ELSE Truth(CASE field.type = "bool" -> newBoolLeaf(x, op, v)
                       [] field.type = "date" -> newDateLeaf(x, op, v)
                       [] OTHER -> newCompareLeaf(x, op, v))

newFreeTextLeaf(f, v) == Truth(\/ \E c \in DOMAIN f.texts : Occurs(f.texts[c], v)
                               \/ \E name \in f.many.crew : Occurs(name, v))

RECURSIVE Compile(_, _)
Compile(n, f) ==
  CASE n.kind = "and" -> Min({Compile(n.children[i], f) : i \in DOMAIN n.children})
    [] n.kind = "or" -> Max({Compile(n.children[i], f) : i \in DOMAIN n.children})
    [] n.kind = "not" -> Negation(Compile(n.child, f))
    [] n.kind = "leaf" -> evalLeaf(f, n.field, n.op, n.value)
    [] n.kind = "text" -> newFreeTextLeaf(f, n.value)

-----------------------------------------------------------------------------
\* The pilot types.

Query(pieces) == FlattenSeq([i \in DOMAIN pieces |-> pieces[i].text])

searchVars == <<typed, tree>>
SearchInit == typed \in Saved \cup {<<>>} /\ tree = Parse(Query(typed))
Type(piece) == /\ Len(typed) < MaxPieces
               /\ typed' = Append(typed, piece) /\ tree' = Parse(Query(typed'))
SearchNext == \E piece \in Pieces : Type(piece)

-----------------------------------------------------------------------------
\* The documented grammar, read top down: an OR outside of parentheses divides a
\* query, then an AND, then two neighbours, then NOT, then the parentheses.

IllFormed == 0 - 1
Nothing == [tag |-> "?"]        \* a condition that means nothing
Roles(P, R) == {i \in DOMAIN P : P[i].role \in R}
Depth(P, i) == Cardinality({j \in Roles(P, {"open"}) : j < i}) - Cardinality({j \in Roles(P, {"close"}) : j < i})
Outside(P, R) == {i \in Roles(P, R) : Depth(P, i) = 0}
Neighbours(P) == {i \in 2 .. Len(P) : /\ P[i - 1].role \in {"condition", "close"} /\ Depth(P, i) = 0
                                      /\ P[i].role \in {"condition", "open", "not"}}
Combine(a, b, t) == IF a = IllFormed \/ b = IllFormed THEN IllFormed ELSE t

Both(a, b) == Combine(a, b, Min({a, b}))
Either(a, b) == Combine(a, b, Max({a, b}))
Opposite(t) == IF t = IllFormed THEN t ELSE Negation(t)
Before(P, i) == SubSeq(P, 1, i - 1)
After(P, i) == SubSeq(P, i + 1, Len(P))

\* What a condition says of a flight, from the description of the types of the
\* fields (fields.go): m is [tag, rel, value].  The value of a number, a time or
\* a date is the interval it stands for, that of a text its pieces between the
\* wildcards, that of a Boolean ("truly") the truth asked for.
SameText(a, b) == Len(a) = Len(b) /\ \A i \in DOMAIN a : Fold[a[i]] = Fold[b[i]]
Holds(text, parts) ==
  \E place \in [DOMAIN parts -> DOMAIN text] :
    \A k \in DOMAIN parts :
      /\ place[k] + Len(parts[k]) - 1 <= Len(text)
      /\ SameText(SubSeq(text, place[k], place[k] + Len(parts[k]) - 1), parts[k])
      /\ k > 1 => place[k] >= place[k - 1] + Len(parts[k - 1])
SaysOfText(text, m) == CASE m.rel = "contains" -> Holds(text, m.value)
                         [] m.rel = "is" -> SameText(text, m.value[1])
                         [] m.rel = "differs" -> ~SameText(text, m.value[1])
SaysOfValue(x, m) == CASE m.rel = "is" -> m.value.from <= x /\ x <= m.value.to
                       [] m.rel = "differs" -> x < m.value.from \/ m.value.to < x
                       [] m.rel = "before" -> x < m.value.from
                       [] m.rel = "upto" -> x <= m.value.to
                       [] m.rel = "after" -> m.value.to < x
                       [] m.rel = "since" -> m.value.from <= x
Describes(m, f) ==
  CASE m.tag = "" -> Truth(\E text \in f.many.crew \cup {f.texts[c] : c \in DOMAIN f.texts} : Holds(text, m.value))
    [] m.tag \in DOMAIN f.texts -> Truth(SaysOfText(f.texts[m.tag], m))
    [] m.tag \in DOMAIN f.many ->
         Truth(IF m.rel = "differs" THEN \A text \in f.many[m.tag] : SaysOfText(text, m)
               ELSE \E text \in f.many[m.tag] : SaysOfText(text, m))
    [] m.rel = "truly" -> Truth(f.columns[m.tag] = m.value)
    [] OTHER -> IF f.columns[m.tag] = NoValue THEN 1 ELSE Truth(SaysOfValue(f.columns[m.tag], m))

RECURSIVE Meaning(_, _)
Meaning(P, f) ==
  LET or == Outside(P, {"or"})
      and == Outside(P, {"and"})
      next == Neighbours(P)
  IN IF P = <<>> THEN IllFormed
     ELSE IF or # {} THEN Either(Meaning(Before(P, Min(or)), f), Meaning(After(P, Min(or)), f))
     ELSE IF and # {} THEN Both(Meaning(Before(P, Min(and)), f), Meaning(After(P, Min(and)), f))
     ELSE IF next # {} THEN Both(Meaning(Before(P, Min(next)), f), Meaning(After(P, Min(next) - 1), f))
     ELSE CASE P[1].role = "not" -> Opposite(Meaning(Tail(P), f))
            [] P[1].role = "open" /\ Last(P).role = "close" -> Meaning(SubSeq(P, 2, Len(P) - 1), f)
            [] Len(P) = 1 /\ P[1].role = "condition" -> IF P[1].means = Nothing THEN IllFormed ELSE Describes(P[1].means, f)
            [] OTHER -> IllFormed

WithinLimits == /\ Cardinality(Roles(typed, {"condition"})) <= MaxQueryTerms
                /\ Cardinality({i \in Roles(typed, {"condition"}) : typed[i].means.tag = ""}) <= MaxFreeTextTerms
                /\ Bytes(Query(typed)) <= MaxQueryLength

\* A condition that a crew or an approach differs from a text.
DiffersOfMany(P) == \E i \in Roles(P, {"condition"}) : /\ P[i].means # Nothing /\ P[i].means.rel = "differs"
                                                      /\ \E f \in SearchedFlights : P[i].means.tag \in DOMAIN f.many

\* Every query of the documented grammar (api-spec/openapi.yaml, parameter q) that
\* stays within the limits is accepted and selects the flights it describes: a
\* condition is read and compiled to what the type of its field is said to mean
\* (fields.go), and the recursive descent gives OR, AND, adjacency, NOT, '-' and
\* parentheses the documented binding, whichever way they are nested.  Queries
\* with != on a crew or an approach type are left out: see NotEqualIsNegation.
QueriesMeanWhatTheySay ==
  ~DiffersOfMany(typed) => \A f \in SearchedFlights :
    LET t == Meaning(typed, f)
    IN t # IllFormed /\ WithinLimits => tree # Bad /\ Compile(tree, f) = t

\* The same with !=, which fields.go calls the negation of =.  newCrewLeaf and
\* newApproachTypeLeaf break it: crew!=x selects a flight with some member other
\* than x, x on board or not, and no flight without a crew.
NotEqualIsNegation ==
  \A f \in SearchedFlights :
    LET t == Meaning(typed, f)
    IN t # IllFormed /\ WithinLimits => tree # Bad /\ Compile(tree, f) = t

RECURSIVE Leaves(_)
Leaves(n) == CASE n.kind \in {"and", "or"} -> UNION {Leaves(n.children[i]) : i \in DOMAIN n.children}
               [] n.kind = "not" -> Leaves(n.child)
               [] OTHER -> {n}

\* And nothing else is accepted, except that a connective where a condition is due,
\* or grown together with a word, is text to search for: parseCondition looks only
\* at what it finds there.
NothingElseAccepted ==
  tree # Bad => \/ \A f \in SearchedFlights : Meaning(typed, f) # IllFormed
                \/ \E n \in Leaves(tree) : n.kind = "text" /\ \E i \in DOMAIN n.value : Fold[n.value[i]] \in {"and", "or", "not", "&&", "-"}

\* A partial date or a number divides the flights that have the column: each is
\* before, within or after it, <= and >= add the middle, and != is the rest.
RangesPartition ==
  tree # Bad =>
    \A n \in Leaves(tree), f \in SearchedFlights :
      n.kind = "leaf" /\ n.field.type \in {"date", "duration", "int", "number", "clock"} /\ f.columns[n.field.name] # NoValue =>
        LET is(op) == evalLeaf(f, n.field, op, n.value) = 2
        IN /\ Cardinality({op \in {<<"<">>, <<":">>, <<">">>} : is(op)}) = 1
           /\ is(<<"<", "=">>) = (is(<<"<">>) \/ is(<<":">>))
           /\ is(<<">", "=">>) = (is(<<">">>) \/ is(<<":">>))
           /\ is(<<"!", "=">>) = ~is(<<":">>)

\* A query and its negation leave out only flights without a value in a column asked
\* for: text columns are wrapped in COALESCE, a crew is searched by EXISTS.
NegationPartitions ==
  tree # Bad => \A f \in SearchedFlights :
    Compile(tree, f) = 1 => \E n \in Leaves(tree) : /\ n.kind = "leaf" /\ n.field.type \notin {"text", "many", "signed"}
                                                     /\ f.columns[n.field.name] = NoValue

=============================================================================
