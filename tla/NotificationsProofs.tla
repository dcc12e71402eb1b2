------------------------ MODULE NotificationsProofs ------------------------
(***************************************************************************)
(* One mail per notice, claims that stand for mails, and the order of the  *)
(* warnings, for every set of streams, checkers and warning days.          *)
(* The last part is about the reaper of unverified accounts: its stamps    *)
(* stand for mails, and only abandoned accounts are deleted.               *)
(***************************************************************************)
EXTENDS Notifications, UnverifiedAccounts, WellFoundedInduction, TLAPS

Delivering(c) == pc[c] \in {"skip", "look", "claim", "send", "release"}
Holding(c)    == pc[c] \in {"send", "release"}

\* The key of threshold w for the same stream and date.
At(k, w) == [stream |-> k.stream, days |-> w, date |-> k.date]

\* A checker that delivers has a notice; a warning lists its thresholds.
NotesInOrder ==
    \A c \in Checkers : Delivering(c) =>
        /\ note[c] \in Notes
        /\ pc[c] = "skip" => note[c].farther # {}
        /\ pc[c] # "skip" => note[c].farther = {}
        /\ kind[note[c].stream] = "revalidation" => note[c].days = 0
        /\ ~note[c].lapse /\ kind[note[c].stream] # "revalidation"
             => note[c].days \in WarningDays

\* A key is either claimed or skipped.
RowsDistinct == claims \cap skips = {}

\* The holder of a claim owns its row, alone, and its mail is not out, unless
\* in doubt.
Holders ==
    /\ \A c \in Checkers : Holding(c) =>
         /\ Key(note[c]) \in claims
         /\ Key(note[c]) \in mailed => Key(note[c]) \in doubted
    /\ \A c, d \in Checkers : Holding(c) /\ Holding(d) /\ Key(note[c]) = Key(note[d])
         => c = d

\* What was mailed is claimed, unless its claim was released, which happens
\* to mails in doubt only.
MailsClaimed ==
    /\ mailed \subseteq claims \cup doubted
    /\ mailed \subseteq claims \cup released

\* Every claim is accounted for.
ClaimsAccounted ==
    \A k \in claims :
        \/ k \in mailed \cup lost
        \/ \E c \in Checkers : Holding(c) /\ Key(note[c]) = k

\* Unchanged warning days are the ones every copy has.
SameDays ==
    ~newDays => /\ prefs.days = WarningDays
                /\ \A c \in Checkers : copy[c].days = WarningDays

\* The farther thresholds of a warning that is being delivered are still to be
\* skipped, or on record.
FartherSkipped ==
    ~newDays => \A c \in Checkers :
        Delivering(c) /\ ~note[c].lapse /\ kind[note[c].stream] # "revalidation" =>
            \A w \in WarningDays : w > note[c].days =>
                \/ w \in note[c].farther
                \/ At(Key(note[c]), w) \in Rows \cup released

\* And so are those of a warning that was claimed.
WarnedSkipped ==
    ~newDays => \A q \in warned : kind[q.stream] # "revalidation" =>
        \A w \in WarningDays : w > q.days => At(q, w) \in Rows \cup released

IInv == /\ TypeOK /\ NotesInOrder /\ RowsDistinct /\ Holders /\ MailsClaimed
        /\ ClaimsAccounted /\ MailedOnce /\ SameDays /\ FartherSkipped /\ WarnedSkipped

-----------------------------------------------------------------------------

\* A set of thresholds that is not empty has a least one, as crossedThresholds
\* and sendWarning take it.
LEMMA MinIsLeast ==
    ASSUME NEW S \in SUBSET Nat, S # {}
    PROVE  Min(S) \in S /\ \A y \in S : Min(S) <= y
<1>1. \E x \in S : \A y \in S : ~(<<y, x>> \in OpToRel(<, Nat))
  BY WFMin, NatLessThanWellFounded
<1>2. \E x \in S : \A y \in S : x <= y
  <2>1. PICK x \in S : \A y \in S : ~(<<y, x>> \in OpToRel(<, Nat))
    BY <1>1
  <2>2. \A y \in S : ~(y < x)
    BY <2>1 DEF OpToRel
  <2> QED BY <2>2
<1> QED BY <1>2 DEF Min

\* The empty notice is not a notice.
LEMMA NoNoteIsNone == NoNote \notin Notes
BY NotificationsAssumption DEF NoNote, Notes

\* What sendWarning is asked for: the nearest crossed threshold, and with it
\* every farther one.
LEMMA WarningFacts ==
    ASSUME NEW i \in Streams, NEW days \in SUBSET WarningDays, NEW date \in Nat,
           today \in Nat, Warning(i, days, date) # NoNote
    PROVE  LET n == Warning(i, days, date)
           IN  /\ n \in Notes /\ n.stream = i /\ ~n.lapse
               /\ n.days \in days
               /\ \A w \in days : w > n.days => w \in n.farther
<1> DEFINE crossed == {w \in days : w >= date - today}
<1>1. crossed # {}
  BY DEF Warning
<1>2. crossed \in SUBSET Nat
  BY NotificationsAssumption
<1>3. Min(crossed) \in crossed
  BY <1>1, <1>2, MinIsLeast
<1>4. Warning(i, days, date) =
        [stream |-> i, days |-> Min(crossed), date |-> date, lapse |-> FALSE,
         farther |-> crossed \ {Min(crossed)}]
  BY DEF Warning
<1>5. \A w \in days : w > Min(crossed) => w \in crossed \ {Min(crossed)}
  <2> DEFINE least == Min(crossed)
  <2>1. least \in Nat /\ least >= date - today
    BY <1>2, <1>3
  <2> HIDE DEF least
  <2>2. \A w \in days : w \in Nat /\ (w > least => w >= date - today /\ w # least)
    BY <2>1, NotificationsAssumption
  <2> QED BY <2>2 DEF least
<1> HIDE DEF crossed
<1>6. Min(crossed) \in days /\ crossed \subseteq WarningDays /\ Min(crossed) \in Nat
  BY <1>3, NotificationsAssumption DEF crossed
<1> QED BY <1>4, <1>5, <1>6 DEF Notes

\* A notice for stream i: a lapse and a revalidation have no thresholds, a
\* warning has the nearest crossed one and lists all farther ones.
WellFormed(n, i, days) ==
    /\ n \in Notes /\ n.stream = i
    /\ n.lapse => n.farther = {}
    /\ kind[i] = "revalidation" => n.days = 0 /\ n.farther = {}
    /\ ~n.lapse /\ kind[i] # "revalidation" =>
         /\ n.days \in days
         /\ \A w \in days : w > n.days => w \in n.farther

\* What an evaluation may find.
LEMMA NoticeFacts ==
    ASSUME TypeOK, NEW i \in Streams, NEW days \in SUBSET WarningDays,
           NEW unknown \in BOOLEAN, NoticeOf(i, days, unknown) # NoNote
    PROVE  WellFormed(NoticeOf(i, days, unknown), i, days)
<1> DEFINE n == NoticeOf(i, days, unknown)
<1>1. /\ fact[i].expires \in Nat /\ LapsedOn(i) \in Nat /\ today \in Nat
      /\ kind[i] \in Kinds
  BY NotificationsAssumption DEF TypeOK, FactSet, Dates, NoDate, NotRolling, LapsedOn
<1>2. CASE \E date \in Nat : n = Lapse(i, date)
  BY <1>2, NotificationsAssumption DEF Lapse, Notes, WellFormed
<1>3. CASE kind[i] = "revalidation" /\ \E date \in Nat : n = Keyed(i, date)
  BY <1>3, NotificationsAssumption DEF Keyed, Notes, WellFormed
<1>4. CASE kind[i] # "revalidation" /\ \E date \in Nat : n = Warning(i, days, date)
  <2>1. PICK date \in Nat : n = Warning(i, days, date)
    BY <1>4
  <2> QED BY <1>1, <1>4, <2>1, WarningFacts DEF WellFormed
<1>5. \/ \E date \in Nat : n = Lapse(i, date)
      \/ kind[i] = "revalidation" /\ \E date \in Nat : n = Keyed(i, date)
      \/ kind[i] # "revalidation" /\ \E date \in Nat : n = Warning(i, days, date)
  <2>1. NoDate \in Nat
    BY DEF NoDate
  <2>2. CASE kind[i] = "credential"
    BY <1>1, <2>2 DEF NoticeOf
  <2>3. CASE kind[i] = "rating"
    BY <1>1, <2>3 DEF NoticeOf
  <2>4. CASE kind[i] = "revalidation"
    BY <1>1, <2>4 DEF NoticeOf
  <2>5. CASE kind[i] = "passenger"
    BY <1>1, <2>5 DEF NoticeOf
  <2>6. CASE kind[i] = "review"
    BY <1>1, <2>1, <2>6 DEF NoticeOf
  <2>7. CASE kind[i] = "custom"
    BY <1>1, <2>7 DEF NoticeOf
  <2> QED BY <1>1, <2>2, <2>3, <2>4, <2>5, <2>6, <2>7 DEF Kinds
<1> QED BY <1>2, <1>3, <1>4, <1>5

-----------------------------------------------------------------------------
(* Frames: what a step of checker c leaves alone.                          *)

\* The other checkers stay where they are.
Others(c) == \A d \in Checkers : d # c => pc'[d] = pc[d] /\ note'[d] = note[d]

\* The part of the type invariant about the checkers.
ProcTypes ==
    /\ pc \in [Checkers -> Labels]
    /\ copy \in [Checkers -> Prefs]
    /\ left \in [Checkers -> SUBSET Streams]
    /\ note \in [Checkers -> Notes \cup {NoNote}]

\* What the log and the mails have to agree on.
Books == RowsDistinct /\ Holders /\ MailsClaimed /\ ClaimsAccounted /\ MailedOnce

\* What the warnings have to agree on.
Plans == NotesInOrder /\ FartherSkipped /\ WarnedSkipped

\* The key of a notice.
LEMMA KeyIsKey ==
    ASSUME NEW n \in Notes
    PROVE  Key(n) \in Keys
BY DEF Notes, Key, Keys

\* The default preferences.
LEMMA DefaultIsPrefs == Default \in Prefs
BY DEF Default, Prefs

\* A checker that proceeds delivers nothing.
LEMMA ProceedFacts ==
    ASSUME TypeOK, NEW c \in Checkers, NEW rest \in SUBSET Streams, Proceed(c, rest)
    PROVE  /\ ProcTypes' /\ Others(c) /\ ~Delivering(c)' /\ ~Holding(c)'
           /\ \A d \in Checkers : copy'[d] = copy[d] \/ copy'[d] = Default
<1>1. pc' \in [Checkers -> Labels] /\ pc'[c] \in {"idle", "pick"}
  BY DEF TypeOK, Proceed, Goto, Labels
<1>2. left' \in [Checkers -> SUBSET Streams]
  BY DEF TypeOK, Proceed
<1>3. note' \in [Checkers -> Notes \cup {NoNote}]
  BY DEF TypeOK, Proceed
<1>4. copy' \in [Checkers -> Prefs]
  BY DefaultIsPrefs DEF TypeOK, Proceed
<1>5. Others(c)
  BY DEF TypeOK, Proceed, Goto, Others
<1>6. \A d \in Checkers : copy'[d] = copy[d] \/ copy'[d] = Default
  BY DEF TypeOK, Proceed
<1> QED BY <1>1, <1>2, <1>3, <1>4, <1>5, <1>6 DEF ProcTypes, Delivering, Holding

\* The plans survive a checker that ends its delivery, as long as no key is
\* forgotten.
LEMMA PlansKept ==
    ASSUME Plans, NEW c \in Checkers, Others(c), ~Delivering(c)',
           kind' = kind, warned' = warned, newDays => newDays',
           Rows \cup released \subseteq Rows' \cup released'
    PROVE  Plans'
<1>1. NotesInOrder'
  BY DEF Plans, NotesInOrder, Others, Delivering
<1>2. FartherSkipped'
  BY DEF Plans, FartherSkipped, Others, Delivering, Key
<1>3. WarnedSkipped'
  BY DEF Plans, WarnedSkipped
<1> QED BY <1>1, <1>2, <1>3 DEF Plans

\* The books survive a checker that holds no claim, before or after.
LEMMA BooksKept ==
    ASSUME Books, NEW c \in Checkers, Others(c), ~Holding(c), ~Holding(c)',
           claims' = claims, skips' = skips, mailed' = mailed, again' = again,
           doubted' = doubted, released' = released, lost' = lost
    PROVE  Books'
<1>1. RowsDistinct' /\ MailsClaimed' /\ MailedOnce'
  BY DEF Books, RowsDistinct, MailsClaimed, MailedOnce
<1>2. Holders'
  BY DEF Books, Holders, Others, Holding
<1>3. ClaimsAccounted'
  BY DEF Books, ClaimsAccounted, Others, Holding
<1> QED BY <1>1, <1>2, <1>3 DEF Books

\* The copies keep the days while the preferences do.
LEMMA DaysKept ==
    ASSUME SameDays, newDays' = newDays, prefs' = prefs,
           \A d \in Checkers : copy'[d] \in {copy[d], prefs, Default}
    PROVE  SameDays'
BY DEF SameDays, Default

-----------------------------------------------------------------------------
(* One lemma per action.                                                   *)

\* StartCheck preserves the invariant.
LEMMA StartCheckStep ==
    ASSUME IInv, NEW c \in Checkers, StartCheck(c)
    PROVE  IInv'
<1> USE DEF world, log, hist
<1>1. TypeOK /\ Books /\ Plans /\ SameDays
  BY DEF IInv, Books, Plans
<1>2. Others(c) /\ ~Delivering(c)' /\ ~Holding(c)' /\ ~Holding(c)
  BY <1>1 DEF TypeOK, StartCheck, Goto, Others, Delivering, Holding
<1>3. \A d \in Checkers : copy'[d] \in {copy[d], prefs, Default}
  BY <1>1 DEF TypeOK, StartCheck
<1>4. TypeOK'
  BY <1>1 DEF TypeOK, StartCheck, Goto, Labels
<1>5. Books'
  BY <1>1, <1>2, BooksKept DEF StartCheck
<1>6. Plans'
  BY <1>1, <1>2, PlansKept DEF StartCheck, Rows
<1>7. SameDays'
  BY <1>1, <1>3, DaysKept DEF StartCheck
<1> QED BY <1>4, <1>5, <1>6, <1>7 DEF IInv, Books, Plans

\* GetPreferences preserves the invariant.
LEMMA GetPreferencesStep ==
    ASSUME IInv, NEW c \in Checkers, GetPreferences(c)
    PROVE  IInv'
<1> USE DEF world, log, hist
<1>1. TypeOK /\ Books /\ Plans /\ SameDays
  BY DEF IInv, Books, Plans
<1>2. Others(c) /\ ~Delivering(c)' /\ ~Holding(c)' /\ ~Holding(c)
  BY <1>1 DEF TypeOK, GetPreferences, Goto, Others, Delivering, Holding
<1>3. \A d \in Checkers : copy'[d] \in {copy[d], prefs, Default}
  BY <1>1 DEF TypeOK, GetPreferences
<1>4. TypeOK'
  BY <1>1, NotificationsAssumption DEF TypeOK, GetPreferences, Edit, Goto, Labels
<1>5. Books'
  BY <1>1, <1>2, BooksKept DEF GetPreferences
<1>6. Plans'
  BY <1>1, <1>2, PlansKept DEF GetPreferences, Rows
<1>7. SameDays'
  BY <1>1, <1>3, DaysKept DEF GetPreferences
<1> QED BY <1>4, <1>5, <1>6, <1>7 DEF IInv, Books, Plans

\* A refused lapse notice, a claim that is held and a failing claim preserve
\* the invariant.
LEMMA RefusedStep ==
    ASSUME IInv, NEW c \in Checkers, LookRefused(c) \/ ClaimHeld(c) \/ ClaimFails(c)
    PROVE  IInv'
<1> USE DEF world, log, hist
<1>1. TypeOK /\ Books /\ Plans /\ SameDays
  BY DEF IInv, Books, Plans
<1>2. /\ Proceed(c, left[c]) /\ left[c] \in SUBSET Streams /\ ~Holding(c)
      /\ UNCHANGED <<world, prefs, log, edits, hist>>
      /\ failures' = failures \/ Failure
  BY <1>1 DEF TypeOK, LookRefused, ClaimHeld, ClaimFails, Holding
<1>3. /\ ProcTypes' /\ Others(c) /\ ~Delivering(c)' /\ ~Holding(c)'
      /\ \A d \in Checkers : copy'[d] \in {copy[d], prefs, Default}
  BY <1>1, <1>2, ProceedFacts
<1>4. TypeOK'
  BY <1>1, <1>2, <1>3, NotificationsAssumption DEF TypeOK, ProcTypes, Failure
<1>5. Books'
  BY <1>1, <1>2, <1>3, BooksKept
<1>6. Plans'
  BY <1>1, <1>2, <1>3, PlansKept DEF Rows
<1>7. SameDays'
  BY <1>1, <1>2, <1>3, DaysKept
<1> QED BY <1>4, <1>5, <1>6, <1>7 DEF IInv, Books, Plans

\* UpsertPreferences preserves the invariant.
LEMMA UpsertPreferencesStep ==
    ASSUME IInv, NEW c \in Checkers, NEW p \in Prefs, UpsertPreferences(c, p)
    PROVE  IInv'
<1> USE DEF world, log
<1>1. TypeOK /\ Books /\ Plans /\ SameDays
  BY DEF IInv, Books, Plans
<1>2. /\ ProcTypes' /\ Others(c) /\ ~Delivering(c)' /\ ~Holding(c)' /\ ~Holding(c)
      /\ \A d \in Checkers : copy'[d] = copy[d] \/ copy'[d] = Default
  BY <1>1, ProceedFacts DEF UpsertPreferences, Holding
<1>3. TypeOK'
  <2>1. newDays' \in BOOLEAN
    BY <1>1 DEF TypeOK, UpsertPreferences
  <2> QED BY <1>1, <1>2, <2>1 DEF TypeOK, ProcTypes, UpsertPreferences
<1>4. Books'
  BY <1>1, <1>2, BooksKept DEF UpsertPreferences
<1>5. Plans'
  BY <1>1, <1>2, PlansKept DEF UpsertPreferences, Rows
<1>6. SameDays'
  <2>1. ~newDays' => ~newDays /\ prefs'.days = prefs.days
    BY DEF UpsertPreferences
  <2> QED BY <1>1, <1>2, <2>1 DEF SameDays, Default
<1> QED BY <1>3, <1>4, <1>5, <1>6 DEF IInv, Books, Plans

\* Evaluate preserves the invariant: a new notice lists all farther thresholds.
LEMMA EvaluateStep ==
    ASSUME IInv, NEW c \in Checkers, NEW i \in Streams, NEW unknown \in BOOLEAN,
           Evaluate(c, i, unknown)
    PROVE  IInv'
<1> DEFINE n == IF Wanted(c, i) THEN NoticeOf(i, copy[c].days, unknown) ELSE NoNote
           rest == left[c] \ {i}
<1> USE DEF world, log, hist
<1>1. TypeOK /\ Books /\ Plans /\ SameDays
  BY DEF IInv, Books, Plans
<1>2. /\ UNCHANGED <<world, prefs, log, edits, hist>> /\ ~Holding(c) /\ ~Delivering(c)
      /\ failures' \in 0..MaxFailures
  BY <1>1, NotificationsAssumption DEF TypeOK, Evaluate, Failure, Holding, Delivering
<1>3. rest \in SUBSET Streams /\ copy[c].days \in SUBSET WarningDays
  BY <1>1 DEF TypeOK, Prefs
<1>4. CASE Proceed(c, rest)
  <2>1. /\ ProcTypes' /\ Others(c) /\ ~Delivering(c)' /\ ~Holding(c)'
        /\ \A d \in Checkers : copy'[d] \in {copy[d], prefs, Default}
    BY <1>1, <1>3, <1>4, ProceedFacts
  <2>2. TypeOK'
    BY <1>1, <1>2, <2>1 DEF TypeOK, ProcTypes
  <2>3. Books'
    BY <1>1, <1>2, <2>1, BooksKept
  <2>4. Plans'
    BY <1>1, <1>2, <2>1, PlansKept DEF Rows
  <2>5. SameDays'
    BY <1>1, <1>2, <2>1, DaysKept
  <2> QED BY <2>2, <2>3, <2>4, <2>5 DEF IInv, Books, Plans
<1>5. CASE ~Proceed(c, rest)
  <2>1. /\ n # NoNote /\ pc' = [pc EXCEPT ![c] = Begin(n)]
        /\ left' = [left EXCEPT ![c] = rest] /\ note' = [note EXCEPT ![c] = n]
        /\ copy' = copy
    BY <1>5 DEF Evaluate, Goto
  <2>2. WellFormed(n, i, copy[c].days)
    BY <1>1, <1>3, <2>1, NoticeFacts
  <2> HIDE DEF n
  <2>3. /\ Begin(n) \in {"skip", "look", "claim"}
        /\ Begin(n) = "skip" <=> n.farther # {}
    BY DEF Begin
  <2>4. TypeOK'
    BY <1>1, <1>2, <1>3, <2>1, <2>2, <2>3 DEF TypeOK, Labels, WellFormed
  <2>5. Others(c) /\ pc'[c] = Begin(n) /\ note'[c] = n
    BY <1>1, <2>1 DEF TypeOK, Others
  <2>6. Books'
    <3>1. ~Holding(c)'
      BY <2>3, <2>5 DEF Holding
    <3> QED BY <1>1, <1>2, <2>5, <3>1, BooksKept
  <2>7. NotesInOrder'
    <3>1. SUFFICES ASSUME NEW d \in Checkers, Delivering(d)'
                   PROVE  /\ note'[d] \in Notes
                          /\ pc'[d] = "skip" => note'[d].farther # {}
                          /\ pc'[d] # "skip" => note'[d].farther = {}
                          /\ kind'[note'[d].stream] = "revalidation" => note'[d].days = 0
                          /\ ~note'[d].lapse /\ kind'[note'[d].stream] # "revalidation"
                               => note'[d].days \in WarningDays
      BY DEF NotesInOrder
    <3>2. CASE d = c
      BY <1>2, <1>3, <2>2, <2>3, <2>5, <3>2 DEF WellFormed
    <3>3. CASE d # c
      BY <1>1, <1>2, <2>5, <3>1, <3>3 DEF Plans, NotesInOrder, Others, Delivering
    <3> QED BY <3>2, <3>3
  <2>8. FartherSkipped'
    <3>1. SUFFICES ASSUME ~newDays, NEW d \in Checkers, Delivering(d)',
                          ~note'[d].lapse, kind[note'[d].stream] # "revalidation",
                          NEW w \in WarningDays, w > note'[d].days
                   PROVE  \/ w \in note'[d].farther
                          \/ At(Key(note'[d]), w) \in Rows \cup released
      BY <1>2 DEF FartherSkipped, Rows
    <3>2. CASE d = c
      BY <1>1, <2>2, <2>5, <3>1, <3>2 DEF SameDays, WellFormed
    <3>3. CASE d # c
      BY <1>1, <2>5, <3>1, <3>3 DEF Plans, FartherSkipped, Others, Delivering
    <3> QED BY <3>2, <3>3
  <2>9. WarnedSkipped' /\ SameDays'
    BY <1>1, <1>2, <2>1 DEF Plans, WarnedSkipped, SameDays, Rows
  <2> QED BY <2>4, <2>6, <2>7, <2>8, <2>9 DEF IInv, Books
<1> QED BY <1>4, <1>5

\* ClaimSkipped preserves the invariant: a threshold leaves the list when it is
\* on record.
LEMMA ClaimSkippedStep ==
    ASSUME IInv, NEW c \in Checkers, ClaimSkipped(c)
    PROVE  IInv'
<1> DEFINE n == note[c]
           w0 == Min(n.farther)
           k == [stream |-> n.stream, days |-> w0, date |-> n.date]
           rest == n.farther \ {w0}
<1> USE DEF world, log, hist
<1>1. TypeOK /\ Books /\ Plans /\ SameDays
  BY DEF IInv, Books, Plans
<1>2. pc[c] = "skip" /\ n \in Notes /\ n.farther # {}
  BY <1>1 DEF Plans, NotesInOrder, Delivering, ClaimSkipped
<1>3. n.farther \in SUBSET WarningDays /\ w0 \in n.farther /\ w0 \in Nat
  <2>1. n.farther \in SUBSET WarningDays
    BY <1>2 DEF Notes
  <2>2. n.farther \in SUBSET Nat
    BY <2>1, NotificationsAssumption
  <2> QED BY <1>2, <2>1, <2>2, MinIsLeast
<1>4. /\ UNCHANGED <<world, prefs, claims, copy, left, edits, failures, hist>>
      /\ skips' = IF k \in Rows THEN skips ELSE skips \cup {k}
      /\ note' = [note EXCEPT ![c].farther = rest]
      /\ pc' = [pc EXCEPT ![c] = IF rest = {} THEN "claim" ELSE "skip"]
  BY DEF ClaimSkipped, Goto
<1> DEFINE m == [n EXCEPT !.farther = rest]
<1>5. /\ note' = [note EXCEPT ![c] = m] /\ m \in Notes /\ Key(m) = Key(n)
      /\ m.lapse = n.lapse /\ m.stream = n.stream /\ m.days = n.days
      /\ m.date = n.date /\ m.farther = rest
  BY <1>1, <1>2, <1>3, <1>4 DEF TypeOK, Notes, Key
<1>6. k \in Keys
  BY <1>2, <1>3 DEF Notes, Keys
<1> HIDE DEF m, rest
<1>7. TypeOK'
  <2>1. note' \in [Checkers -> Notes \cup {NoNote}]
    BY <1>1, <1>5 DEF TypeOK
  <2>2. pc' \in [Checkers -> Labels]
    BY <1>1, <1>4 DEF TypeOK, Labels
  <2>3. skips' \subseteq Keys
    BY <1>1, <1>4, <1>6 DEF TypeOK
  <2> QED BY <1>1, <1>4, <2>1, <2>2, <2>3 DEF TypeOK
<1>8. /\ Others(c) /\ note'[c] = m
      /\ pc'[c] = IF rest = {} THEN "claim" ELSE "skip"
  BY <1>1, <1>4, <1>5 DEF TypeOK, Others
<1>9. ~Holding(c) /\ ~Holding(c)'
  BY <1>2, <1>8 DEF Holding
<1>10. Books'
  <2>1. RowsDistinct'
    BY <1>1, <1>4 DEF Books, RowsDistinct, Rows
  <2>2. MailsClaimed' /\ MailedOnce'
    BY <1>1, <1>4 DEF Books, MailsClaimed, MailedOnce
  <2>3. Holders'
    BY <1>1, <1>4, <1>8, <1>9 DEF Books, Holders, Others, Holding
  <2>4. ClaimsAccounted'
    BY <1>1, <1>4, <1>8, <1>9 DEF Books, ClaimsAccounted, Others, Holding
  <2> QED BY <2>1, <2>2, <2>3, <2>4 DEF Books
<1>11. k \in Rows' /\ Rows \subseteq Rows'
  BY <1>4 DEF Rows
<1>12. NotesInOrder'
  <2>1. SUFFICES ASSUME NEW d \in Checkers, Delivering(d)'
                 PROVE  /\ note'[d] \in Notes
                        /\ pc'[d] = "skip" => note'[d].farther # {}
                        /\ pc'[d] # "skip" => note'[d].farther = {}
                        /\ kind'[note'[d].stream] = "revalidation" => note'[d].days = 0
                        /\ ~note'[d].lapse /\ kind'[note'[d].stream] # "revalidation"
                             => note'[d].days \in WarningDays
    BY DEF NotesInOrder
  <2>2. CASE d = c
    BY <1>1, <1>2, <1>4, <1>5, <1>8, <2>2 DEF Plans, NotesInOrder, Delivering
  <2>3. CASE d # c
    BY <1>1, <1>4, <1>8, <2>1, <2>3 DEF Plans, NotesInOrder, Others, Delivering
  <2> QED BY <2>2, <2>3
<1>13. FartherSkipped'
  <2>1. SUFFICES ASSUME ~newDays, NEW d \in Checkers, Delivering(d)',
                        ~note'[d].lapse, kind[note'[d].stream] # "revalidation",
                        NEW w \in WarningDays, w > note'[d].days
                 PROVE  \/ w \in note'[d].farther
                        \/ At(Key(note'[d]), w) \in Rows' \cup released
    BY <1>4 DEF FartherSkipped
  <2>2. CASE d = c
    <3>1. w \in n.farther \/ At(Key(n), w) \in Rows \cup released
      BY <1>1, <1>2, <1>5, <1>8, <2>1, <2>2 DEF Plans, FartherSkipped, Delivering
    <3>2. w = w0 => At(Key(n), w) = k
      BY DEF At, Key
    <3>3. w \in n.farther => w \in rest \/ w = w0
      BY DEF rest
    <3> QED BY <1>5, <1>8, <1>11, <2>2, <3>1, <3>2, <3>3
  <2>3. CASE d # c
    BY <1>1, <1>8, <1>11, <2>1, <2>3 DEF Plans, FartherSkipped, Others, Delivering
  <2> QED BY <2>2, <2>3
<1>14. WarnedSkipped' /\ SameDays'
  BY <1>1, <1>4, <1>11 DEF Plans, WarnedSkipped, SameDays
<1> QED BY <1>7, <1>10, <1>12, <1>13, <1>14 DEF IInv, Books

\* Look preserves the invariant.
LEMMA LookStep ==
    ASSUME IInv, NEW c \in Checkers, Look(c)
    PROVE  IInv'
<1> USE DEF world, log, hist
<1>1. TypeOK /\ Books /\ Plans /\ SameDays
  BY DEF IInv, Books, Plans
<1>2. /\ UNCHANGED <<world, prefs, log, copy, left, note, edits, failures, hist>>
      /\ pc' = [pc EXCEPT ![c] = "claim"] /\ pc[c] = "look"
  BY DEF Look, Goto
<1>3. TypeOK' /\ pc'[c] = "claim" /\ Others(c)
  BY <1>1, <1>2 DEF TypeOK, Labels, Others
<1>4. Books'
  BY <1>1, <1>2, <1>3, BooksKept DEF Holding
<1>5. NotesInOrder'
  BY <1>1, <1>2, <1>3 DEF Plans, NotesInOrder, Others, Delivering
<1>6. FartherSkipped'
  BY <1>1, <1>2, <1>3 DEF Plans, FartherSkipped, Others, Delivering, Rows
<1>7. WarnedSkipped' /\ SameDays'
  BY <1>1, <1>2 DEF Plans, WarnedSkipped, SameDays, Rows
<1> QED BY <1>3, <1>4, <1>5, <1>6, <1>7 DEF IInv, Books

\* Claim preserves the invariant: its key was not on record, so nobody holds it
\* and no mail was sent for it, except in doubt.
LEMMA ClaimStep ==
    ASSUME IInv, NEW c \in Checkers, Claim(c)
    PROVE  IInv'
<1> DEFINE k == Key(note[c])
<1> USE DEF world, log
<1>1. TypeOK /\ Books /\ Plans /\ SameDays
  BY DEF IInv, Books, Plans
<1>2. /\ pc[c] = "claim" /\ k \notin Rows /\ claims' = claims \cup {k}
      /\ warned' = IF note[c].lapse THEN warned ELSE warned \cup {k}
      /\ lapsed' = IF note[c].lapse THEN lapsed \cup {k} ELSE lapsed
      /\ pc' = [pc EXCEPT ![c] = "send"]
      /\ UNCHANGED <<world, prefs, skips, copy, left, note, edits, failures,
                     mailed, again, doubted, released, lost, newDays>>
  BY DEF Claim, Goto
<1>3. note[c] \in Notes /\ note[c].farther = {} /\ k \in Keys
  BY <1>1, <1>2, KeyIsKey DEF Plans, NotesInOrder, Delivering
<1>4. pc'[c] = "send" /\ Others(c)
  BY <1>1, <1>2 DEF TypeOK, Others
<1>5. TypeOK'
  BY <1>1, <1>2, <1>3 DEF TypeOK, Labels
<1>6. Books'
  <2>1. RowsDistinct' /\ MailsClaimed' /\ MailedOnce'
    BY <1>1, <1>2 DEF Books, RowsDistinct, MailsClaimed, MailedOnce, Rows
  <2>2. k \notin claims /\ (k \in mailed => k \in doubted)
    BY <1>1, <1>2 DEF Books, MailsClaimed, Rows
  <2>3. Holders'
    BY <1>1, <1>2, <1>4, <2>2 DEF Books, Holders, Others, Holding
  <2>4. ClaimsAccounted'
    BY <1>1, <1>2, <1>4 DEF Books, ClaimsAccounted, Others, Holding
  <2> QED BY <2>1, <2>3, <2>4 DEF Books
<1>7. NotesInOrder'
  BY <1>1, <1>2, <1>4 DEF Plans, NotesInOrder, Others, Delivering
<1>8. Rows \subseteq Rows' /\ (Rows \cup released) \subseteq (Rows' \cup released')
  BY <1>2 DEF Rows
<1>9. FartherSkipped'
  BY <1>1, <1>2, <1>4, <1>8 DEF Plans, FartherSkipped, Others, Delivering
<1>10. WarnedSkipped'
  <2>1. SUFFICES ASSUME ~newDays, NEW q \in warned', kind[q.stream] # "revalidation",
                        NEW w \in WarningDays, w > q.days
                 PROVE  At(q, w) \in Rows' \cup released'
    BY <1>2 DEF WarnedSkipped
  <2>2. CASE q \in warned
    BY <1>1, <1>8, <2>1, <2>2 DEF Plans, WarnedSkipped
  <2>3. CASE q \notin warned
    <3>1. ~note[c].lapse /\ q = k
      BY <1>2, <2>3
    <3>2. q.stream = note[c].stream /\ q.days = note[c].days
      BY <3>1 DEF Key
    <3>3. Delivering(c)
      BY <1>2 DEF Delivering
    <3> HIDE DEF k
    <3>4. At(Key(note[c]), w) \in Rows \cup released
      BY <1>1, <1>3, <2>1, <3>1, <3>2, <3>3 DEF Plans, FartherSkipped
    <3> QED BY <1>8, <3>1, <3>4 DEF k
  <2> QED BY <2>2, <2>3
<1>11. SameDays'
  BY <1>1, <1>2 DEF SameDays
<1> QED BY <1>5, <1>6, <1>7, <1>9, <1>10, <1>11 DEF IInv, Books

\* Send preserves the invariant.
LEMMA SendStep ==
    ASSUME IInv, NEW c \in Checkers, Send(c)
    PROVE  IInv'
<1> DEFINE k == Key(note[c])
<1> USE DEF world, log
<1>1. TypeOK /\ Books /\ Plans /\ SameDays
  BY DEF IInv, Books, Plans
<1>2. /\ pc[c] = "send" /\ mailed' = mailed \cup {k}
      /\ again' = IF k \in mailed THEN again \cup {k} ELSE again
      /\ Proceed(c, left[c]) /\ left[c] \in SUBSET Streams
      /\ UNCHANGED <<world, prefs, log, edits, failures,
                     doubted, released, lost, warned, lapsed, newDays>>
  BY <1>1 DEF TypeOK, Send, Mail
<1>3. /\ ProcTypes' /\ Others(c) /\ ~Delivering(c)' /\ ~Holding(c)'
      /\ \A d \in Checkers : copy'[d] \in {copy[d], prefs, Default}
  BY <1>1, <1>2, ProceedFacts
<1>4. k \in Keys /\ k \in claims /\ (k \in mailed => k \in doubted)
  BY <1>1, <1>2, KeyIsKey DEF Plans, NotesInOrder, Delivering, Books, Holders, Holding
<1>5. TypeOK'
  BY <1>1, <1>2, <1>3, <1>4 DEF TypeOK, ProcTypes
<1>6. Books'
  <2>1. RowsDistinct' /\ MailsClaimed' /\ MailedOnce'
    BY <1>1, <1>2, <1>4 DEF Books, RowsDistinct, MailsClaimed, MailedOnce
  <2>2. \A d \in Checkers : d # c /\ Holding(d) => Key(note[d]) # k
    BY <1>1, <1>2 DEF Books, Holders, Holding
  <2>3. Holders'
    BY <1>1, <1>2, <1>3, <2>2 DEF Books, Holders, Others, Holding
  <2>4. ClaimsAccounted'
    BY <1>1, <1>2, <1>3 DEF Books, ClaimsAccounted, Others, Holding
  <2> QED BY <2>1, <2>3, <2>4 DEF Books
<1>7. Plans'
  BY <1>1, <1>2, <1>3, PlansKept DEF Rows
<1>8. SameDays'
  BY <1>1, <1>2, <1>3, DaysKept
<1> QED BY <1>5, <1>6, <1>7, <1>8 DEF IInv, Books, Plans

\* SendFails preserves the invariant: a mail that arrived is in doubt.
LEMMA SendFailsStep ==
    ASSUME IInv, NEW c \in Checkers, NEW arrived \in BOOLEAN, SendFails(c, arrived)
    PROVE  IInv'
<1> DEFINE k == Key(note[c])
<1> USE DEF world, log
<1>1. TypeOK /\ Books /\ Plans /\ SameDays
  BY DEF IInv, Books, Plans
<1>2. /\ pc[c] = "send" /\ Failure /\ pc' = [pc EXCEPT ![c] = "release"]
      /\ UNCHANGED <<world, prefs, log, copy, left, note, edits,
                     released, lost, warned, lapsed, newDays>>
      /\ \/ /\ mailed' = mailed \cup {k} /\ doubted' = doubted \cup {k}
            /\ again' = again \/ again' = again \cup {k}
         \/ mailed' = mailed /\ again' = again /\ doubted' = doubted
  BY DEF SendFails, Goto, Mail
<1>3. pc'[c] = "release" /\ Others(c)
  BY <1>1, <1>2 DEF TypeOK, Others
<1>4. k \in Keys /\ k \in claims
  BY <1>1, <1>2, KeyIsKey DEF Plans, NotesInOrder, Delivering, Books, Holders, Holding
<1>5. TypeOK'
  <2>1. /\ mailed' \subseteq Keys /\ again' \subseteq Keys /\ doubted' \subseteq Keys
        /\ failures' \in 0..MaxFailures /\ pc' \in [Checkers -> Labels]
    BY <1>1, <1>2, <1>4, NotificationsAssumption DEF TypeOK, Labels, Failure
  <2> QED BY <1>1, <1>2, <2>1 DEF TypeOK
<1>6. Books'
  <2>1. RowsDistinct' /\ MailsClaimed' /\ MailedOnce'
    BY <1>1, <1>2, <1>4 DEF Books, RowsDistinct, MailsClaimed, MailedOnce
  <2>2. \A d \in Checkers : Holding(d)' <=> Holding(d)
    BY <1>2, <1>3 DEF Others, Holding
  <2> HIDE DEF k
  <2>3. Holders'
    BY <1>1, <1>2, <2>2 DEF Books, Holders
  <2>4. ClaimsAccounted'
    BY <1>1, <1>2, <2>2 DEF Books, ClaimsAccounted
  <2> QED BY <2>1, <2>3, <2>4 DEF Books
<1>7. NotesInOrder'
  BY <1>1, <1>2, <1>3 DEF Plans, NotesInOrder, Others, Delivering
<1>8. FartherSkipped'
  BY <1>1, <1>2, <1>3 DEF Plans, FartherSkipped, Others, Delivering, Rows
<1>9. WarnedSkipped' /\ SameDays'
  BY <1>1, <1>2 DEF Plans, WarnedSkipped, SameDays, Rows
<1> QED BY <1>5, <1>6, <1>7, <1>8, <1>9 DEF IInv, Books

\* ReleaseNotification preserves the invariant: it deletes a row of its own.
LEMMA ReleaseNotificationStep ==
    ASSUME IInv, NEW c \in Checkers, ReleaseNotification(c)
    PROVE  IInv'
<1> DEFINE k == Key(note[c])
<1> USE DEF world, log
<1>1. TypeOK /\ Books /\ Plans /\ SameDays
  BY DEF IInv, Books, Plans
<1>2. /\ pc[c] = "release" /\ claims' = claims \ {k} /\ released' = released \cup {k}
      /\ Proceed(c, left[c]) /\ left[c] \in SUBSET Streams
      /\ UNCHANGED <<world, prefs, skips, edits, failures,
                     mailed, again, doubted, lost, warned, lapsed, newDays>>
  BY <1>1 DEF TypeOK, ReleaseNotification
<1>3. /\ ProcTypes' /\ Others(c) /\ ~Delivering(c)' /\ ~Holding(c)'
      /\ \A d \in Checkers : copy'[d] \in {copy[d], prefs, Default}
  BY <1>1, <1>2, ProceedFacts
<1>4. k \in Keys /\ k \in claims /\ (k \in mailed => k \in doubted)
  BY <1>1, <1>2, KeyIsKey DEF Plans, NotesInOrder, Delivering, Books, Holders, Holding
<1>5. TypeOK'
  BY <1>1, <1>2, <1>3, <1>4 DEF TypeOK, ProcTypes
<1>6. Books'
  <2>1. RowsDistinct' /\ MailsClaimed' /\ MailedOnce'
    BY <1>1, <1>2, <1>4 DEF Books, RowsDistinct, MailsClaimed, MailedOnce
  <2>2. \A d \in Checkers : d # c /\ Holding(d) => Key(note[d]) # k
    BY <1>1, <1>2 DEF Books, Holders, Holding
  <2>3. Holders'
    BY <1>1, <1>2, <1>3, <2>2 DEF Books, Holders, Others, Holding
  <2>4. ClaimsAccounted'
    BY <1>1, <1>2, <1>3 DEF Books, ClaimsAccounted, Others, Holding
  <2> QED BY <2>1, <2>3, <2>4 DEF Books
<1>7. Plans'
  BY <1>1, <1>2, <1>3, PlansKept DEF Rows
<1>8. SameDays'
  BY <1>1, <1>2, <1>3, DaysKept
<1> QED BY <1>5, <1>6, <1>7, <1>8 DEF IInv, Books, Plans

\* A failing release and a dying process preserve the invariant: the claim they
\* leave behind is lost.
LEMMA AbandonStep ==
    ASSUME IInv, NEW c \in Checkers, ReleaseFails(c) \/ Die(c)
    PROVE  IInv'
<1> DEFINE k == Key(note[c])
<1> USE DEF world, log
<1>1. TypeOK /\ Books /\ Plans /\ SameDays
  BY DEF IInv, Books, Plans
<1>2. /\ lost' = IF Holding(c) THEN lost \cup {k} ELSE lost
      /\ failures' = failures \/ (failures' = failures + 1 /\ failures < MaxFailures)
      /\ \E rest \in SUBSET Streams : Proceed(c, rest)
      /\ UNCHANGED <<world, prefs, log, edits,
                     mailed, again, doubted, released, warned, lapsed, newDays>>
  <2>1. CASE ReleaseFails(c)
    <3>1. left[c] \in SUBSET Streams /\ Proceed(c, left[c])
      BY <1>1, <2>1 DEF TypeOK, ReleaseFails
    <3>2. Holding(c)
      BY <2>1 DEF ReleaseFails, Holding
    <3>3. /\ lost' = lost \cup {k} /\ failures' = failures
          /\ UNCHANGED <<world, prefs, log, edits,
                         mailed, again, doubted, released, warned, lapsed, newDays>>
      BY <2>1 DEF ReleaseFails
    <3>4. \E rest \in SUBSET Streams : Proceed(c, rest)
      BY <3>1
    <3> QED BY <3>2, <3>3, <3>4
  <2>2. CASE Die(c)
    BY <2>2 DEF Die, Failure, Holding
  <2> QED BY <2>1, <2>2
<1>3. /\ ProcTypes' /\ Others(c) /\ ~Delivering(c)' /\ ~Holding(c)'
      /\ \A d \in Checkers : copy'[d] \in {copy[d], prefs, Default}
  BY <1>1, <1>2, ProceedFacts
<1>4. Holding(c) => k \in Keys
  BY <1>1, KeyIsKey DEF Plans, NotesInOrder, Delivering, Holding
<1>5. TypeOK'
  BY <1>1, <1>2, <1>3, <1>4, NotificationsAssumption DEF TypeOK, ProcTypes
<1>6. Books'
  <2>1. RowsDistinct' /\ MailsClaimed' /\ MailedOnce'
    BY <1>1, <1>2 DEF Books, RowsDistinct, MailsClaimed, MailedOnce
  <2>2. Holders'
    BY <1>1, <1>2, <1>3 DEF Books, Holders, Others, Holding
  <2>3. ClaimsAccounted'
    BY <1>1, <1>2, <1>3 DEF Books, ClaimsAccounted, Others, Holding
  <2> QED BY <2>1, <2>2, <2>3 DEF Books
<1>7. Plans'
  BY <1>1, <1>2, <1>3, PlansKept DEF Rows
<1>8. SameDays'
  BY <1>1, <1>2, <1>3, DaysKept
<1> QED BY <1>5, <1>6, <1>7, <1>8 DEF IInv, Books, Plans

\* A change of the flights, midnight and stuttering preserve the invariant.
LEMMA WorldStep ==
    ASSUME IInv,
           \/ \E i \in Streams : \E f \in Facts(kind[i]) : Change(i, f)
           \/ Tick
           \/ UNCHANGED vars
    PROVE  IInv'
<1> USE DEF log, procs, hist
<1>1. TypeOK /\ Books /\ Plans /\ SameDays
  BY DEF IInv, Books, Plans
<1>2. /\ UNCHANGED <<kind, prefs, log, procs, failures, hist>>
      /\ today' \in 1..MaxDay /\ edits' \in 0..MaxEdits
      /\ fact' \in [Streams -> FactSet]
  <2>1. CASE \E i \in Streams : \E f \in Facts(kind[i]) : Change(i, f)
    <3>0. PICK i \in Streams : \E f \in Facts(kind[i]) : Change(i, f)
      BY <2>1
    <3>1. PICK f \in Facts(kind[i]) : Change(i, f)
      BY <3>0
    <3>2. f \in FactSet
      <4> DEFINE E == IF kind[i] \in {"passenger", "custom"} THEN {NoDate} ELSE Dates
                 M == CASE kind[i] \in {"credential", "review"} -> {NotRolling}
                        [] kind[i] \in {"passenger", "custom"} -> Dates
                        [] OTHER -> Dates \cup {NotRolling}
      <4>1. E \subseteq Dates
        BY NotificationsAssumption DEF Dates, NoDate
      <4>2. M \subseteq Dates \cup {NotRolling}
        BY <1>1 DEF TypeOK, Kinds
      <4>3. f \in [expires : E, met : M]
        BY DEF Facts
      <4> HIDE DEF E, M
      <4> QED BY <4>1, <4>2, <4>3 DEF FactSet
    <3> QED BY <1>1, <3>1, <3>2, NotificationsAssumption DEF TypeOK, Change, Edit
  <2>2. CASE Tick
    BY <1>1, <2>2, NotificationsAssumption DEF TypeOK, Tick
  <2>3. CASE UNCHANGED vars
    BY <1>1, <2>3 DEF TypeOK, vars, world
  <2> QED BY <2>1, <2>2, <2>3
<1>3. TypeOK'
  BY <1>1, <1>2 DEF TypeOK
<1>4. Books'
  BY <1>1, <1>2 DEF Books, RowsDistinct, Holders, MailsClaimed, ClaimsAccounted,
                    MailedOnce, Holding
<1>5. Plans'
  BY <1>1, <1>2 DEF Plans, NotesInOrder, FartherSkipped, WarnedSkipped, Delivering, Rows
<1>6. SameDays'
  BY <1>1, <1>2 DEF SameDays
<1> QED BY <1>3, <1>4, <1>5, <1>6 DEF IInv, Books, Plans

-----------------------------------------------------------------------------
(* The theorems.                                                           *)

\* The invariant holds at first.
LEMMA InitIInv == Init => IInv
<1> SUFFICES ASSUME Init PROVE IInv
  OBVIOUS
<1>1. TypeOK
  <2>1. /\ today \in 1..MaxDay /\ edits \in 0..MaxEdits /\ failures \in 0..MaxFailures
    BY NotificationsAssumption DEF Init
  <2>2. ProcTypes /\ prefs \in Prefs
    BY DefaultIsPrefs DEF Init, ProcTypes, Labels
  <2> QED BY <2>1, <2>2 DEF Init, TypeOK, ProcTypes
<1>2. NotesInOrder /\ FartherSkipped /\ SameDays /\ WarnedSkipped
  BY DEF Init, NotesInOrder, FartherSkipped, SameDays, WarnedSkipped, Delivering, Default
<1>3. RowsDistinct /\ Holders /\ MailsClaimed /\ ClaimsAccounted /\ MailedOnce
  BY DEF Init, RowsDistinct, Holders, MailsClaimed, ClaimsAccounted, MailedOnce, Holding
<1> QED BY <1>1, <1>2, <1>3 DEF IInv

\* Every step preserves it.
LEMMA NextIInv == IInv /\ [Next]_vars => IInv'
<1> SUFFICES ASSUME IInv, [Next]_vars PROVE IInv'
  OBVIOUS
<1>1. ASSUME NEW c \in Checkers, StartCheck(c) PROVE IInv'
  BY <1>1, StartCheckStep
<1>2. ASSUME NEW c \in Checkers, Step(c) PROVE IInv'
  <2>1. CASE \E i \in Streams : Evaluate(c, i, FALSE)
    BY <2>1, EvaluateStep
  <2>2. CASE LookRefused(c) \/ ClaimHeld(c)
    BY <2>2, RefusedStep
  <2> QED BY <1>2, <2>1, <2>2, ClaimSkippedStep, LookStep, ClaimStep, SendStep,
             ReleaseNotificationStep DEF Step
<1>3. ASSUME NEW c \in Checkers, NEW i \in Streams, Evaluate(c, i, TRUE) PROVE IInv'
  BY <1>3, EvaluateStep
<1>4. ASSUME NEW c \in Checkers, ClaimFails(c) \/ ReleaseFails(c) \/ Die(c) PROVE IInv'
  BY <1>4, RefusedStep, AbandonStep
<1>5. ASSUME NEW c \in Checkers, NEW arrived \in BOOLEAN, SendFails(c, arrived)
      PROVE  IInv'
  BY <1>5, SendFailsStep
<1>6. ASSUME NEW c \in Checkers, GetPreferences(c) PROVE IInv'
  BY <1>6, GetPreferencesStep
<1>7. ASSUME NEW c \in Checkers, NEW p \in Prefs, UpsertPreferences(c, p) PROVE IInv'
  BY <1>7, UpsertPreferencesStep
<1>8. CASE \/ \E i \in Streams : \E f \in Facts(kind[i]) : Change(i, f)
           \/ Tick
           \/ UNCHANGED vars
  BY <1>8, WorldStep
<1> QED BY <1>1, <1>2, <1>3, <1>4, <1>5, <1>6, <1>7, <1>8 DEF Next

\* The inductive invariant of the checks.
THEOREM Invariance == Spec => []IInv
BY InitIInv, NextIInv, PTL DEF Spec

\* The log, the preferences and the checkers always have their types.
THEOREM TypeCorrect == Spec => []TypeOK
<1>1. IInv => TypeOK
  BY DEF IInv
<1> QED BY <1>1, Invariance, PTL

\* However many replicas, triggers and failures overlap, no notice is mailed
\* twice, unless a send that was reported as failed had delivered it.
THEOREM OneMail == Spec => []MailedOnce
<1>1. IInv => MailedOnce
  BY DEF IInv
<1> QED BY <1>1, Invariance, PTL

\* Every row of notification_log that is not marked skipped stands for a mail
\* that was sent, is being sent or was lost to a failure.
THEOREM ClaimsStandForMails == Spec => []ClaimsAreMails
<1>1. IInv => ClaimsAreMails
  BY DEF IInv, ClaimsAreMails, ClaimsAccounted, Holding, RowsDistinct, MailsClaimed
<1> QED BY <1>1, Invariance, PTL

\* A warning is never claimed after a nearer one for the same date, while the
\* warning days stay the same.
THEOREM WarningsApproach == Spec => NearestOnly
<1> DEFINE Order(c) ==
      Claim(c) /\ ~note[c].lapse /\ ~newDays =>
         LET k == Key(note[c])
         IN  k \in released \/ \A w \in warned :
               w.stream = k.stream /\ w.date = k.date => w.days >= k.days
<1>1. IInv => \A c \in Checkers : Order(c)
  <2> SUFFICES ASSUME IInv, NEW c \in Checkers, Claim(c), ~note[c].lapse, ~newDays,
                      Key(note[c]) \notin released, NEW q \in warned,
                      q.stream = Key(note[c]).stream, q.date = Key(note[c]).date
               PROVE  q.days >= Key(note[c]).days
    OBVIOUS
  <2> DEFINE k == Key(note[c])
  <2>1. /\ note[c] \in Notes /\ q \in Keys /\ k \in Keys /\ k \notin Rows
        /\ kind[k.stream] = "revalidation" => k.days = 0
        /\ kind[k.stream] # "revalidation" => k.days \in WarningDays
    <3>1. note[c] \in Notes /\ Delivering(c) /\ k \notin Rows
      BY DEF IInv, Claim, NotesInOrder, Delivering
    <3>2. k.stream = note[c].stream /\ k.days = note[c].days
      BY DEF Key
    <3> HIDE DEF k
    <3>3. k \in Keys
      BY <3>1, KeyIsKey DEF k
    <3> QED BY <3>1, <3>2, <3>3 DEF IInv, TypeOK, NotesInOrder
  <2> HIDE DEF k
  <2>2. q.days \in Nat /\ k.days \in Nat
    BY <2>1 DEF Keys
  <2>3. CASE kind[k.stream] = "revalidation"
    BY <2>1, <2>2, <2>3 DEF k
  <2>4. CASE kind[k.stream] # "revalidation"
    <3>1. SUFFICES ASSUME k.days > q.days PROVE FALSE
      BY <2>2 DEF k
    <3>2. At(q, k.days) \in Rows \cup released
      BY <2>1, <2>4, <3>1 DEF IInv, WarnedSkipped, k
    <3>3. At(q, k.days) = k
      BY <2>1 DEF At, Keys, k
    <3> QED BY <2>1, <3>2, <3>3 DEF k
  <2> QED BY <2>3, <2>4
<1>2. IInv /\ [Next]_vars => [\A c \in Checkers : Order(c)]_vars
  BY <1>1
<1> QED BY <1>2, Invariance, PTL DEF Spec, NearestOnly

-----------------------------------------------------------------------------
(***************************************************************************)
(* The other mailer that works off a ticker.  The reaper deletes none but  *)
(* abandoned accounts that were reminded, for any number of accounts and   *)
(* replicas and any batch.  The deletion checks the guards itself; what    *)
(* has to be carried through the sweeps is that a stamp is set only after  *)
(* the reminder was decided.                                               *)
(***************************************************************************)

\* The places of the sweeps are records.
SweepOK == sweep = [r \in Replicas |-> [at |-> sweep[r].at, list |-> sweep[r].list]]

\* A sweep that is about to stamp an account has reminded it.
StampsAfterMail == \A r \in Replicas : sweep[r].at = "stamp" => Head(sweep[r].list) \in told

ReaperInv == acct \in [Accounts -> Row] /\ SweepOK /\ StampsAfterMail /\ StampMeansTold

-----------------------------------------------------------------------------
\* After an entry of its list a sweep goes on to the next or to the deletion.
LEMMA MovesOn ==
  ASSUME ReaperInv, NEW r \in Replicas, NEW step \in {"mint", "mail"}, NEW list,
         sweep' = [sweep EXCEPT ![r] = SweepAt(r, step, list)], told' = told
  PROVE  SweepOK' /\ StampsAfterMail'
<1>1. SweepAt(r, step, list) = [at |-> SweepAt(r, step, list).at, list |-> SweepAt(r, step, list).list]
  BY DEF SweepAt
<1>2. SweepAt(r, step, list).at # "stamp"
  BY DEF SweepAt
<1>3. \A s \in Replicas : sweep'[s] = IF s = r THEN SweepAt(r, step, list) ELSE sweep[s]
  BY DEF ReaperInv, SweepOK
<1>4. SweepOK'
  BY <1>1, <1>3 DEF ReaperInv, SweepOK
<1> QED BY <1>2, <1>3, <1>4 DEF ReaperInv, StampsAfterMail

\* A sweep that ends, or dies, leaves its replica idle.
LEMMA Rests ==
  ASSUME ReaperInv, NEW r \in Replicas, sweep' = [sweep EXCEPT ![r] = Idle], told' = told
  PROVE  SweepOK' /\ StampsAfterMail'
<1>1. \A s \in Replicas : sweep'[s] = IF s = r THEN Idle ELSE sweep[s]
  BY DEF ReaperInv, SweepOK
<1> QED BY <1>1 DEF ReaperInv, SweepOK, StampsAfterMail, Idle

\* The accounts' own steps and time leave the sweeps alone and set no stamp where there was none.
LEMMA AccountStep ==
  ASSUME ReaperInv, NEW u \in Accounts,
         \/ TimePasses(u) \/ Register(u) \/ MarkEmailVerified(u) \/ RecordLogin(u)
         \/ ChangeEmail(u) \/ UpdateUser(u)
  PROVE  ReaperInv' /\ OnlyAbandonedDeletedStep
<1>1. UNCHANGED <<sweep, told>>
  BY DEF TimePasses, Register, MarkEmailVerified, RecordLogin, ChangeEmail, UpdateUser
<1>2. SweepOK' /\ StampsAfterMail'
  BY <1>1 DEF ReaperInv, SweepOK, StampsAfterMail
<1>3. /\ acct' \in [Accounts -> Row]
      /\ \A v \in Accounts : acct'[v].stamp # "none" => acct[v].stamp # "none"
      /\ \A v \in Accounts : acct[v].there => acct'[v].there
  <2>1. CASE TimePasses(u)
    BY <2>1 DEF ReaperInv, TimePasses, Row
  <2>2. CASE Register(u)
    BY <2>2 DEF ReaperInv, Register, Row, Absent
  <2>3. CASE MarkEmailVerified(u)
    BY <2>3, ZenonT(60) DEF ReaperInv, MarkEmailVerified, Row
  <2>4. CASE RecordLogin(u)
    BY <2>4, ZenonT(60) DEF ReaperInv, RecordLogin, Row
  <2>5. CASE ChangeEmail(u)
    BY <2>5, ZenonT(60) DEF ReaperInv, ChangeEmail, Row
  <2>6. CASE UpdateUser(u)
    <3>1. CASE acct' = [acct EXCEPT ![u].verified = FALSE]
      BY <3>1, ZenonT(60) DEF ReaperInv, Row
    <3>2. CASE acct' = [acct EXCEPT ![u].used = FALSE]
      BY <3>2, ZenonT(60) DEF ReaperInv, Row
    <3>3. CASE acct' = [acct EXCEPT ![u] = [@ EXCEPT !.verified = FALSE, !.used = FALSE]]
      BY <3>3 DEF ReaperInv, Row
    <3> QED BY <2>6, <3>1, <3>2, <3>3 DEF UpdateUser
  <2> QED BY <2>1, <2>2, <2>3, <2>4, <2>5, <2>6
<1> QED BY <1>1, <1>2, <1>3 DEF ReaperInv, StampMeansTold, OnlyAbandonedDeletedStep

LEMMA ReaperStarts == ASSUME ReaperInit PROVE ReaperInv
<1>1. acct \in [Accounts -> Row] /\ \A u \in Accounts : acct[u].stamp = "none"
  <2> DEFINE provided == [Absent EXCEPT !.there = TRUE, !.identity = TRUE, !.age = "due"]
  <2>1. Absent \in Row /\ Absent.stamp = "none"
    BY DEF Absent, Row
  <2>2. provided \in Row /\ provided.stamp = "none"
    BY DEF Absent, Row
  <2>3. acct \in [Accounts -> {Absent, provided}]
    BY DEF ReaperInit
  <2> HIDE DEF provided
  <2> QED BY <2>1, <2>2, <2>3
<1>2. SweepOK /\ StampsAfterMail
  BY DEF ReaperInit, SweepOK, StampsAfterMail, Idle
<1> QED BY <1>1, <1>2 DEF ReaperInv, StampMeansTold

LEMMA ReaperKeeps == ASSUME ReaperInv, [ReaperNext]_reaperVars PROVE ReaperInv' /\ OnlyAbandonedDeletedStep
<1>a. ASSUME UNCHANGED acct, told \subseteq told', SweepOK', StampsAfterMail'
      PROVE  ReaperInv' /\ OnlyAbandonedDeletedStep
  BY <1>a DEF ReaperInv, StampMeansTold, OnlyAbandonedDeletedStep
<1>1. ASSUME NEW r \in Replicas, Sweep(r) PROVE ReaperInv' /\ OnlyAbandonedDeletedStep
  BY <1>1, <1>a, MovesOn DEF Sweep
<1>2. ASSUME NEW r \in Replicas, Mint(r) PROVE ReaperInv' /\ OnlyAbandonedDeletedStep
  <2>0. UNCHANGED <<acct, told>>
    BY <1>2 DEF Mint
  <2>1. CASE sweep' = [sweep EXCEPT ![r].at = "mail"]
    <3>1. \A s \in Replicas : sweep'[s] = IF s = r THEN [at |-> "mail", list |-> sweep[s].list] ELSE sweep[s]
      BY <2>1 DEF ReaperInv, SweepOK
    <3>2. SweepOK' /\ StampsAfterMail'
      BY <2>0, <2>1, <3>1 DEF ReaperInv, SweepOK, StampsAfterMail
    <3> QED BY <1>a, <2>0, <3>2
  <2>2. CASE sweep' = [sweep EXCEPT ![r] = SweepAt(r, "mint", Tail(@.list))]
    BY <2>0, <2>2, <1>a, MovesOn
  <2> QED BY <1>2, <2>1, <2>2 DEF Mint
<1>3. ASSUME NEW r \in Replicas, MailDecided(r) PROVE ReaperInv' /\ OnlyAbandonedDeletedStep
  <2>1. \A s \in Replicas : sweep'[s] = IF s = r THEN [at |-> "stamp", list |-> sweep[s].list] ELSE sweep[s]
    BY <1>3 DEF MailDecided, ReaperInv, SweepOK
  <2>2. SweepOK' /\ StampsAfterMail'
    BY <1>3, <2>1, SMTT(60) DEF MailDecided, ReaperInv, SweepOK, StampsAfterMail
  <2> QED BY <1>3, <1>a, <2>2 DEF MailDecided
<1>4. ASSUME NEW r \in Replicas, MailDeferred(r) \/ StampFails(r) PROVE ReaperInv' /\ OnlyAbandonedDeletedStep
  BY <1>4, <1>a, MovesOn DEF MailDeferred, StampFails
<1>5. ASSUME NEW r \in Replicas, Stamp(r) PROVE ReaperInv' /\ OnlyAbandonedDeletedStep
  <2> DEFINE u == Head(sweep[r].list)
  <2>1. told' = told /\ u \in told
    BY <1>5 DEF Stamp, ReaperInv, StampsAfterMail
  <2>2. SweepOK' /\ StampsAfterMail'
    BY <1>5, MovesOn DEF Stamp
  <2>3. /\ acct' \in [Accounts -> Row]
        /\ \A v \in Accounts : v # u => acct'[v] = acct[v]
        /\ \A v \in Accounts : acct'[v].there = acct[v].there
    BY <1>5, ZenonT(60) DEF Stamp, ReaperInv, Row
  <2> QED BY <2>1, <2>2, <2>3 DEF ReaperInv, StampMeansTold, OnlyAbandonedDeletedStep
<1>6. ASSUME NEW r \in Replicas, DeleteExpired(r) PROVE ReaperInv' /\ OnlyAbandonedDeletedStep
  <2>1. told' = told /\ SweepOK' /\ StampsAfterMail'
    BY <1>6, Rests DEF DeleteExpired
  <2>2. Deleted \in Row /\ Deleted.stamp = "none"
    BY DEF Deleted, Absent, Row
  <2>3. \A v \in Accounts : acct'[v] = IF Expired(v) THEN Deleted ELSE acct[v]
    BY <1>6 DEF DeleteExpired
  <2>4. acct' \in [Accounts -> Row] /\ StampMeansTold'
    BY <1>6, <2>1, <2>2, <2>3 DEF DeleteExpired, ReaperInv, StampMeansTold
  <2>5. OnlyAbandonedDeletedStep
    BY <2>3 DEF OnlyAbandonedDeletedStep, Expired, ReaperInv, StampMeansTold
  <2> QED BY <2>1, <2>4, <2>5 DEF ReaperInv
<1>7. ASSUME NEW r \in Replicas, Stop(r) PROVE ReaperInv' /\ OnlyAbandonedDeletedStep
  BY <1>7, <1>a, Rests DEF Stop
<1>8. CASE UNCHANGED reaperVars
  BY <1>8, <1>a DEF reaperVars, ReaperInv, SweepOK, StampsAfterMail
<1> QED
  BY <1>1, <1>2, <1>3, <1>4, <1>5, <1>6, <1>7, <1>8, AccountStep DEF ReaperNext, SweepStep

\* The stamp on an account stands for a reminder that was mailed or refused for good
\* (the order of SendMessage and MarkVerificationReminderSent in a sweep).
THEOREM StampsAreHonest == ReaperSpec => []StampMeansTold
<1>1. ReaperInv => StampMeansTold
  BY DEF ReaperInv
<1>2. ReaperInit => ReaperInv
  BY ReaperStarts
<1>3. ReaperInv /\ [ReaperNext]_reaperVars => ReaperInv'
  BY ReaperKeeps
<1> QED BY <1>1, <1>2, <1>3, PTL DEF ReaperSpec

\* Whatever happens between listing and deleting, on any number of replicas, no account
\* is deleted that was verified, logged into or given by a provider, nor one without a
\* reminder (DeleteUnverifiedRemindedBefore).
THEOREM NobodyElseDeleted == ReaperSpec => OnlyAbandonedDeleted
<1>1. ReaperInit => ReaperInv
  BY ReaperStarts
<1>2. ReaperInv /\ [ReaperNext]_reaperVars => ReaperInv'
  BY ReaperKeeps
<1>3. ReaperInv /\ [ReaperNext]_reaperVars => [OnlyAbandonedDeletedStep]_reaperVars
  BY ReaperKeeps
<1> QED BY <1>1, <1>2, <1>3, PTL DEF ReaperSpec, OnlyAbandonedDeleted

=============================================================================
