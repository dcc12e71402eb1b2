--------------------------- MODULE Notifications ---------------------------
(***************************************************************************)
(* The expiry warnings and lapse notices of ONE user:                      *)
(* internal/service/notification.go over notification_preferences and      *)
(* notification_log (internal/repository/postgres/notification.go).        *)
(*                                                                         *)
(* A stream is a (category, reference) pair: a credential, the expiry of a *)
(* rating, its revalidation, a passenger currency, the flight review or a  *)
(* custom rule.  Checkers are the background checkers of the replicas, the *)
(* administrator's trigger and the requests that change preferences.  A    *)
(* check reads the preferences, evaluates one stream after the other and   *)
(* delivers at most one notice for each; a step is one statement, one      *)
(* evaluation or one mail.  ClaimLapseNotification is one statement, but   *)
(* under READ COMMITTED its NOT EXISTS sees the rows from before it began: *)
(* it is two steps.                                                        *)
(*                                                                         *)
(* Data: a date is a number, 0 is nil and NeverCurrentDate.  What the      *)
(* currency engine finds is reduced to the expiry date on record and the   *)
(* last day on which the flights meet the requirement.                     *)
(***************************************************************************)
EXTENDS Integers, FiniteSetsExt

CONSTANTS
    Streams,      \* (category, reference) pairs of the user
    NoStream,     \* no stream
    Checkers,     \* concurrent checks and requests
    WarningDays,  \* warning thresholds a user may choose
    Soon,         \* days before a date from which a status is "expiring"
    MaxDay,       \* bound on the clock
    MaxEdits,     \* bound on changes of flights, dates and preferences
    MaxFailures   \* bound on failing statements, mails and dying processes

ASSUME NotificationsAssumption ==
    /\ NoStream \notin Streams
    /\ WarningDays \subseteq Nat
    /\ Soon \in Nat
    /\ MaxDay \in Nat \ {0} /\ MaxEdits \in Nat /\ MaxFailures \in Nat

VARIABLES
    \* The world, the preferences and notification_log.
    today,
    kind,      \* kind of a stream
    fact,      \* its expiry date on record; last day its requirement is met
    prefs,     \* email_enabled, warning_days, and the streams not wanted
    claims,    \* keys of the rows with skipped = FALSE
    skips,     \* keys of the rows with skipped = TRUE
    \* The checkers.
    pc, copy,  \* next step; the preferences as read
    left,      \* streams still to be evaluated
    note,      \* the notice being delivered
    \* Bounds and history.
    edits, failures,
    mailed,    \* keys a mail was sent for
    again,     \* keys a second mail was sent for
    doubted,   \* keys whose mail arrived although the send failed
    released,  \* keys whose claim was released
    lost,      \* keys whose claim stayed although the mail was not sent
    warned,    \* keys ever claimed for a warning
    lapsed,    \* keys ever claimed for a lapse
    newDays    \* warning_days has been changed

world == <<today, kind, fact>>
log   == <<claims, skips>>
procs == <<pc, copy, left, note>>
hist  == <<mailed, again, doubted, released, lost, warned, lapsed, newDays>>
vars  == <<world, prefs, log, procs, edits, failures, hist>>

Kinds  == {"credential", "rating", "revalidation", "passenger", "review", "custom"}
Labels == {"idle", "patch", "pick", "skip", "look", "claim", "send", "release"}
NoDate == 0
Dates  == NoDate..MaxDay
NotRolling == MaxDay + 1
FactSet == [expires : Dates, met : Dates \cup {NotRolling}]
Keys   == [stream : Streams, days : Nat, date : Nat]
Prefs  == [on : BOOLEAN, days : SUBSET WarningDays, muted : SUBSET Streams]
NoNote == [stream |-> NoStream, days |-> 0, date |-> 0, lapse |-> FALSE, farther |-> {}]
Notes  == [stream : Streams, days : Nat, date : Nat, lapse : BOOLEAN,
           farther : SUBSET WarningDays]

TypeOK ==
    /\ today \in 1..MaxDay
    /\ kind \in [Streams -> Kinds]
    /\ fact \in [Streams -> FactSet]
    /\ prefs \in Prefs
    /\ claims \subseteq Keys /\ skips \subseteq Keys
    /\ pc \in [Checkers -> Labels]
    /\ copy \in [Checkers -> Prefs]
    /\ left \in [Checkers -> SUBSET Streams]
    /\ note \in [Checkers -> Notes \cup {NoNote}]
    /\ edits \in 0..MaxEdits /\ failures \in 0..MaxFailures
    /\ mailed \subseteq Keys /\ again \subseteq Keys
    /\ doubted \subseteq Keys /\ released \subseteq Keys /\ lost \subseteq Keys
    /\ warned \subseteq Keys /\ lapsed \subseteq Keys
    /\ newDays \in BOOLEAN

\* Only a rating has both an expiry date and a requirement for its flights,
\* and only if its rule has a rolling window.
Facts(k) ==
    [expires : IF k \in {"passenger", "custom"} THEN {NoDate} ELSE Dates,
     met : CASE k \in {"credential", "review"} -> {NotRolling}
             [] k \in {"passenger", "custom"} -> Dates
             [] OTHER -> Dates \cup {NotRolling}]

\* GetPreferences returns defaults for a user without a row: all categories.
Default == [on |-> TRUE, days |-> WarningDays, muted |-> {}]

Init ==
    /\ today = 1
    /\ kind \in [Streams -> Kinds]
    /\ fact \in [Streams -> FactSet]
    /\ \A i \in Streams : fact[i] \in Facts(kind[i])
    /\ prefs = Default
    /\ claims = {} /\ skips = {}
    /\ pc = [c \in Checkers |-> "idle"]
    /\ copy = [c \in Checkers |-> Default]
    /\ left = [c \in Checkers |-> {}]
    /\ note = [c \in Checkers |-> NoNote]
    /\ edits = 0 /\ failures = 0
    /\ mailed = {} /\ again = {} /\ doubted = {} /\ released = {} /\ lost = {}
    /\ warned = {} /\ lapsed = {} /\ newDays = FALSE

-----------------------------------------------------------------------------
(* What a check finds.                                                     *)

Key(n) == [stream |-> n.stream, days |-> n.days, date |-> n.date]

Rows == claims \cup skips

\* sendWarning: the nearest crossed threshold, and the farther ones.  None when
\* the date has passed or no threshold is crossed.
Warning(i, days, date) ==
    LET crossed == {w \in days : w >= date - today}
    IN  IF date < today \/ crossed = {} THEN NoNote
        ELSE [stream |-> i, days |-> Min(crossed), date |-> date, lapse |-> FALSE,
              farther |-> crossed \ {Min(crossed)}]

\* sendLapse: date is the first day that is not current, or NeverCurrentDate.
Lapse(i, date) ==
    [stream |-> i, days |-> 0, date |-> date, lapse |-> TRUE, farther |-> {}]

\* deliver, called directly: a revalidation notice keyed by the expiry date.
Keyed(i, date) ==
    [stream |-> i, days |-> 0, date |-> date, lapse |-> FALSE, farther |-> {}]

\* The day after the last current one; nil if the requirement was never met.
LapsedOn(i) == IF fact[i].met = NoDate THEN NoDate ELSE fact[i].met + 1

Unmet(i) == fact[i].met < today

\* The status of what is valid through its expiry date is not "current".
Expiring(i) == fact[i].expires - today <= Soon

\* A rating is not current while its rolling rule is unmet or it has expired;
\* without a rolling rule, from soon before it expires.
RatingLapses(i) ==
    \/ Unmet(i)
    \/ fact[i].expires # NoDate /\ fact[i].expires < today
    \/ fact[i].expires # NoDate /\ fact[i].met = NotRolling /\ Expiring(i)

\* The notice for stream i, given the warning days.  "unknown": the flights
\* could not be read, which a rating and the flight review report as a status
\* of its own, and which skips the others.
NoticeOf(i, days, unknown) ==
    LET expires == fact[i].expires IN
    CASE kind[i] = "credential" ->
           IF unknown \/ expires = NoDate THEN NoNote ELSE Warning(i, days, expires)
      [] kind[i] = "rating" ->
           IF expires # NoDate /\ (unknown \/ RatingLapses(i))
           THEN Warning(i, days, expires) ELSE NoNote
      [] kind[i] = "revalidation" ->
           IF unknown \/ ~RatingLapses(i) THEN NoNote
           ELSE IF (fact[i].met = NoDate \/ ~Unmet(i)) /\ expires # NoDate
                THEN Keyed(i, expires) ELSE Lapse(i, LapsedOn(i))
      [] kind[i] = "passenger" ->
           IF ~unknown /\ Unmet(i) THEN Lapse(i, LapsedOn(i)) ELSE NoNote
      [] kind[i] = "review" ->
           IF unknown \/ expires = NoDate THEN Lapse(i, NoDate)
           ELSE IF Expiring(i) THEN Warning(i, days, expires) ELSE NoNote
      [] kind[i] = "custom" ->
           IF unknown THEN NoNote
           ELSE IF Unmet(i) THEN Lapse(i, LapsedOn(i))
                ELSE IF LapsedOn(i) - today <= Soon
                     THEN Warning(i, days, LapsedOn(i)) ELSE NoNote

\* IsCategoryEnabled, by the copy of the preferences; a custom rule's own
\* switch is read with the rule.
Wanted(c, i) == i \notin IF kind[i] = "custom" THEN prefs.muted ELSE copy[c].muted

-----------------------------------------------------------------------------
(* A check.                                                                *)

Goto(c, label) == pc' = [pc EXCEPT ![c] = label]

\* The notice is dealt with; the check goes on to the next stream, if any.
Proceed(c, rest) ==
    /\ Goto(c, IF rest = {} THEN "idle" ELSE "pick")
    /\ left' = [left EXCEPT ![c] = rest]
    /\ note' = [note EXCEPT ![c] = NoNote]
    /\ copy' = [copy EXCEPT ![c] = IF rest = {} THEN Default ELSE @]

Failure == failures < MaxFailures /\ failures' = failures + 1

\* runChecks, for a user with email enabled.
StartCheck(c) ==
    /\ pc[c] = "idle" /\ prefs.on
    /\ Goto(c, "pick")
    /\ copy' = [copy EXCEPT ![c] = prefs]
    /\ left' = [left EXCEPT ![c] = Streams]
    /\ UNCHANGED <<world, prefs, log, note, edits, failures, hist>>

\* Mutant: warnings, too, are claimed by ClaimLapseNotification.
BeginLapse(n) == IF n.farther # {} THEN "skip" ELSE "look"

\* Where the delivery of a notice begins.
Begin(n) == IF n.farther # {} THEN "skip" ELSE IF n.lapse THEN "look" ELSE "claim"

Evaluate(c, i, unknown) ==
    LET n == IF Wanted(c, i) THEN NoticeOf(i, copy[c].days, unknown) ELSE NoNote
        rest == left[c] \ {i}
    IN  /\ pc[c] = "pick" /\ i \in left[c]
        /\ IF unknown THEN Failure ELSE UNCHANGED failures
        /\ \/ /\ n = NoNote
              /\ Proceed(c, rest)
           \/ /\ n # NoNote
              /\ Goto(c, Begin(n))
              /\ left' = [left EXCEPT ![c] = rest]
              /\ note' = [note EXCEPT ![c] = n]
              /\ UNCHANGED copy
        /\ UNCHANGED <<world, prefs, log, edits, hist>>

\* Mutant: the nearest threshold is claimed without the farther ones.
ClaimSkippedNone(c) ==
    /\ pc[c] = "skip"
    /\ note' = [note EXCEPT ![c].farther = {}]
    /\ Goto(c, "claim")
    /\ UNCHANGED <<world, prefs, log, copy, left, edits, failures, hist>>

\* sendWarning: the farther thresholds first, in ascending order.
ClaimSkipped(c) ==
    LET n == note[c]
        k == [stream |-> n.stream, days |-> Min(n.farther), date |-> n.date]
        rest == n.farther \ {Min(n.farther)}
    IN  /\ pc[c] = "skip"
        /\ skips' = IF k \in Rows THEN skips ELSE skips \cup {k}
        /\ note' = [note EXCEPT ![c].farther = rest]
        /\ Goto(c, IF rest = {} THEN "claim" ELSE "skip")
        /\ UNCHANGED <<world, prefs, claims, copy, left, edits, failures, hist>>

\* ClaimLapseNotification: a row on or after the date exists.
Overtaken(n) == \E k \in Rows : k.stream = n.stream /\ k.days = n.days /\ k.date >= n.date

LookRefused(c) ==
    /\ pc[c] = "look" /\ Overtaken(note[c])
    /\ Proceed(c, left[c])
    /\ UNCHANGED <<world, prefs, log, edits, failures, hist>>

Look(c) ==
    /\ pc[c] = "look" /\ ~Overtaken(note[c])
    /\ Goto(c, "claim")
    /\ UNCHANGED <<world, prefs, log, copy, left, note, edits, failures, hist>>

\* INSERT ... ON CONFLICT DO NOTHING.
Claim(c) ==
    LET k == Key(note[c])
    IN  /\ pc[c] = "claim" /\ k \notin Rows
        /\ claims' = claims \cup {k}
        /\ warned' = IF note[c].lapse THEN warned ELSE warned \cup {k}
        /\ lapsed' = IF note[c].lapse THEN lapsed \cup {k} ELSE lapsed
        /\ Goto(c, "send")
        /\ UNCHANGED <<world, prefs, skips, copy, left, note, edits, failures,
                       mailed, again, doubted, released, lost, newDays>>

\* Mutant: the conflict is not noticed.
ClaimHeldSends(c) ==
    /\ pc[c] = "claim" /\ Key(note[c]) \in Rows
    /\ Goto(c, "send")
    /\ UNCHANGED <<world, prefs, log, copy, left, note, edits, failures, hist>>

ClaimHeld(c) ==
    /\ pc[c] = "claim" /\ Key(note[c]) \in Rows
    /\ Proceed(c, left[c])
    /\ UNCHANGED <<world, prefs, log, edits, failures, hist>>

\* A claiming statement fails: nothing is sent.
ClaimFails(c) ==
    /\ pc[c] \in {"skip", "look", "claim"} /\ Failure
    /\ Proceed(c, left[c])
    /\ UNCHANGED <<world, prefs, log, edits, hist>>

Mail(k) ==
    /\ mailed' = mailed \cup {k}
    /\ again' = IF k \in mailed THEN again \cup {k} ELSE again

Send(c) ==
    /\ pc[c] = "send"
    /\ Mail(Key(note[c]))
    /\ Proceed(c, left[c])
    /\ UNCHANGED <<world, prefs, log, edits, failures,
                   doubted, released, lost, warned, lapsed, newDays>>

\* SendMessage reports an error; the server may have accepted the mail.
SendFails(c, arrived) ==
    LET k == Key(note[c])
    IN  /\ pc[c] = "send" /\ Failure
        /\ IF arrived THEN Mail(k) /\ doubted' = doubted \cup {k}
                      ELSE UNCHANGED <<mailed, again, doubted>>
        /\ Goto(c, "release")
        /\ UNCHANGED <<world, prefs, log, copy, left, note, edits,
                       released, lost, warned, lapsed, newDays>>

\* Mutant: the claim of a failed send is kept.
ReleaseNothing(c) ==
    /\ pc[c] = "release"
    /\ Proceed(c, left[c])
    /\ UNCHANGED <<world, prefs, log, edits, failures, hist>>

ReleaseNotification(c) ==
    /\ pc[c] = "release"
    /\ claims' = claims \ {Key(note[c])}
    /\ released' = released \cup {Key(note[c])}
    /\ Proceed(c, left[c])
    /\ UNCHANGED <<world, prefs, skips, edits, failures,
                   mailed, again, doubted, lost, warned, lapsed, newDays>>

\* The context of the send is over: its failure is counted already.
ReleaseFails(c) ==
    /\ pc[c] = "release"
    /\ lost' = lost \cup {Key(note[c])}
    /\ Proceed(c, left[c])
    /\ UNCHANGED <<world, prefs, log, edits, failures,
                   mailed, again, doubted, released, warned, lapsed, newDays>>

\* The process dies, or the context of its check is cancelled.
Die(c) ==
    /\ pc[c] # "idle" /\ Failure
    /\ Proceed(c, {})
    /\ lost' = IF pc[c] \in {"send", "release"} THEN lost \cup {Key(note[c])} ELSE lost
    /\ UNCHANGED <<world, prefs, log, edits,
                   mailed, again, doubted, released, warned, lapsed, newDays>>

-----------------------------------------------------------------------------
(* Preferences, flights and time.                                          *)

Edit == edits < MaxEdits /\ edits' = edits + 1

\* UpdateNotificationPreferences reads the row ...
GetPreferences(c) ==
    /\ pc[c] = "idle" /\ Edit
    /\ Goto(c, "patch")
    /\ copy' = [copy EXCEPT ![c] = prefs]
    /\ UNCHANGED <<world, prefs, log, left, note, failures, hist>>

\* ... and writes all of it, with the fields of the request replaced.
UpsertPreferences(c, p) ==
    /\ pc[c] = "patch"
    /\ \/ p = [copy[c] EXCEPT !.on = p.on]
       \/ p = [copy[c] EXCEPT !.days = p.days]
       \/ p = [copy[c] EXCEPT !.muted = p.muted]
    /\ prefs' = p
    /\ newDays' = (newDays \/ p.days # prefs.days)
    /\ Proceed(c, {})
    /\ UNCHANGED <<world, log, edits, failures,
                   mailed, again, doubted, released, lost, warned, lapsed>>

\* Flights are logged, changed or deleted, or an expiry date is.
Change(i, f) ==
    /\ Edit /\ f # fact[i]
    /\ f.met = NotRolling <=> fact[i].met = NotRolling
    /\ fact' = [fact EXCEPT ![i] = f]
    /\ UNCHANGED <<today, kind, prefs, log, procs, failures, hist>>

Tick ==
    /\ today < MaxDay
    /\ today' = today + 1
    /\ UNCHANGED <<kind, fact, prefs, log, procs, edits, failures, hist>>

-----------------------------------------------------------------------------

\* The steps of a check that was started, failures aside.
Step(c) ==
    \/ \E i \in Streams : Evaluate(c, i, FALSE)
    \/ ClaimSkipped(c) \/ LookRefused(c) \/ Look(c) \/ Claim(c) \/ ClaimHeld(c)
    \/ Send(c) \/ ReleaseNotification(c)

Next ==
    \/ \E c \in Checkers :
         \/ StartCheck(c) \/ Step(c)
         \/ \E i \in Streams : Evaluate(c, i, TRUE)
         \/ ClaimFails(c) \/ ReleaseFails(c) \/ Die(c)
         \/ \E arrived \in BOOLEAN : SendFails(c, arrived)
         \/ GetPreferences(c)
         \/ \E p \in Prefs : UpsertPreferences(c, p)
    \/ \E i \in Streams : \E f \in Facts(kind[i]) : Change(i, f)
    \/ Tick

Spec == Init /\ [][Next]_vars

\* The ticker of StartBackgroundChecker starts a check again and again, and a
\* check that was started goes on.
FairSpec ==
    /\ Spec
    /\ \A c \in Checkers : WF_vars(StartCheck(c)) /\ WF_vars(Step(c))

-----------------------------------------------------------------------------
(* Properties.                                                             *)

\* "Claim before send": replicas, the administrator's trigger and retries send
\* one mail for a (category, reference, threshold, date), unless the server
\* accepted a mail whose sending was reported as failed.
MailedOnce == again \subseteq doubted

\* A row that stands for a mail is a mail: it was sent, some checker is about
\* to send it or to release the row, or a failing release or a dying process
\* left it behind.  A skipped threshold was never mailed.
ClaimsAreMails ==
    /\ \A k \in claims :
         \/ k \in mailed \cup lost
         \/ \E c \in Checkers : pc[c] \in {"send", "release"} /\ Key(note[c]) = k
    /\ skips \cap mailed \subseteq released

\* "Each check sends only the nearest threshold": while the warning days stay
\* as they are, no warning follows a nearer one for the same date, checks on
\* both sides of midnight included, unless its own first mail had failed.
NearestOnly ==
    [][\A c \in Checkers : Claim(c) /\ ~note[c].lapse /\ ~newDays =>
         LET k == Key(note[c])
         IN  k \in released \/ \A w \in warned :
               w.stream = k.stream /\ w.date = k.date => w.days >= k.days]_vars

\* The notice that is due for a stream, and not sent.
Overdue(i) ==
    LET n == NoticeOf(i, prefs.days, FALSE)
    IN  /\ prefs.on /\ i \notin prefs.muted /\ n # NoNote
        /\ Key(n) \notin mailed \cup lost \cup skips
        /\ n.lapse => ~Overtaken(n)

\* A notice that is due is sent, or stops being due: failed sends, refused
\* claims and overlapping checks only delay it.
EveryNoticeSent == \A i \in Streams : []<>~Overdue(i)

\* "The same lapse is notified once; a pilot who regains currency and lapses
\* again is notified again": a lapse notice is held back only by a notice of a
\* lapse on that or a later day.
OnlyLapsesHoldBack ==
    [][\A c \in Checkers : LookRefused(c) /\ note[c].date # NoDate =>
         \E k \in lapsed : /\ k.stream = note[c].stream
                           /\ k.date >= note[c].date]_vars
=============================================================================
