----------------------------- MODULE UpdateCheck -----------------------------
(***************************************************************************)
(* The update checker: a background refresh asks GitHub for the latest     *)
(* release of each component and for how far the running commits are       *)
(* behind the branch; the status page reads what is known and starts a     *)
(* comparison of a commit nobody has asked for yet.  Comparisons are       *)
(* cached in a bounded map, and requests to GitHub fail.  A commit is      *)
(* <<base, own>>: the place on the branch where it branches off and the    *)
(* commits of its own after it, none for a commit on the branch itself.    *)
(***************************************************************************)
EXTENDS Integers, FiniteSets, FiniteSetsExt, Sequences

CONSTANTS FrontendCommits,   \* what browsers report as commit, as normalizeCommit leaves it; NoCommit for none
          APICommit,         \* the commit this server was built from, or NoCommit
          APIVersion, FrontendVersions,  \* running versions: <<major, minor, patch, prerelease>>, Dev for others
          Dev,
          Configs,           \* the configurations: [enabled, periodic]
          Tags,              \* tags of the releases in the order they are published; a semantic version or Dev
          Releasing,         \* bound: the components that publish
          MaxHead,           \* bound on the branch of each component
          MaxComparisons,    \* maxComparisons
          RetryAfter,        \* comparisonRetryAfter
          MaxTime            \* bound on the answers of GitHub

Components == {"api", "frontend"}
NoCommit == <<>>
NoRelease == <<>>

VARIABLES config,       \* [enabled, periodic]: Enabled, and whether Interval is positive
          head,         \* GitHub: commits on each component's branch
          published,    \* GitHub: how many of Tags each component has published
          releases,     \* what the checker knows of releases
          comparisons,  \* key -> [status, behind, at], or NoComparison
          asked,        \* keys a reader found unknown and has yet to ask for
          inflight,
          front,        \* frontendCommit
          lastCheck,    \* lastChecked and lastError
          refresh,      \* the background refresh: step, work left, whether something failed
          fetches,      \* the goroutines of ensureComparison: key and what GitHub said
          gauge,        \* app_update_available and the commits behind, for the API
          clock         \* counts answers of GitHub

checkVars == <<config, head, published, releases, comparisons, asked, inflight, front, lastCheck, refresh, fetches, gauge, clock>>
github == <<head, published>>

comparisonKey(c, sha) == <<c, sha>>
Keys == Components \X (FrontendCommits \cup {APICommit})
NoComparison == [status |-> "none", behind |-> 0, at |-> -1]
NoGauge == [available |-> "none", behind |-> -1]
Cached == {k \in Keys : comparisons[k] # NoComparison}

\* comparePrerelease: a release above its prereleases, then identifier by identifier; numbers
\* (<<0, n>>) sort below words (<<1, place in the alphabet>>), and more identifiers above fewer.
comparePrerelease(a, b) ==
  LET D == {i \in DOMAIN a \cap DOMAIN b : a[i] # b[i]}
      below(x, y) == x[1] < y[1] \/ (x[1] = y[1] /\ x[2] < y[2])
  IN CASE a = b -> 0
       [] a = <<>> -> 1
       [] b = <<>> -> -1
       [] D # {} -> IF below(a[Min(D)], b[Min(D)]) THEN -1 ELSE 1
       [] OTHER -> IF Len(a) < Len(b) THEN -1 ELSE 1
compare(a, b) == LET D == {i \in 1 .. 3 : a[i] # b[i]}
                 IN IF D # {} THEN IF a[Min(D)] < b[Min(D)] THEN -1 ELSE 1 ELSE comparePrerelease(a[4], b[4])
\* parseVersion succeeds for semantic versions only.
comparable(v, r) == v # Dev /\ r \notin {NoRelease, Dev}
newer(v, r) == comparable(v, r) /\ compare(r, v) > 0

-----------------------------------------------------------------------------
\* GitHub.

Push(c) == /\ head[c] < MaxHead[c] /\ head' = [head EXCEPT ![c] = @ + 1]
           /\ UNCHANGED <<config, published, releases, comparisons, asked, inflight, front, lastCheck, refresh, fetches, gauge, clock>>
Publish(c) == /\ c \in Releasing /\ published[c] < Len(Tags) /\ published' = [published EXCEPT ![c] = @ + 1]
              /\ UNCHANGED <<config, head, releases, comparisons, asked, inflight, front, lastCheck, refresh, fetches, gauge, clock>>

\* compareCommit, of base...head; a commit that is not there yet, like any other trouble, is an error.
compareCommit(c, sha) ==
  LET ahead == head[c] - sha[1] IN
    [status |-> CASE ahead = 0 /\ sha[2] = 0 -> "identical" [] ahead = 0 -> "behind"
                  [] sha[2] = 0 -> "ahead" [] OTHER -> "diverged",
     behind |-> ahead, at |-> clock]
Answers(c, sha) == sha[1] <= head[c] /\ clock < MaxTime

\* storeComparison: an entry more than the map may hold drops the oldest.
storeComparison(key, cmp) ==
  IF key \notin Cached /\ Cardinality(Cached) >= MaxComparisons
  THEN \E old \in {k \in Cached : \A j \in Cached : comparisons[k].at <= comparisons[j].at} :
         comparisons' = [comparisons EXCEPT ![old] = NoComparison, ![key] = cmp]
  ELSE comparisons' = [comparisons EXCEPT ![key] = cmp]

-----------------------------------------------------------------------------
\* What is made of the answers.

\* componentStatus: the release channel when versions can be compared, else the commit channel.
componentStatus(c, v, sha) ==
  LET said(state, channel, behind) == [state |-> state, channel |-> channel, behind |-> behind]
      cmp == comparisons[comparisonKey(c, sha)]
  IN CASE comparable(v, releases[c]) ->
            said(IF newer(v, releases[c]) THEN "update_available" ELSE "up_to_date", "release", 0)
       [] ~comparable(v, releases[c]) /\ sha # NoCommit /\ cmp.status = "ahead" ->
            said("update_available", "commit", cmp.behind)
       [] ~comparable(v, releases[c]) /\ sha # NoCommit /\ cmp.status \in {"identical", "behind"} ->
            said("up_to_date", "commit", 0)
       [] OTHER -> said("unknown", "", 0)
\* the commit that componentStatus goes on to ask for
unknown(c, v, sha) ==
  {k \in {comparisonKey(c, sha)} : ~comparable(v, releases[c]) /\ sha # NoCommit /\ comparisons[k] = NoComparison}

\* ensureComparison, under the lock taken after the one componentStatus read with.
ensureComparison(k) ==
  /\ k \in asked /\ asked' = asked \ {k}
  /\ LET fresh == comparisons[k] # NoComparison /\ clock - comparisons[k].at < RetryAfter
     IN IF ~config.enabled \/ fresh \/ k \in inflight
        THEN inflight' = inflight /\ fetches' = fetches
        ELSE inflight' = inflight \cup {k} /\ fetches' = Append(fetches, [key |-> k, said |-> NoComparison])
  /\ UNCHANGED <<config, github, releases, comparisons, front, lastCheck, refresh, gauge, clock>>

\* The goroutine: GitHub answers, the answer is stored, and the key is free again.
Compare(i) ==
  /\ i \in DOMAIN fetches /\ fetches[i].said = NoComparison
  /\ LET k == fetches[i].key IN
       /\ Answers(k[1], k[2])
       /\ fetches' = [fetches EXCEPT ![i].said = compareCommit(k[1], k[2])]
  /\ clock' = clock + 1
  /\ UNCHANGED <<config, github, releases, comparisons, asked, inflight, front, lastCheck, refresh, gauge>>
StoreFetched(i) ==
  /\ i \in DOMAIN fetches
  /\ IF fetches[i].said = NoComparison THEN comparisons' = comparisons    \* the request failed
     ELSE storeComparison(fetches[i].key, fetches[i].said)
  /\ fetches' = SubSeq(fetches, 1, i - 1) \o SubSeq(fetches, i + 1, Len(fetches))
  /\ UNCHANGED <<config, github, releases, asked, inflight, front, lastCheck, refresh, gauge, clock>>
Release(k) ==
  /\ k \in inflight /\ \A i \in DOMAIN fetches : fetches[i].key # k
  /\ inflight' = inflight \ {k}
  /\ UNCHANGED <<config, github, releases, comparisons, asked, front, lastCheck, refresh, fetches, gauge, clock>>

\* Status: the browser's commit is remembered when it has one, then both components are looked at.
Status(v, sha) ==
  /\ front' = IF sha = NoCommit THEN front ELSE sha
  /\ asked' = asked \cup unknown("api", APIVersion, APICommit) \cup unknown("frontend", v, sha)
  /\ UNCHANGED <<config, github, releases, comparisons, inflight, lastCheck, refresh, fetches, gauge, clock>>

-----------------------------------------------------------------------------
\* Refresh, run by Start's goroutine at once and then at every tick, if there are any.

trackedCommits == {<<"api", sha>> : sha \in {APICommit} \ {NoCommit}} \cup {<<"frontend", sha>> : sha \in {front} \ {NoCommit}}

Refresh ==
  /\ config.enabled /\ refresh.step = "wait" /\ clock < MaxTime
  /\ ~lastCheck.done \/ config.periodic
  /\ refresh' = [step |-> "release", left |-> <<"api", "frontend">>, failed |-> FALSE, said |-> NoComparison]
  /\ UNCHANGED <<config, github, releases, comparisons, asked, inflight, front, lastCheck, fetches, gauge, clock>>
\* latestRelease of the next component; the refresh goes on after an error.
latestRelease ==
  /\ refresh.step = "release" /\ refresh.left # <<>>
  /\ LET c == Head(refresh.left) IN
       \/ /\ published[c] > 0 /\ releases' = [releases EXCEPT ![c] = Tags[published[c]]]
          /\ refresh' = [refresh EXCEPT !.left = Tail(@)]
       \/ releases' = releases /\ refresh' = [refresh EXCEPT !.left = Tail(@), !.failed = TRUE]
  /\ UNCHANGED <<config, github, comparisons, asked, inflight, front, lastCheck, fetches, gauge, clock>>
TrackCommits ==
  /\ refresh.step = "release" /\ refresh.left = <<>>
  /\ refresh' = [refresh EXCEPT !.step = "compare", !.left = trackedCommits]
  /\ UNCHANGED <<config, github, releases, comparisons, asked, inflight, front, lastCheck, fetches, gauge, clock>>
\* refreshComparison: a request, which may fail, and then the store.
AskTracked(t) ==
  /\ refresh.step = "compare" /\ t \in refresh.left
  /\ \/ /\ Answers(t[1], t[2]) /\ clock' = clock + 1
        /\ refresh' = [refresh EXCEPT !.step = "store", !.left = <<t, @ \ {t}>>, !.said = compareCommit(t[1], t[2])]
     \/ /\ refresh' = [refresh EXCEPT !.left = @ \ {t}, !.failed = TRUE] /\ clock' = clock
  /\ UNCHANGED <<config, github, releases, comparisons, asked, inflight, front, lastCheck, fetches, gauge>>
refreshComparison ==
  /\ refresh.step = "store"
  /\ storeComparison(refresh.left[1], refresh.said)
  /\ refresh' = [refresh EXCEPT !.step = "compare", !.left = @[2], !.said = NoComparison]
  /\ UNCHANGED <<config, github, releases, asked, inflight, front, lastCheck, fetches, gauge, clock>>
FinishRefresh ==
  /\ refresh.step = "compare" /\ refresh.left = {}
  /\ lastCheck' = [done |-> TRUE, error |-> refresh.failed]
  /\ refresh' = [refresh EXCEPT !.step = IF refresh.failed THEN "wait" ELSE "gauge", !.left = <<>>]
  /\ UNCHANGED <<config, github, releases, comparisons, asked, inflight, front, fetches, gauge, clock>>
publishAPIGauge ==
  /\ refresh.step = "gauge"
  /\ LET status == componentStatus("api", APIVersion, APICommit) IN
       gauge' = [available |-> CASE status.state = "update_available" -> "yes" [] status.state = "up_to_date" -> "no"
                                 [] OTHER -> "none",
                 behind |-> IF status.channel = "commit" THEN status.behind ELSE -1]
  /\ asked' = asked \cup unknown("api", APIVersion, APICommit)
  /\ refresh' = [refresh EXCEPT !.step = "wait"]
  /\ UNCHANGED <<config, github, releases, comparisons, inflight, front, lastCheck, fetches, clock>>

CheckInit ==
  /\ config \in Configs
  /\ head = [c \in Components |-> 0] /\ published = [c \in Components |-> IF c \in Releasing THEN 0 ELSE Len(Tags)]
  /\ releases = [c \in Components |-> NoRelease] /\ comparisons = [k \in Keys |-> NoComparison]
  /\ asked = {} /\ inflight = {} /\ front = NoCommit /\ lastCheck = [done |-> FALSE, error |-> FALSE]
  /\ refresh = [step |-> "wait", left |-> <<>>, failed |-> FALSE, said |-> NoComparison]
  /\ fetches = <<>> /\ gauge = NoGauge /\ clock = 0
CheckNext ==
  \/ \E c \in Components : Push(c) \/ Publish(c)
  \/ Refresh \/ latestRelease \/ TrackCommits \/ (\E t \in Keys : AskTracked(t)) \/ refreshComparison
  \/ FinishRefresh \/ publishAPIGauge
  \/ \E sha \in FrontendCommits, v \in FrontendVersions : Status(v, sha)
  \/ \E k \in Keys : ensureComparison(k) \/ Release(k)
  \/ \E i \in DOMAIN fetches : Compare(i) \/ StoreFetched(i)
CheckSpec == CheckInit /\ [][CheckNext]_checkVars

-----------------------------------------------------------------------------
\* "Update available" is never a false alarm, on the status page and in the metric: the component's
\* branch is ahead of the very commit that was asked about, by no fewer commits than are told, or a
\* newer release came out, whichever answers arrive in which order (componentStatus,
\* storeComparison, publishAPIGauge).
NewerOut(c, v) == \E i \in 1 .. published[c] : newer(v, Tags[i])
NoFalseAlarm ==
  /\ \A c \in Components, sha \in FrontendCommits \cup {APICommit}, v \in FrontendVersions \cup {APIVersion} :
       LET status == componentStatus(c, v, sha) IN
         status.state = "update_available" =>
           IF status.channel = "commit" THEN head[c] - sha[1] >= status.behind /\ status.behind > 0 ELSE NewerOut(c, v)
  /\ gauge.available = "yes" => IF gauge.behind >= 0 THEN head["api"] - APICommit[1] >= gauge.behind /\ gauge.behind > 0
                                ELSE NewerOut("api", APIVersion)

\* The cache of comparisons stays bounded whoever stores, and the status page never compares
\* the same commit twice at once (storeComparison, ensureComparison).
CacheBounded == Cardinality(Cached) <= MaxComparisons
OneFetchPerCommit == /\ \A i, j \in DOMAIN fetches : i # j => fetches[i].key # fetches[j].key
                     /\ {fetches[i].key : i \in DOMAIN fetches} \subseteq inflight

\* "a disabled Checker performs no outbound request and reports StateUnknown" (Config.Enabled):
\* neither the refresh, nor a reader, nor a goroutine one of them left behind asks GitHub.
DisabledIsQuiet ==
  ~config.enabled => /\ clock = 0 /\ fetches = <<>> /\ refresh.step = "wait" /\ gauge = NoGauge
                     /\ \A c \in Components, sha \in FrontendCommits, v \in FrontendVersions :
                          sha # NoCommit => componentStatus(c, v, sha).state = "unknown"

\* Versions are totally ordered, so that no two builds are each newer than the other, and a newer
\* build of a newer one is newer (semver.go: compare, comparePrerelease).
VersionsAreOrdered ==
  LET V == ({Tags[i] : i \in DOMAIN Tags} \cup FrontendVersions \cup {APIVersion}) \ {Dev} IN
    /\ \A a, b \in V : newer(a, b) <=> a # b /\ ~newer(b, a)
    /\ \A a, b, c \in V : newer(a, b) /\ newer(b, c) => newer(a, c)
=============================================================================
