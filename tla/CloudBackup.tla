---------------------------- MODULE CloudBackup ----------------------------
(***************************************************************************)
(* The backup destinations of ONE user: internal/service/cloudbackup       *)
(* (destinations.go, runner.go, scheduler.go, service.go) over the         *)
(* backup_destinations and backup_runs tables.                             *)
(*                                                                         *)
(* Processes are the goroutines of scheduled runs and the HTTP requests.   *)
(* Every operation reads the destination once, works on that copy, and     *)
(* writes the WHOLE row back at its end; RunOnce reads it before it takes  *)
(* the destination's lock.  A step is one statement, one provider call or  *)
(* one access to the shared lock map.                                      *)
(*                                                                         *)
(* Data: a payload is its SHA-256; "on"/"off" stands for the user's        *)
(* settings (enabled, schedule, name, retention), "on" being enabled with  *)
(* a schedule; time is the day and whether it is the scheduled hour.       *)
(* ConsecutiveFailures counts up to FailureLimit and stays there; of a     *)
(* destination's objects the newest MaxObjects are remembered.             *)
(***************************************************************************)
EXTENDS Integers, Sequences

CONSTANTS
    Dests,         \* destinations
    Requests,      \* HTTP requests
    Scheduled,     \* the goroutine of a scheduled run: one per user at a time
    Payloads,      \* SHA-256 of the payload
    NoPayload,     \* last_success_sha256 = ''
    NoDest,        \* no destination
    Retention,     \* RetentionCount, 0 keeps everything
    FailureLimit,  \* failures in a row that put a destination into error
    MaxDay,        \* bound on the clock
    MaxEdits,      \* bound on what the user changes
    MaxDbErrors,   \* bound on failing statements and restarts
    MaxObjects     \* objects remembered per destination

ASSUME CloudBackupAssumption ==
    /\ NoPayload \notin Payloads
    /\ NoDest \notin Dests
    /\ Scheduled \notin Requests
    /\ Retention \in Nat
    /\ FailureLimit \in Nat \ {0}
    /\ MaxDay \in Nat /\ MaxEdits \in Nat /\ MaxDbErrors \in Nat
    /\ MaxObjects \in Nat \ {0} /\ MaxObjects >= Retention

Procs == Requests \cup {Scheduled}
NoDay == -1

VARIABLES
    \* The database, the logbook's content and the provider's store.
    row,        \* backup_destinations
    okRuns,     \* backup_runs with status success or skipped: their sha256
    data,       \* the user's current payload
    remote,     \* stored objects of a destination, newest first
    day, inHour,
    \* Shared memory of the API process.
    cur,        \* Service.runLocks, 0 for nil, else the number of the map
    inflight,   \* entries of the maps: <<map, destination>>
    userBusy,   \* Scheduler.userLocks holds the user
    \* The processes.
    pc, job, dst,
    snap,       \* the copy of the destination
    load,       \* SHA-256 of the payload it built
    result,     \* outcome of the run, so far
    rel,        \* the map its deferred release is bound to
    \* Bounds and history.
    edits, dbErrors,
    racedInit,  \* ensureRunLocks replaced a map that was in use
    acked       \* payloads whose upload a destination's provider confirmed

db    == <<row, okRuns, data, remote, day, inHour>>
mem   == <<cur, inflight, userBusy>>
procs == <<pc, job, dst, snap, load, result, rel>>
hist  == <<racedInit, acked>>
vars  == <<db, mem, procs, edits, dbErrors, hist>>

Settings == {"on", "off"}
Rows == [state : {"new", "present", "deleted"}, settings : Settings,
         status : {"active", "error"}, lastError : BOOLEAN,
         failures : 0..FailureLimit, lastSuccess : (0..MaxDay) \cup {NoDay},
         sha : Payloads \cup {NoPayload}]
Labels == {"idle", "init", "read", "acquire", "create", "build", "upload",
           "prune", "finalize", "record", "write"}
Jobs    == {"none", "scheduled", "manual", "rename", "on", "off", "test"}
Results == {"none", "success", "unpruned", "skipped", "failed"}

NewRow == [state |-> "new", settings |-> "off", status |-> "active",
           lastError |-> FALSE, failures |-> 0, lastSuccess |-> NoDay,
           sha |-> NoPayload]

TypeOK ==
    /\ row \in [Dests -> Rows]
    /\ okRuns \in [Dests -> SUBSET Payloads]
    /\ data \in Payloads
    /\ remote \in [Dests -> Seq(Payloads)]
    /\ day \in 0..MaxDay /\ inHour \in BOOLEAN
    /\ cur \in Nat
    /\ inflight \subseteq (Nat \X Dests)
    /\ userBusy \in BOOLEAN
    /\ pc \in [Procs -> Labels]
    /\ job \in [Procs -> Jobs]
    /\ dst \in [Procs -> Dests \cup {NoDest}]
    /\ snap \in [Procs -> Rows]
    /\ load \in [Procs -> Payloads \cup {NoPayload}]
    /\ result \in [Procs -> Results]
    /\ rel \in [Procs -> Nat]
    /\ edits \in 0..MaxEdits /\ dbErrors \in 0..MaxDbErrors
    /\ racedInit \in BOOLEAN
    /\ acked \in [Dests -> SUBSET Payloads]

Init ==
    /\ row = [d \in Dests |-> NewRow]
    /\ okRuns = [d \in Dests |-> {}]
    /\ data \in Payloads
    /\ remote = [d \in Dests |-> <<>>]
    /\ day = 0 /\ inHour = TRUE
    /\ cur = 0 /\ inflight = {} /\ userBusy = FALSE
    /\ pc = [p \in Procs |-> "idle"]
    /\ job = [p \in Procs |-> "none"]
    /\ dst = [p \in Procs |-> NoDest]
    /\ snap = [p \in Procs |-> NewRow]
    /\ load = [p \in Procs |-> NoPayload]
    /\ result = [p \in Procs |-> "none"]
    /\ rel = [p \in Procs |-> 0]
    /\ edits = 0 /\ dbErrors = 0
    /\ racedInit = FALSE
    /\ acked = [d \in Dests |-> {}]

-----------------------------------------------------------------------------
(* Building blocks.                                                        *)

Present(d) == row[d].state = "present"

\* ListDueForRun, for the user's destinations.
Due == {d \in Dests : /\ Present(d)
                      /\ row[d].settings = "on" /\ row[d].status = "active"
                      /\ inHour
                      /\ row[d].lastSuccess < day}

Goto(p, label) == pc' = [pc EXCEPT ![p] = label]

\* The process returns; its locals are gone.
Return(p) ==
    /\ Goto(p, "idle")
    /\ job' = [job EXCEPT ![p] = "none"]
    /\ dst' = [dst EXCEPT ![p] = NoDest]
    /\ snap' = [snap EXCEPT ![p] = NewRow]
    /\ load' = [load EXCEPT ![p] = NoPayload]
    /\ result' = [result EXCEPT ![p] = "none"]
    /\ rel' = [rel EXCEPT ![p] = 0]

\* Mutant: an early return before the deferred release is in place.
LeaveLocked(p, m) ==
    /\ inflight' = IF pc[p] = "create" THEN inflight ELSE inflight \ {<<m, dst[p]>>}
    /\ userBusy' = (userBusy /\ p # Scheduled)
    /\ Return(p)
    /\ UNCHANGED cur

\* RunOnce returns: the deferred releases of the destination's lock, in map m,
\* and of the user's when the scheduler dispatched the goroutine.
Leave(p, m) ==
    /\ inflight' = inflight \ {<<m, dst[p]>>}
    /\ userBusy' = (userBusy /\ p # Scheduled)
    /\ Return(p)
    /\ UNCHANGED cur

DbError == dbErrors < MaxDbErrors /\ dbErrors' = dbErrors + 1

\* destRepo.Update: every column, provided the row still exists.
WriteRow(d, r) ==
    row' = IF Present(d) THEN [row EXCEPT ![d] = r] ELSE row

-----------------------------------------------------------------------------
(* Destinations.                                                           *)

CreateDestination(d, s) ==
    /\ row[d].state = "new"
    /\ edits < MaxEdits /\ edits' = edits + 1
    /\ row' = [row EXCEPT ![d] = [NewRow EXCEPT !.state = "present", !.settings = s]]
    /\ UNCHANGED <<okRuns, data, remote, day, inHour, mem, procs, dbErrors, hist>>

\* ON DELETE CASCADE takes the run records along; stored objects stay.
DeleteDestination(d) ==
    /\ Present(d)
    /\ edits < MaxEdits /\ edits' = edits + 1
    /\ row' = [row EXCEPT ![d] = [NewRow EXCEPT !.state = "deleted"]]
    /\ okRuns' = [okRuns EXCEPT ![d] = {}]
    /\ UNCHANGED <<data, remote, day, inHour, mem, procs, dbErrors, hist>>

\* UpdateDestination and TestDestination read the row ...
EditBegin(p, j, d) ==
    /\ p \in Requests /\ j \in {"rename", "on", "off", "test"}
    /\ pc[p] = "idle" /\ Present(d)
    /\ edits < MaxEdits /\ edits' = edits + 1
    /\ Goto(p, "write")
    /\ job' = [job EXCEPT ![p] = j]
    /\ dst' = [dst EXCEPT ![p] = d]
    /\ snap' = [snap EXCEPT ![p] = row[d]]
    /\ UNCHANGED <<db, mem, load, result, rel, dbErrors, hist>>

\* What UpdateDestination makes of its copy; re-enabling clears the error.
Patched(r, j) ==
    CASE j = "rename" -> r
      [] j = "off" -> [r EXCEPT !.settings = "off"]
      [] j = "on" /\ r.status = "error" ->
           [r EXCEPT !.settings = "on", !.status = "active",
                     !.lastError = FALSE, !.failures = 0]
      [] OTHER -> [r EXCEPT !.settings = "on"]

\* ... and write it back whole.
UpdateDestination(p) ==
    /\ pc[p] = "write" /\ job[p] \in {"rename", "on", "off"}
    /\ WriteRow(dst[p], Patched(snap[p], job[p]))
    /\ Return(p)
    /\ UNCHANGED <<okRuns, data, remote, day, inHour, mem, edits, dbErrors, hist>>

\* Mutant: a passed test re-activates without resetting the counter.
TestedKeepsCount(r, valid) ==
    IF valid THEN [r EXCEPT !.lastError = FALSE, !.status = "active"]
             ELSE [r EXCEPT !.lastError = TRUE, !.status = "error"]

\* What TestDestination makes of its copy, by the provider's verdict.
Tested(r, valid) ==
    CASE ~valid -> [r EXCEPT !.lastError = TRUE, !.status = "error"]
      [] valid /\ (r.lastError \/ r.status = "error") ->
           [r EXCEPT !.lastError = FALSE, !.status = "active", !.failures = 0]
      [] OTHER -> r

\* Nothing to clear, nothing written.
TestDestination(p, valid) ==
    /\ pc[p] = "write" /\ job[p] = "test"
    /\ IF valid /\ Tested(snap[p], valid) = snap[p]
       THEN UNCHANGED row
       ELSE WriteRow(dst[p], Tested(snap[p], valid))
    /\ Return(p)
    /\ UNCHANGED <<okRuns, data, remote, day, inHour, mem, edits, dbErrors, hist>>

\* A refused field, credentials that do not decrypt, or a failing statement.
EditFails(p) ==
    /\ pc[p] = "write"
    /\ Return(p)
    /\ UNCHANGED <<db, mem, edits, dbErrors, hist>>

-----------------------------------------------------------------------------
(* RunOnce.                                                                *)

\* RunOnce is called; ensureRunLocks finds a map, or nil.
Start(p, j, d) ==
    /\ pc[p] = "idle"
    /\ Goto(p, IF cur = 0 THEN "init" ELSE "read")
    /\ job' = [job EXCEPT ![p] = j]
    /\ dst' = [dst EXCEPT ![p] = d]
    /\ UNCHANGED <<snap, load, result, rel>>

RunBackupNow(p, d) ==
    /\ p \in Requests /\ row[d].state # "new"
    /\ Start(p, "manual", d)
    /\ UNCHANGED <<db, mem, edits, dbErrors, hist>>

\* tickOnce and dispatch: the goroutine of a due destination, unless the user
\* already has one.
Dispatch(d) ==
    /\ d \in Due
    /\ ~userBusy /\ userBusy' = TRUE
    /\ Start(Scheduled, "scheduled", d)
    /\ UNCHANGED <<db, cur, inflight, edits, dbErrors, hist>>

\* ensureRunLocks, having seen nil: a new map, whatever happened since.
InitLocks(p) ==
    /\ pc[p] = "init"
    /\ cur' = cur + 1
    /\ racedInit' = (racedInit \/ cur # 0)
    /\ Goto(p, "read")
    /\ UNCHANGED <<db, inflight, userBusy, job, dst, snap, load, result, rel,
                   edits, dbErrors, acked>>

\* requireOwned.
ReadDestination(p) ==
    /\ pc[p] = "read" /\ Present(dst[p])
    /\ Goto(p, "acquire")
    /\ snap' = [snap EXCEPT ![p] = row[dst[p]]]
    /\ UNCHANGED <<db, mem, job, dst, load, result, rel, edits, dbErrors, hist>>

\* RunOnce returns before it holds a lock: the destination is gone
\* (ErrDestinationNotFound) or cannot be read, or tryAcquire finds it busy
\* (ErrConcurrentRun).  Every provider a destination can name is registered
\* before the first request, so that Provider does not fail.
RefuseRun(p) ==
    /\ \/ pc[p] = "read" /\ ~Present(dst[p]) /\ UNCHANGED dbErrors
       \/ pc[p] = "acquire" /\ <<cur, dst[p]>> \in inflight /\ UNCHANGED dbErrors
       \/ pc[p] = "read" /\ DbError
    /\ userBusy' = (userBusy /\ p # Scheduled)
    /\ Return(p)
    /\ UNCHANGED <<db, cur, inflight, edits, hist>>

\* Mutant: tryAcquire does not look before it adds.
TryAcquireAlways(p) ==
    /\ pc[p] = "acquire"
    /\ inflight' = inflight \cup {<<cur, dst[p]>>}
    /\ Goto(p, "create")
    /\ UNCHANGED <<db, cur, userBusy, job, dst, snap, load, result, rel,
                   edits, dbErrors, hist>>

TryAcquire(p) ==
    /\ pc[p] = "acquire" /\ <<cur, dst[p]>> \notin inflight
    /\ inflight' = inflight \cup {<<cur, dst[p]>>}
    /\ Goto(p, "create")
    /\ UNCHANGED <<db, cur, userBusy, job, dst, snap, load, result, rel,
                   edits, dbErrors, hist>>

\* defer release, on the map the service has NOW; then the run record, which
\* says "failed" until finalize.  The destination must still be there.
CreateRun(p) ==
    /\ pc[p] = "create" /\ Present(dst[p])
    /\ Goto(p, "build")
    /\ rel' = [rel EXCEPT ![p] = cur]
    /\ UNCHANGED <<db, mem, job, dst, snap, load, result, edits, dbErrors, hist>>

CreateRunFails(p) ==
    /\ pc[p] = "create"
    /\ IF Present(dst[p]) THEN DbError ELSE UNCHANGED dbErrors
    /\ Leave(p, cur)
    /\ UNCHANGED <<db, edits, hist>>

Finalize(p, res) ==
    /\ Goto(p, "finalize")
    /\ result' = [result EXCEPT ![p] = res]
    /\ UNCHANGED <<job, dst, snap, rel>>

\* decryptCredentials and BuildJSON; a payload the COPY of the destination
\* says was backed up last is skipped.
Build(p) ==
    /\ pc[p] = "build"
    /\ load' = [load EXCEPT ![p] = data]
    /\ IF snap[p].sha = data
       THEN Finalize(p, "skipped")
       ELSE Goto(p, "upload") /\ UNCHANGED <<job, dst, snap, result, rel>>
    /\ UNCHANGED <<db, mem, edits, dbErrors, hist>>

BuildFails(p) ==
    /\ pc[p] = "build"
    /\ Finalize(p, "failed")
    /\ UNCHANGED <<load, db, mem, edits, dbErrors, hist>>

\* The newest n of a list of objects.
Newest(n, s) == SubSeq(s, 1, IF Len(s) < n THEN Len(s) ELSE n)

Store(p) ==
    remote' = [remote EXCEPT ![dst[p]] = Newest(MaxObjects, <<load[p]>> \o @)]

Upload(p) ==
    /\ pc[p] = "upload"
    /\ Store(p)
    /\ acked' = [acked EXCEPT ![dst[p]] = @ \cup {load[p]}]
    /\ IF Retention > 0
       THEN Goto(p, "prune") /\ UNCHANGED <<job, dst, snap, result, rel>>
       ELSE Finalize(p, "success")
    /\ UNCHANGED <<row, okRuns, data, day, inHour, mem, load, edits, dbErrors,
                   racedInit>>

\* The provider reports an error, before or after it stored the object.
UploadFails(p) ==
    /\ pc[p] = "upload"
    /\ UNCHANGED remote \/ Store(p)
    /\ Finalize(p, "failed")
    /\ UNCHANGED <<row, okRuns, data, day, inHour, mem, load, edits, dbErrors, hist>>

\* prune: list, newest first, and delete what exceeds RetentionCount.
Prune(p) ==
    /\ pc[p] = "prune"
    /\ remote' = [remote EXCEPT ![dst[p]] = Newest(Retention, @)]
    /\ Finalize(p, "success")
    /\ UNCHANGED <<row, okRuns, data, day, inHour, mem, load, edits, dbErrors, hist>>

\* prune fails: the run's copy of the destination keeps the message.
PruneFails(p) ==
    /\ pc[p] = "prune"
    /\ Goto(p, "finalize")
    /\ result' = [result EXCEPT ![p] = "unpruned"]
    /\ snap' = [snap EXCEPT ![p] = [@ EXCEPT !.lastError = TRUE]]
    /\ UNCHANGED <<db, mem, job, dst, load, rel, edits, dbErrors, hist>>

\* finalize: the run record first.  It is gone with its destination.
UpdateRun(p) ==
    /\ pc[p] = "finalize" /\ Present(dst[p])
    /\ okRuns' = IF result[p] = "failed" THEN okRuns
                 ELSE [okRuns EXCEPT ![dst[p]] = @ \cup {load[p]}]
    /\ Goto(p, "record")
    /\ UNCHANGED <<row, data, remote, day, inHour, mem, job, dst, snap, load,
                   result, rel, edits, dbErrors, hist>>

UpdateRunFails(p) ==
    /\ pc[p] = "finalize"
    /\ IF Present(dst[p]) THEN DbError ELSE UNCHANGED dbErrors
    /\ Leave(p, rel[p])
    /\ UNCHANGED <<db, edits, hist>>

\* What recordSuccess makes of the copy.
Succeeded(r, sha) ==
    [r EXCEPT !.lastSuccess = day, !.sha = sha, !.failures = 0,
              !.lastError = FALSE, !.status = "active"]

Counted(r) == IF r.failures < FailureLimit THEN r.failures + 1 ELSE FailureLimit

\* Mutant: failures are counted, and nothing follows from it.
FailedKeepsGoing(r) == [r EXCEPT !.failures = Counted(r), !.lastError = TRUE]

\* What recordError makes of the copy.
Failed(r) ==
    [r EXCEPT !.failures = Counted(r), !.lastError = TRUE,
              !.status = IF Counted(r) >= FailureLimit THEN "error" ELSE @]

\* Mutant: the hash is recorded whether or not the run succeeded.
RecordedRegardless(p) ==
    IF result[p] = "failed" THEN [Failed(snap[p]) EXCEPT !.sha = load[p]]
                            ELSE Succeeded(snap[p], load[p])

Recorded(p) ==
    IF result[p] = "failed" THEN Failed(snap[p]) ELSE Succeeded(snap[p], load[p])

\* The destination next: the whole row, from the copy read at the start.
RecordRun(p) ==
    /\ pc[p] = "record"
    /\ WriteRow(dst[p], Recorded(p))
    /\ Leave(p, rel[p])
    /\ UNCHANGED <<okRuns, data, remote, day, inHour, edits, dbErrors, hist>>

\* The error of that write is dropped.
RecordRunFails(p) ==
    /\ pc[p] = "record"
    /\ DbError
    /\ Leave(p, rel[p])
    /\ UNCHANGED <<db, edits, hist>>

-----------------------------------------------------------------------------
(* The surroundings.                                                       *)

\* The pilot edits the logbook.
ChangeData(x) ==
    /\ x # data
    /\ edits < MaxEdits /\ edits' = edits + 1
    /\ data' = x
    /\ UNCHANGED <<row, okRuns, remote, day, inHour, mem, procs, dbErrors, hist>>

\* The scheduled hour ends; a new day brings it back.
Clock ==
    /\ \/ inHour /\ inHour' = FALSE /\ UNCHANGED day
       \/ ~inHour /\ inHour' = TRUE /\ day < MaxDay /\ day' = day + 1
    /\ UNCHANGED <<row, okRuns, data, remote, mem, procs, edits, dbErrors, hist>>

\* The API process dies and comes back with empty memory.
Restart ==
    /\ DbError
    /\ cur' = 0 /\ inflight' = {} /\ userBusy' = FALSE
    /\ pc' = [p \in Procs |-> "idle"]
    /\ job' = [p \in Procs |-> "none"]
    /\ dst' = [p \in Procs |-> NoDest]
    /\ snap' = [p \in Procs |-> NewRow]
    /\ load' = [p \in Procs |-> NoPayload]
    /\ result' = [p \in Procs |-> "none"]
    /\ rel' = [p \in Procs |-> 0]
    /\ racedInit' = FALSE
    /\ UNCHANGED <<db, edits, acked>>

\* The next step of a process that is under way.
Step(p) ==
    \/ InitLocks(p) \/ ReadDestination(p) \/ RefuseRun(p) \/ TryAcquire(p)
    \/ CreateRun(p) \/ CreateRunFails(p)
    \/ Build(p) \/ BuildFails(p)
    \/ Upload(p) \/ UploadFails(p)
    \/ Prune(p) \/ PruneFails(p)
    \/ UpdateRun(p) \/ UpdateRunFails(p)
    \/ RecordRun(p) \/ RecordRunFails(p)
    \/ UpdateDestination(p)
    \/ \E valid \in BOOLEAN : TestDestination(p, valid)
    \/ EditFails(p)

Next ==
    \/ \E p \in Procs : Step(p)
    \/ \E d \in Dests :
         \/ Dispatch(d)
         \/ \E p \in Requests : RunBackupNow(p, d) \/ \E j \in Jobs : EditBegin(p, j, d)
         \/ \E s \in Settings : CreateDestination(d, s)
         \/ DeleteDestination(d)
    \/ \E x \in Payloads : ChangeData(x)
    \/ Clock
    \/ Restart

Spec == Init /\ [][Next]_vars

\* The scheduler's loop ticks every minute, and the runtime runs goroutines.
FairSpec ==
    /\ Spec
    /\ WF_vars(\E d \in Dests : Dispatch(d))
    /\ \A p \in Procs : WF_vars(Step(p))

-----------------------------------------------------------------------------
(* Properties.                                                             *)

\* The processes that hold a destination's lock.
Running(p) == pc[p] \in {"create", "build", "upload", "prune", "finalize", "record"}

\* RunOnce says a second concurrent call against the same destination returns
\* ErrConcurrentRun: no two runs of a destination ever work at once.
ConcurrentRejected ==
    \A p, q \in Procs : p # q /\ Running(p) /\ Running(q) => dst[p] # dst[q]

\* That holds as long as ensureRunLocks never replaced a lock map in use.
OneRunPerDestination == ~racedInit => ConcurrentRejected

\* Every lock of the map in use, and the user's, belongs to a process that is
\* still under way and will release it: no path through RunOnce leaks one.
LocksHaveOwners ==
    /\ \A d \in Dests : <<cur, d>> \in inflight =>
         \E p \in Procs : Running(p) /\ dst[p] = d
    /\ userBusy <=> pc[Scheduled] # "idle"

\* The status is consistent with the counter and the message whatever copies
\* of a row overlap: a destination at the failure limit is in error, so the
\* scheduler leaves it alone, and one in error shows why.
StatusHonest ==
    \A d \in Dests : /\ row[d].status = "active" => row[d].failures < FailureLimit
                     /\ row[d].status = "error" => row[d].lastError

\* last_success_sha256, which makes later runs skip, is the hash of a payload
\* the provider confirmed and a run record reports, however runs, edits and
\* failures of single statements interleave.
BackedUp ==
    \A d \in Dests : row[d].sha # NoPayload => row[d].sha \in okRuns[d] \cap acked[d]

\* A destination is not due for ever: its runs succeed or put it into error,
\* even while another destination of the user keeps failing and both want the
\* user's one slot.
DueIsServed == \A d \in Dests : []<>(d \notin Due)

\* The comment on retention pruning: a failure "only lands in the destination's
\* last_error field".
PruneErrorShown ==
    [][\A p \in Procs : RecordRun(p) /\ result[p] = "unpruned" /\ Present(dst[p])
         => row'[dst[p]].lastError]_vars

\* The comment on recordSuccess: it updates status, timestamps and the failure
\* counter, so the user's settings survive a run.
SettingsKept ==
    [][\A p \in Procs : RecordRun(p) /\ result[p] # "failed"
         => row'[dst[p]].settings = row[dst[p]].settings]_vars

\* PATCH modifies only supplied fields, so what runs recorded survives it.
OnlySuppliedFields ==
    [][\A p \in Procs : UpdateDestination(p)
         => row'[dst[p]].sha = row[dst[p]].sha]_vars

\* A run is skipped because its data has not changed since it was stored: the
\* destination holds that payload (left aside what a replaced lock map causes).
SkippedMeansStored ==
    \A p \in Procs : ~racedInit /\ pc[p] = "finalize" /\ result[p] = "skipped" =>
        \E i \in 1..Len(remote[dst[p]]) : remote[dst[p]][i] = load[p]
=============================================================================
