------------------------- MODULE CloudBackupProofs -------------------------
(***************************************************************************)
(* Safety of CloudBackup for every number of destinations, requests and    *)
(* payloads, every retention and every failure limit.                      *)
(***************************************************************************)
EXTENDS CloudBackup, TLAPS

\* The processes that work on a copy of their destination.
HasCopy(p) == Running(p) \/ pc[p] \in {"acquire", "write"}

\* A process under way works on a destination that was created; the copy it
\* writes back is one of an existing row, and it uploads what it built.
Located ==
    /\ \A p \in Procs : pc[p] # "idle" => dst[p] \in Dests /\ row[dst[p]].state # "new"
    /\ \A p \in Procs : HasCopy(p) => snap[p].state = "present"
    /\ \A p \in Procs :
         \/ pc[p] \in {"upload", "prune"}
         \/ pc[p] \in {"finalize", "record"} /\ result[p] # "failed"
         => load[p] \in Payloads

Honest(r) == /\ r.status = "active" => r.failures < FailureLimit
             /\ r.status = "error" => r.lastError

\* Rows are overwritten by copies, so the copies must be honest as well.
AllHonest == /\ \A d \in Dests : Honest(row[d])
             /\ \A p \in Procs : Honest(snap[p])

Backed(r, d) == r.sha # NoPayload => r.sha \in okRuns[d] \cap acked[d]

\* The hashes rows carry, copies carry and runs are about to record.
AllBacked ==
    /\ \A d \in Dests : Backed(row[d], d)
    /\ \A p \in Procs : HasCopy(p) /\ Present(dst[p]) => Backed(snap[p], dst[p])
    /\ \A p \in Procs :
         /\ \/ pc[p] = "prune"
            \/ pc[p] \in {"finalize", "record"} /\ result[p] # "failed"
         /\ Present(dst[p])
         => load[p] \in acked[dst[p]]
    /\ \A p \in Procs :
         pc[p] = "record" /\ result[p] # "failed" /\ Present(dst[p])
         => load[p] \in okRuns[dst[p]]

\* A process whose deferred release is, or is about to be, bound to the map in
\* use.
Releases(p) == Running(p) /\ (pc[p] = "create" \/ rel[p] = cur)

\* Who owns which lock.
LocksKept ==
    /\ \A m \in Nat, d \in Dests : <<m, d>> \in inflight => m <= cur
    /\ \A d \in Dests : <<cur, d>> \in inflight =>
         \E p \in Procs : Releases(p) /\ dst[p] = d
    /\ \A p \in Procs : Running(p) \/ pc[p] \in {"read", "acquire"} => cur # 0
    /\ ~racedInit => \A p \in Procs : Running(p) =>
                       Releases(p) /\ <<cur, dst[p]>> \in inflight
    /\ userBusy <=> pc[Scheduled] # "idle"
    /\ pc[Scheduled] # "write"

IInv == /\ TypeOK
        /\ Located
        /\ AllHonest
        /\ AllBacked
        /\ LocksKept
        /\ OneRunPerDestination

-----------------------------------------------------------------------------
(* Rows.                                                                   *)

\* A counter starts within its range and below the limit.
LEMMA Limit == 0 \in 0..FailureLimit /\ 0 < FailureLimit /\ FailureLimit \in Nat
BY CloudBackupAssumption

\* A fresh row is well typed and honest.
LEMMA NewRowType == NewRow \in Rows /\ Honest(NewRow)
BY Limit DEF NewRow, Rows, Settings, Honest, NoDay

\* So is what an edit makes of a copy ...
LEMMA PatchedRow ==
    ASSUME NEW r \in Rows, NEW j \in {"rename", "on", "off"}, Honest(r)
    PROVE  /\ Patched(r, j) \in Rows /\ Honest(Patched(r, j))
           /\ Patched(r, j).state = r.state /\ Patched(r, j).sha = r.sha
<1>1. CASE j = "rename"
  BY <1>1 DEF Patched
<1>2. CASE j = "off"
  BY <1>2 DEF Patched, Rows, Settings, Honest
<1>3. CASE j = "on" /\ r.status = "error"
  <2>1. Patched(r, j) = [r EXCEPT !.settings = "on", !.status = "active",
                                  !.lastError = FALSE, !.failures = 0]
    BY <1>3 DEF Patched
  <2> QED BY <2>1, Limit DEF Rows, Settings, Honest
<1>4. CASE j = "on" /\ r.status # "error"
  BY <1>4 DEF Patched, Rows, Settings, Honest
<1> QED BY <1>1, <1>2, <1>3, <1>4

\* ... and a connection test.
LEMMA TestedRow ==
    ASSUME NEW r \in Rows, NEW valid \in BOOLEAN, Honest(r)
    PROVE  /\ Tested(r, valid) \in Rows /\ Honest(Tested(r, valid))
           /\ Tested(r, valid).state = r.state /\ Tested(r, valid).sha = r.sha
<1>1. CASE ~valid
  BY <1>1 DEF Tested, Rows, Honest
<1>2. CASE valid /\ (r.lastError \/ r.status = "error")
  <2>1. Tested(r, valid) = [r EXCEPT !.lastError = FALSE, !.status = "active",
                                     !.failures = 0]
    BY <1>2 DEF Tested
  <2> QED BY <2>1, Limit DEF Rows, Honest
<1>3. CASE valid /\ ~(r.lastError \/ r.status = "error")
  BY <1>3 DEF Tested
<1> QED BY <1>1, <1>2, <1>3

\* recordError reaches the limit and the error status together; recordSuccess
\* leaves both.
LEMMA RecordedRow ==
    ASSUME NEW r \in Rows, NEW sha \in Payloads \cup {NoPayload},
           day \in 0..MaxDay, Honest(r)
    PROVE  /\ Failed(r) \in Rows /\ Honest(Failed(r))
           /\ Failed(r).state = r.state /\ Failed(r).sha = r.sha
           /\ Succeeded(r, sha) \in Rows /\ Honest(Succeeded(r, sha))
           /\ Succeeded(r, sha).state = r.state /\ Succeeded(r, sha).sha = sha
<1>1. Counted(r) \in 0..FailureLimit
  BY Limit DEF Counted, Rows
<1>2. /\ Failed(r) \in Rows
      /\ Failed(r).state = r.state /\ Failed(r).sha = r.sha
  BY <1>1 DEF Failed, Rows
<1>3. Honest(Failed(r))
  BY <1>1, Limit DEF Failed, Rows, Honest
<1>4. /\ Succeeded(r, sha) \in Rows
      /\ Succeeded(r, sha).state = r.state /\ Succeeded(r, sha).sha = sha
  BY Limit DEF Succeeded, Rows
<1>5. Honest(Succeeded(r, sha))
  BY Limit DEF Succeeded, Rows, Honest
<1> QED BY <1>2, <1>3, <1>4, <1>5

\* The newest objects of a list of payloads are a list of payloads.
LEMMA NewestType ==
    ASSUME NEW S, NEW s \in Seq(S), NEW n \in Nat
    PROVE  Newest(n, s) \in Seq(S)
BY DEF Newest

-----------------------------------------------------------------------------
(* Type correctness.                                                       *)

\* A returning process leaves well-typed locals.
LEMMA ReturnType ==
    ASSUME TypeOK, NEW p \in Procs, Return(p)
    PROVE  /\ pc' \in [Procs -> Labels] /\ job' \in [Procs -> Jobs]
           /\ dst' \in [Procs -> Dests \cup {NoDest}] /\ snap' \in [Procs -> Rows]
           /\ load' \in [Procs -> Payloads \cup {NoPayload}]
           /\ result' \in [Procs -> Results] /\ rel' \in [Procs -> Nat]
BY NewRowType DEF TypeOK, Return, Goto, Labels, Jobs, Results

\* So does one that gives its locks back.
LEMMA LeaveType ==
    ASSUME TypeOK, NEW p \in Procs, NEW m \in Nat, Leave(p, m)
    PROVE  /\ Return(p) /\ cur' \in Nat /\ inflight' \subseteq (Nat \X Dests)
           /\ userBusy' \in BOOLEAN
BY DEF TypeOK, Leave

\* An upload keeps the lists of objects lists of payloads.
LEMMA StoreType ==
    ASSUME TypeOK, NEW p \in Procs, dst[p] \in Dests, load[p] \in Payloads, Store(p)
    PROVE  remote' \in [Dests -> Seq(Payloads)]
<1>1. MaxObjects \in Nat /\ remote[dst[p]] \in Seq(Payloads)
  BY CloudBackupAssumption DEF TypeOK
<1>2. <<load[p]>> \o remote[dst[p]] \in Seq(Payloads)
  BY <1>1
<1>3. Newest(MaxObjects, <<load[p]>> \o remote[dst[p]]) \in Seq(Payloads)
  BY <1>1, <1>2, NewestType
<1> QED BY <1>3 DEF Store, TypeOK

\* The bound on failing statements keeps their counter in range.
LEMMA DbErrorType ==
    ASSUME TypeOK, DbError \/ UNCHANGED dbErrors
    PROVE  dbErrors' \in 0..MaxDbErrors
BY CloudBackupAssumption DEF TypeOK, DbError

\* Every step keeps the state well typed.
LEMMA TypeStep ==
    ASSUME TypeOK, Located, AllHonest, [Next]_vars
    PROVE  TypeOK'
<1> USE DEF Labels, Jobs, Results
<1>1. CASE UNCHANGED vars
  BY <1>1 DEF TypeOK, vars, db, mem, procs, hist
<1>2. ASSUME NEW d \in Dests, NEW s \in Settings, CreateDestination(d, s)
      PROVE  TypeOK'
  <2>1. [NewRow EXCEPT !.state = "present", !.settings = s] \in Rows
    BY NewRowType DEF Rows
  <2>2. edits' \in 0..MaxEdits
    BY <1>2, CloudBackupAssumption DEF CreateDestination, TypeOK
  <2> QED BY <1>2, <2>1, <2>2 DEF CreateDestination, TypeOK, mem, procs, hist
<1>3. ASSUME NEW d \in Dests, DeleteDestination(d) PROVE TypeOK'
  <2>1. [NewRow EXCEPT !.state = "deleted"] \in Rows
    BY NewRowType DEF Rows
  <2>2. edits' \in 0..MaxEdits
    BY <1>3, CloudBackupAssumption DEF DeleteDestination, TypeOK
  <2> QED BY <1>3, <2>1, <2>2 DEF DeleteDestination, TypeOK, mem, procs, hist
<1>4. ASSUME NEW p \in Requests, NEW j \in Jobs, NEW d \in Dests, EditBegin(p, j, d)
      PROVE  TypeOK'
  <2>1. edits' \in 0..MaxEdits
    BY <1>4, CloudBackupAssumption DEF EditBegin, TypeOK
  <2> QED BY <1>4, <2>1 DEF EditBegin, TypeOK, Goto, db, mem, hist
<1>5. ASSUME NEW p \in Procs, UpdateDestination(p) PROVE TypeOK'
  <2>1. Patched(snap[p], job[p]) \in Rows /\ dst[p] \in Dests
    BY <1>5, PatchedRow DEF UpdateDestination, TypeOK, Located, AllHonest
  <2>2. row' \in [Dests -> Rows] /\ Return(p)
    BY <1>5, <2>1 DEF UpdateDestination, WriteRow, TypeOK
  <2> QED BY <1>5, <2>2, ReturnType DEF UpdateDestination, TypeOK, mem, hist
<1>6. ASSUME NEW p \in Procs, NEW valid \in BOOLEAN, TestDestination(p, valid)
      PROVE  TypeOK'
  <2>1. Tested(snap[p], valid) \in Rows /\ dst[p] \in Dests
    BY <1>6, TestedRow DEF TestDestination, TypeOK, Located, AllHonest
  <2>2. row' \in [Dests -> Rows] /\ Return(p)
    BY <1>6, <2>1 DEF TestDestination, WriteRow, TypeOK
  <2> QED BY <1>6, <2>2, ReturnType DEF TestDestination, TypeOK, mem, hist
<1>7. ASSUME NEW p \in Procs, EditFails(p) PROVE TypeOK'
  BY <1>7, ReturnType DEF EditFails, TypeOK, db, mem, hist
<1>8. ASSUME NEW p \in Requests, NEW d \in Dests, RunBackupNow(p, d) PROVE TypeOK'
  BY <1>8 DEF RunBackupNow, Start, Goto, TypeOK, db, mem, hist
<1>9. ASSUME NEW d \in Dests, Dispatch(d) PROVE TypeOK'
  BY <1>9 DEF Dispatch, Start, Goto, TypeOK, db, hist
<1>10. ASSUME NEW p \in Procs, InitLocks(p) PROVE TypeOK'
  BY <1>10 DEF InitLocks, Goto, TypeOK, db
<1>11. ASSUME NEW p \in Procs, ReadDestination(p) PROVE TypeOK'
  BY <1>11 DEF ReadDestination, Goto, TypeOK, Located, db, mem, hist
<1>12. ASSUME NEW p \in Procs, RefuseRun(p) PROVE TypeOK'
  <2>1. DbError \/ UNCHANGED dbErrors
    BY <1>12 DEF RefuseRun
  <2> QED BY <1>12, <2>1, DbErrorType, ReturnType DEF RefuseRun, TypeOK, db, hist
<1>13. ASSUME NEW p \in Procs, TryAcquire(p) PROVE TypeOK'
  BY <1>13 DEF TryAcquire, Goto, TypeOK, Located, db, hist
<1>14. ASSUME NEW p \in Procs, CreateRun(p) PROVE TypeOK'
  BY <1>14 DEF CreateRun, Goto, TypeOK, db, mem, hist
<1>15. ASSUME NEW p \in Procs, CreateRunFails(p) PROVE TypeOK'
  <2>1. Leave(p, cur) /\ (DbError \/ UNCHANGED dbErrors)
    BY <1>15 DEF CreateRunFails
  <2>2. cur \in Nat
    BY DEF TypeOK
  <2> QED BY <1>15, <2>1, <2>2, LeaveType, ReturnType, DbErrorType
          DEF CreateRunFails, TypeOK, db, hist
<1>16. ASSUME NEW p \in Procs, Build(p) PROVE TypeOK'
  BY <1>16 DEF Build, Finalize, Goto, TypeOK, db, mem, hist
<1>17. ASSUME NEW p \in Procs, BuildFails(p) PROVE TypeOK'
  BY <1>17 DEF BuildFails, Finalize, Goto, TypeOK, db, mem, hist
<1>18. ASSUME NEW p \in Procs, Upload(p) PROVE TypeOK'
  <2>1. dst[p] \in Dests /\ load[p] \in Payloads
    BY <1>18 DEF Upload, Located
  <2>2. remote' \in [Dests -> Seq(Payloads)]
    BY <1>18, <2>1, StoreType DEF Upload
  <2>3. acked' \in [Dests -> SUBSET Payloads]
    BY <1>18, <2>1 DEF Upload, TypeOK
  <2> QED BY <1>18, <2>2, <2>3 DEF Upload, Finalize, Goto, TypeOK, mem
<1>19. ASSUME NEW p \in Procs, UploadFails(p) PROVE TypeOK'
  <2>1. dst[p] \in Dests /\ load[p] \in Payloads
    BY <1>19 DEF UploadFails, Located
  <2>2. remote' \in [Dests -> Seq(Payloads)]
    BY <1>19, <2>1, StoreType DEF UploadFails, TypeOK
  <2> QED BY <1>19, <2>2 DEF UploadFails, Finalize, Goto, TypeOK, mem, hist
<1>20. ASSUME NEW p \in Procs, Prune(p) PROVE TypeOK'
  <2>1. dst[p] \in Dests /\ Retention \in Nat /\ remote[dst[p]] \in Seq(Payloads)
    BY <1>20, CloudBackupAssumption DEF Prune, Located, TypeOK
  <2>2. Newest(Retention, remote[dst[p]]) \in Seq(Payloads)
    BY <2>1, NewestType
  <2> QED BY <1>20, <2>1, <2>2 DEF Prune, Finalize, Goto, TypeOK, mem, hist
<1>21. ASSUME NEW p \in Procs, PruneFails(p) PROVE TypeOK'
  <2>1. [snap[p] EXCEPT !.lastError = TRUE] \in Rows
    <3>1. snap[p] \in Rows
      BY DEF TypeOK
    <3> QED BY <3>1 DEF Rows
  <2> QED BY <1>21, <2>1 DEF PruneFails, Goto, TypeOK, db, mem, hist
<1>22. ASSUME NEW p \in Procs, UpdateRun(p) PROVE TypeOK'
  <2>1. okRuns' \in [Dests -> SUBSET Payloads]
    BY <1>22 DEF UpdateRun, TypeOK, Located
  <2> QED BY <1>22, <2>1 DEF UpdateRun, Goto, TypeOK, mem, hist
<1>23. ASSUME NEW p \in Procs, UpdateRunFails(p) PROVE TypeOK'
  <2>1. Leave(p, rel[p]) /\ (DbError \/ UNCHANGED dbErrors)
    BY <1>23 DEF UpdateRunFails
  <2>2. rel[p] \in Nat
    BY DEF TypeOK
  <2> QED BY <1>23, <2>1, <2>2, LeaveType, ReturnType, DbErrorType
          DEF UpdateRunFails, TypeOK, db, hist
<1>24. ASSUME NEW p \in Procs, RecordRun(p) PROVE TypeOK'
  <2>1. Recorded(p) \in Rows /\ dst[p] \in Dests
    BY <1>24, RecordedRow DEF RecordRun, Recorded, TypeOK, Located, AllHonest
  <2>2. row' \in [Dests -> Rows] /\ Leave(p, rel[p]) /\ rel[p] \in Nat
    BY <1>24, <2>1 DEF RecordRun, WriteRow, TypeOK
  <2> QED BY <1>24, <2>2, LeaveType, ReturnType DEF RecordRun, TypeOK, hist
<1>25. ASSUME NEW p \in Procs, RecordRunFails(p) PROVE TypeOK'
  <2>1. Leave(p, rel[p]) /\ DbError /\ rel[p] \in Nat
    BY <1>25 DEF RecordRunFails, TypeOK
  <2> QED BY <1>25, <2>1, LeaveType, ReturnType, DbErrorType
          DEF RecordRunFails, TypeOK, db, hist
<1>26. ASSUME NEW x \in Payloads, ChangeData(x) PROVE TypeOK'
  <2>1. edits' \in 0..MaxEdits
    BY <1>26, CloudBackupAssumption DEF ChangeData, TypeOK
  <2> QED BY <1>26, <2>1 DEF ChangeData, TypeOK, mem, procs, hist
<1>27. CASE Clock
  <2>1. day' \in 0..MaxDay
    BY <1>27, CloudBackupAssumption, SMT DEF Clock, TypeOK
  <2>2. inHour' \in BOOLEAN
    BY <1>27 DEF Clock
  <2> QED BY <1>27, <2>1, <2>2 DEF Clock, TypeOK, mem, procs, hist
<1>28. CASE Restart
  BY <1>28, DbErrorType, NewRowType DEF Restart, TypeOK, db
<1> QED
  BY <1>1, <1>2, <1>3, <1>4, <1>5, <1>6, <1>7, <1>8, <1>9, <1>10, <1>11, <1>12,
     <1>13, <1>14, <1>15, <1>16, <1>17, <1>18, <1>19, <1>20, <1>21, <1>22, <1>23,
     <1>24, <1>25, <1>26, <1>27, <1>28 DEF Next, Step

-----------------------------------------------------------------------------
(* Where the processes are.                                                *)

\* Every step keeps processes on destinations that were created, with copies
\* of existing rows and with the payload they built.
LEMMA LocatedStep ==
    ASSUME TypeOK, Located, AllHonest, [Next]_vars
    PROVE  Located'
<1> USE DEF Located, HasCopy, Running, TypeOK, Labels
<1>1. CASE UNCHANGED vars
  BY <1>1 DEF vars, db, procs
<1>2. ASSUME NEW d \in Dests, NEW s \in Settings, CreateDestination(d, s)
      PROVE  Located'
  <2>1. \A e \in Dests : row[e].state # "new" => row'[e].state # "new"
    BY <1>2, NewRowType DEF CreateDestination
  <2> QED BY <1>2, <2>1 DEF CreateDestination, procs
<1>3. ASSUME NEW d \in Dests, DeleteDestination(d) PROVE Located'
  <2>1. \A e \in Dests : row[e].state # "new" => row'[e].state # "new"
    BY <1>3, NewRowType DEF DeleteDestination
  <2> QED BY <1>3, <2>1 DEF DeleteDestination, procs
<1>4. ASSUME NEW p \in Requests, NEW j \in Jobs, NEW d \in Dests, EditBegin(p, j, d)
      PROVE  Located'
  BY <1>4 DEF EditBegin, Goto, Present, Procs, db
<1>5. ASSUME NEW p \in Procs, UpdateDestination(p) PROVE Located'
  <2>1. Patched(snap[p], job[p]).state # "new" /\ dst[p] \in Dests
    BY <1>5, PatchedRow DEF UpdateDestination, AllHonest
  <2>2. \A e \in Dests : row[e].state # "new" => row'[e].state # "new"
    BY <1>5, <2>1 DEF UpdateDestination, WriteRow
  <2> QED BY <1>5, <2>2 DEF UpdateDestination, Return, Goto
<1>6. ASSUME NEW p \in Procs, NEW valid \in BOOLEAN, TestDestination(p, valid)
      PROVE  Located'
  <2>1. Tested(snap[p], valid).state # "new" /\ dst[p] \in Dests
    BY <1>6, TestedRow DEF TestDestination, AllHonest
  <2>2. \A e \in Dests : row[e].state # "new" => row'[e].state # "new"
    BY <1>6, <2>1 DEF TestDestination, WriteRow
  <2> QED BY <1>6, <2>2 DEF TestDestination, Return, Goto
<1>7. ASSUME NEW p \in Procs, RecordRun(p) PROVE Located'
  <2>1. snap[p].state = "present" /\ dst[p] \in Dests
    BY <1>7 DEF RecordRun
  <2>3. Recorded(p).state = snap[p].state
    BY RecordedRow DEF Recorded, AllHonest
  <2>2. \A e \in Dests : row[e].state # "new" => row'[e].state # "new"
    BY <1>7, <2>1, <2>3 DEF RecordRun, WriteRow
  <2> QED BY <1>7, <2>2 DEF RecordRun, Leave, Return, Goto
<1>8. ASSUME NEW p \in Procs,
             \/ EditFails(p) \/ RefuseRun(p) \/ CreateRunFails(p)
             \/ UpdateRunFails(p) \/ RecordRunFails(p)
      PROVE  Located'
  BY <1>8, ZenonT(60) DEF EditFails, RefuseRun, CreateRunFails, UpdateRunFails, RecordRunFails,
              Leave, Return, Goto, db
<1>9. ASSUME NEW p \in Requests, NEW d \in Dests, RunBackupNow(p, d) PROVE Located'
  BY <1>9 DEF RunBackupNow, Start, Goto, Procs, db
<1>10. ASSUME NEW d \in Dests, Dispatch(d) PROVE Located'
  BY <1>10 DEF Dispatch, Due, Present, Start, Goto, Procs, db
<1>11. ASSUME NEW p \in Procs,
              InitLocks(p) \/ ReadDestination(p) \/ TryAcquire(p) \/ CreateRun(p)
       PROVE  Located'
  BY <1>11 DEF InitLocks, ReadDestination, Present, TryAcquire, CreateRun, Goto, db
<1>12. ASSUME NEW p \in Procs, Build(p) \/ BuildFails(p) PROVE Located'
  BY <1>12, ZenonT(60) DEF Build, BuildFails, Finalize, Goto, db
<1>13. ASSUME NEW p \in Procs, Upload(p) \/ UploadFails(p) \/ Prune(p) PROVE Located'
  BY <1>13 DEF Upload, UploadFails, Prune, Finalize, Goto
<1>14. ASSUME NEW p \in Procs, PruneFails(p) PROVE Located'
  <2>1. [snap[p] EXCEPT !.lastError = TRUE].state = snap[p].state
    BY DEF Rows
  <2> QED BY <1>14, <2>1 DEF PruneFails, Goto, db
<1>15. ASSUME NEW p \in Procs, UpdateRun(p) PROVE Located'
  BY <1>15 DEF UpdateRun, Goto
<1>16. ASSUME NEW x \in Payloads, ChangeData(x) PROVE Located'
  BY <1>16 DEF ChangeData, procs
<1>17. CASE Clock
  BY <1>17 DEF Clock, procs
<1>18. CASE Restart
  BY <1>18 DEF Restart, db
<1> QED
  BY <1>1, <1>2, <1>3, <1>4, <1>5, <1>6, <1>7, <1>8, <1>9, <1>10, <1>11, <1>12,
     <1>13, <1>14, <1>15, <1>16, <1>17, <1>18 DEF Next, Step

-----------------------------------------------------------------------------
(* The status of a destination.                                            *)

\* Every row that is written, and every copy that is taken, is honest.
LEMMA HonestStep ==
    ASSUME TypeOK, Located, AllHonest, [Next]_vars
    PROVE  AllHonest'
<1> USE DEF AllHonest, TypeOK
<1>1. CASE UNCHANGED vars
  BY <1>1 DEF vars, db, procs
<1>2. ASSUME NEW d \in Dests, NEW s \in Settings, CreateDestination(d, s)
      PROVE  AllHonest'
  <2>1. Honest([NewRow EXCEPT !.state = "present", !.settings = s])
    BY Limit DEF NewRow, Honest
  <2> QED BY <1>2, <2>1 DEF CreateDestination, procs
<1>3. ASSUME NEW d \in Dests, DeleteDestination(d) PROVE AllHonest'
  <2>1. Honest([NewRow EXCEPT !.state = "deleted"])
    BY Limit DEF NewRow, Honest
  <2> QED BY <1>3, <2>1 DEF DeleteDestination, procs
<1>4. ASSUME NEW p \in Requests, NEW j \in Jobs, NEW d \in Dests, EditBegin(p, j, d)
      PROVE  AllHonest'
  BY <1>4 DEF EditBegin, Procs, db
<1>5. ASSUME NEW p \in Procs, UpdateDestination(p) PROVE AllHonest'
  <2>1. Honest(Patched(snap[p], job[p])) /\ dst[p] \in Dests
    BY <1>5, PatchedRow DEF UpdateDestination, Located
  <2> QED BY <1>5, <2>1, NewRowType DEF UpdateDestination, WriteRow, Return
<1>6. ASSUME NEW p \in Procs, NEW valid \in BOOLEAN, TestDestination(p, valid)
      PROVE  AllHonest'
  <2>1. Honest(Tested(snap[p], valid)) /\ dst[p] \in Dests
    BY <1>6, TestedRow DEF TestDestination, Located
  <2> QED BY <1>6, <2>1, NewRowType DEF TestDestination, WriteRow, Return
<1>7. ASSUME NEW p \in Procs, RecordRun(p) PROVE AllHonest'
  <2>1. Honest(Recorded(p)) /\ dst[p] \in Dests
    BY <1>7, RecordedRow DEF RecordRun, Recorded, Located
  <2> QED BY <1>7, <2>1, NewRowType DEF RecordRun, WriteRow, Leave, Return
<1>8. ASSUME NEW p \in Procs,
             \/ EditFails(p) \/ RefuseRun(p) \/ CreateRunFails(p)
             \/ UpdateRunFails(p) \/ RecordRunFails(p)
      PROVE  AllHonest'
  BY <1>8, NewRowType DEF EditFails, RefuseRun, CreateRunFails, UpdateRunFails,
                          RecordRunFails, Leave, Return, db
<1>9. ASSUME NEW p \in Procs, ReadDestination(p) PROVE AllHonest'
  BY <1>9 DEF ReadDestination, Located, db
<1>10. ASSUME NEW p \in Procs, PruneFails(p) PROVE AllHonest'
  <2>1. Honest([snap[p] EXCEPT !.lastError = TRUE])
    BY DEF Rows, Honest
  <2> QED BY <1>10, <2>1 DEF PruneFails, db
<1>11. ASSUME UNCHANGED <<row, snap>> PROVE AllHonest'
  BY <1>11
<1>12. CASE Restart
  BY <1>12, NewRowType DEF Restart, db
<1> QED
  BY <1>1, <1>2, <1>3, <1>4, <1>5, <1>6, <1>7, <1>8, <1>9, <1>10, <1>11, <1>12
  DEF Next, Step, RunBackupNow, Dispatch, Start, InitLocks, TryAcquire, CreateRun,
      Build, BuildFails, Upload, UploadFails, Prune, UpdateRun, Finalize,
      ChangeData, Clock, db, procs

-----------------------------------------------------------------------------
(* What last_success_sha256 stands for.                                    *)

\* A step that writes no row, and lets no process into or on within the part
\* of a run that AllBacked speaks of, only has to keep the records.
LEMMA BackedQuiet ==
    ASSUME TypeOK, Located, AllBacked,
           UNCHANGED row,
           \A d \in Dests : okRuns[d] \subseteq okRuns'[d] /\ acked[d] \subseteq acked'[d],
           \A p \in Procs : \/ ~HasCopy(p)'
                            \/ UNCHANGED <<pc[p], dst[p], snap[p], load[p], result[p]>>
    PROVE  AllBacked'
BY DEF AllBacked, Backed, Located, HasCopy, Running, Present, TypeOK

\* Every hash that is written into a row is one AllBacked vouches for.
LEMMA BackedStep ==
    ASSUME TypeOK, Located, AllHonest, AllBacked, [Next]_vars
    PROVE  AllBacked'
<1> USE DEF HasCopy, Running, TypeOK
<1>1. CASE UNCHANGED vars
  BY <1>1, BackedQuiet DEF vars, db, procs, hist
<1>2. ASSUME NEW d \in Dests, NEW s \in Settings, CreateDestination(d, s)
      PROVE  AllBacked'
  BY <1>2 DEF CreateDestination, procs, hist, AllBacked, Backed, Located, NewRow, Present
<1>3. ASSUME NEW d \in Dests, DeleteDestination(d) PROVE AllBacked'
  BY <1>3 DEF DeleteDestination, procs, hist, AllBacked, Backed, Located, NewRow, Present
<1>4. ASSUME NEW p \in Requests, NEW j \in Jobs, NEW d \in Dests, EditBegin(p, j, d)
      PROVE  AllBacked'
  BY <1>4 DEF EditBegin, Goto, Procs, db, hist, AllBacked, Backed, Located, Present
<1>5. ASSUME NEW p \in Procs, UpdateDestination(p) PROVE AllBacked'
  <2>1. /\ Patched(snap[p], job[p]).sha = snap[p].sha /\ dst[p] \in Dests
        /\ Patched(snap[p], job[p]).state = "present"
    BY <1>5, PatchedRow, SMTT(60) DEF UpdateDestination, Located, AllHonest
  <2> QED BY <1>5, <2>1 DEF UpdateDestination, WriteRow, Return, Goto, hist,
                            AllBacked, Backed, Located, Present
<1>6. ASSUME NEW p \in Procs, NEW valid \in BOOLEAN, TestDestination(p, valid)
      PROVE  AllBacked'
  <2>1. /\ Tested(snap[p], valid).sha = snap[p].sha /\ dst[p] \in Dests
        /\ Tested(snap[p], valid).state = "present"
    BY <1>6, TestedRow, ZenonT(60) DEF TestDestination, Located, AllHonest
  <2>2. CASE UNCHANGED row
    BY <1>6, <2>2, BackedQuiet DEF TestDestination, Return, Goto, hist
  <2>3. CASE WriteRow(dst[p], Tested(snap[p], valid))
    BY <1>6, <2>1, <2>3 DEF TestDestination, WriteRow, Return, Goto, hist,
                            AllBacked, Backed, Located, Present
  <2> QED BY <1>6, <2>2, <2>3 DEF TestDestination
<1>7. ASSUME NEW p \in Procs, RecordRun(p) PROVE AllBacked'
  <2>1. dst[p] \in Dests /\ snap[p].state = "present"
    BY <1>7 DEF RecordRun, Located
  <2>2. Recorded(p).state = "present"
    BY <2>1, RecordedRow DEF Recorded, AllHonest
  <2>3. Recorded(p).sha = IF result[p] = "failed" THEN snap[p].sha ELSE load[p]
    BY RecordedRow, ZenonT(60) DEF Recorded, AllHonest
  <2>4. Present(dst[p]) => Backed(Recorded(p), dst[p])
    BY <1>7, <2>3 DEF RecordRun, AllBacked, Backed
  <2> QED BY <1>7, <2>1, <2>2, <2>4 DEF RecordRun, WriteRow, Leave, Return, Goto, hist,
                                        AllBacked, Backed, Located, Present
<1>8. ASSUME NEW p \in Procs,
             \/ EditFails(p) \/ RefuseRun(p) \/ CreateRunFails(p)
             \/ UpdateRunFails(p) \/ RecordRunFails(p)
      PROVE  AllBacked'
  BY <1>8, BackedQuiet, SMTT(60) DEF EditFails, RefuseRun, CreateRunFails, UpdateRunFails,
                           RecordRunFails, Leave, Return, Goto, db, hist
<1>9. ASSUME NEW p \in Requests, NEW d \in Dests, RunBackupNow(p, d) PROVE AllBacked'
  BY <1>9, BackedQuiet DEF RunBackupNow, Start, Goto, Procs, db, hist
<1>10. ASSUME NEW d \in Dests, Dispatch(d) PROVE AllBacked'
  BY <1>10, BackedQuiet DEF Dispatch, Start, Goto, Procs, db, hist
<1>11. ASSUME NEW p \in Procs, InitLocks(p) PROVE AllBacked'
  BY <1>11, BackedQuiet DEF InitLocks, Goto, db
<1>12. ASSUME NEW p \in Procs, ReadDestination(p) \/ TryAcquire(p) \/ CreateRun(p)
       PROVE  AllBacked'
  BY <1>12 DEF ReadDestination, TryAcquire, CreateRun, Goto, db, hist, AllBacked,
               Backed, Located, Present
<1>13. ASSUME NEW p \in Procs, Build(p) \/ BuildFails(p) PROVE AllBacked'
  <2>1. CASE BuildFails(p)
    BY <1>13, <2>1 DEF BuildFails, Finalize, Goto, db, hist, AllBacked, Backed, Present
  <2>2. CASE Build(p) /\ snap[p].sha = data
    <3>1. Present(dst[p]) => data \in acked[dst[p]]
      BY <2>2, CloudBackupAssumption DEF Build, AllBacked, Backed
    <3> QED BY <2>2, <3>1 DEF Build, Finalize, Goto, db, hist, AllBacked, Backed, Present
  <2>3. CASE Build(p) /\ snap[p].sha # data
    BY <2>3 DEF Build, Goto, db, hist, AllBacked, Backed, Present
  <2> QED BY <1>13, <2>1, <2>2, <2>3
<1>14. ASSUME NEW p \in Procs, Upload(p) PROVE AllBacked'
  BY <1>14 DEF Upload, Finalize, Goto, AllBacked, Backed, Located, Present
<1>15. ASSUME NEW p \in Procs, UploadFails(p) \/ Prune(p) PROVE AllBacked'
  BY <1>15, ZenonT(60) DEF UploadFails, Prune, Finalize, Goto, hist, AllBacked, Backed, Present
<1>16. ASSUME NEW p \in Procs, PruneFails(p) PROVE AllBacked'
  <2>1. [snap[p] EXCEPT !.lastError = TRUE].sha = snap[p].sha
    BY DEF Rows
  <2>2. snap'[p].sha = snap[p].sha /\ \A q \in Procs \ {p} : snap'[q] = snap[q]
    BY <1>16, <2>1 DEF PruneFails
  <2> QED BY <1>16, <2>2 DEF PruneFails, Goto, db, hist, AllBacked, Backed, Present
<1>17. ASSUME NEW p \in Procs, UpdateRun(p) PROVE AllBacked'
  BY <1>17 DEF UpdateRun, Goto, hist, AllBacked, Backed, Located, Present
<1>18. ASSUME NEW x \in Payloads, ChangeData(x) PROVE AllBacked'
  BY <1>18, BackedQuiet DEF ChangeData, procs, hist
<1>19. CASE Clock
  BY <1>19, BackedQuiet DEF Clock, procs, hist
<1>20. CASE Restart
  BY <1>20, BackedQuiet DEF Restart, db
<1> QED
  BY <1>1, <1>2, <1>3, <1>4, <1>5, <1>6, <1>7, <1>8, <1>9, <1>10, <1>11, <1>12,
     <1>13, <1>14, <1>15, <1>16, <1>17, <1>18, <1>19, <1>20 DEF Next, Step

-----------------------------------------------------------------------------
(* Locks.                                                                  *)

\* A process that neither holds nor takes a destination's lock does not matter
\* to the locks, provided it has a map when it is past ensureRunLocks.
LEMMA LocksQuiet ==
    ASSUME TypeOK, LocksKept, OneRunPerDestination,
           UNCHANGED <<cur, inflight, racedInit>>,
           \A p \in Procs : \/ ~Running(p) /\ ~Running(p)'
                            \/ /\ Running(p) /\ Running(p)'
                               /\ UNCHANGED <<dst[p], rel[p]>>
                               /\ pc[p] = "create" <=> pc'[p] = "create",
           \A p \in Procs : pc'[p] \in {"read", "acquire"} => cur # 0,
           userBusy' <=> pc'[Scheduled] # "idle",
           pc'[Scheduled] # "write"
    PROVE  LocksKept' /\ OneRunPerDestination'
<1>1. OneRunPerDestination'
  BY DEF OneRunPerDestination, ConcurrentRejected, Running
<1>2. (\A p \in Procs : Running(p) \/ pc[p] \in {"read", "acquire"} => cur # 0)'
  BY DEF LocksKept
<1>3. \A p \in Procs : Releases(p)' <=> Releases(p)
  BY DEF Releases
<1>4. (\A d \in Dests : <<cur, d>> \in inflight =>
         \E p \in Procs : Releases(p) /\ dst[p] = d)'
  <2> SUFFICES ASSUME NEW d \in Dests, <<cur, d>> \in inflight
               PROVE  \E p \in Procs : Releases(p)' /\ dst'[p] = d
    OBVIOUS
  <2>1. PICK p \in Procs : Releases(p) /\ dst[p] = d
    BY DEF LocksKept
  <2> QED BY <1>3, <2>1 DEF Releases
<1>5. (~racedInit => \A p \in Procs : Running(p) =>
                       Releases(p) /\ <<cur, dst[p]>> \in inflight)'
  BY <1>3 DEF LocksKept
<1> QED BY <1>1, <1>2, <1>4, <1>5 DEF LocksKept

\* A process that ends its run releases its own lock only, as long as no map
\* was replaced; and never leaves the lock of the map in use behind.
LEMMA LeaveLocks ==
    ASSUME TypeOK, Located, LocksKept, OneRunPerDestination,
           NEW p \in Procs, Running(p), NEW m \in Nat, Leave(p, m),
           m = IF pc[p] = "create" THEN cur ELSE rel[p],
           UNCHANGED racedInit
    PROVE  LocksKept' /\ OneRunPerDestination'
<1> USE DEF TypeOK, Leave, Return, Goto
<1>1. /\ \A q \in Procs \ {p} : /\ pc'[q] = pc[q] /\ dst'[q] = dst[q] /\ rel'[q] = rel[q]
      /\ pc'[p] = "idle" /\ dst[p] \in Dests
  BY DEF Located, Running
<1>2. \A q \in Procs : Running(q)' <=> q # p /\ Running(q)
  BY <1>1 DEF Running
<1>3. OneRunPerDestination'
  BY <1>1, <1>2 DEF OneRunPerDestination, ConcurrentRejected
<1>4. \A q \in Procs : Releases(q)' <=> q # p /\ Releases(q)
  BY <1>1, <1>2 DEF Releases
<1>5. (\A d \in Dests : <<cur, d>> \in inflight =>
         \E q \in Procs : Releases(q) /\ dst[q] = d)'
  <2> SUFFICES ASSUME NEW d \in Dests, <<cur, d>> \in inflight'
               PROVE  \E q \in Procs : Releases(q)' /\ dst'[q] = d
    OBVIOUS
  <2>1. PICK q \in Procs : Releases(q) /\ dst[q] = d
    BY DEF LocksKept
  <2>2. q # p
    BY <2>1 DEF Releases
  <2> QED BY <1>1, <1>4, <2>1, <2>2
<1>6. (~racedInit => \A q \in Procs : Running(q) =>
                       Releases(q) /\ <<cur, dst[q]>> \in inflight)'
  <2> SUFFICES ASSUME ~racedInit, NEW q \in Procs, Running(q)'
               PROVE  Releases(q)' /\ <<cur, dst'[q]>> \in inflight'
    OBVIOUS
  <2>1. q # p /\ Running(q) /\ dst[q] # dst[p]
    BY <1>2 DEF OneRunPerDestination, ConcurrentRejected
  <2> QED BY <1>1, <1>4, <2>1 DEF LocksKept
<1>7. ((userBusy <=> pc[Scheduled] # "idle") /\ pc[Scheduled] # "write")'
  BY <1>1 DEF LocksKept, Procs, Running
<1>8. (\A q \in Procs : Running(q) \/ pc[q] \in {"read", "acquire"} => cur # 0)'
  BY <1>1, <1>2 DEF LocksKept
<1>9. (\A k \in Nat, d \in Dests : <<k, d>> \in inflight => k <= cur)'
  BY DEF LocksKept
<1> QED BY <1>3, <1>5, <1>6, <1>7, <1>8, <1>9 DEF LocksKept

\* Every step keeps the locks with their owners.
LEMMA LocksStep ==
    ASSUME TypeOK, Located, LocksKept, OneRunPerDestination, [Next]_vars
    PROVE  LocksKept' /\ OneRunPerDestination'
<1> USE DEF TypeOK, Running, Labels
<1>0. /\ \A p \in Procs : pc[p] \in {"read", "acquire"} => cur # 0
      /\ Scheduled \in Procs
  BY DEF LocksKept, Procs
<1>1. CASE UNCHANGED vars
  BY <1>0, <1>1, LocksQuiet DEF LocksKept, vars, mem, procs, hist
<1>2. ASSUME UNCHANGED <<mem, procs, hist>> PROVE LocksKept' /\ OneRunPerDestination'
  BY <1>0, <1>2, LocksQuiet DEF LocksKept, mem, procs, hist
<1>3. ASSUME NEW p \in Requests, NEW d \in Dests,
             (\E j \in Jobs : EditBegin(p, j, d)) \/ RunBackupNow(p, d)
      PROVE  LocksKept' /\ OneRunPerDestination'
  <2>1. p \in Procs /\ Scheduled \in Procs /\ p # Scheduled
    BY CloudBackupAssumption DEF Procs
  <2>2. CASE \E j \in Jobs : EditBegin(p, j, d)
    <3>1. pc[p] = "idle" /\ pc' = [pc EXCEPT ![p] = "write"]
      BY <2>2 DEF EditBegin, Goto
    <3>2. UNCHANGED <<cur, inflight, userBusy, racedInit, rel>>
          /\ \A q \in Procs : q # p => dst'[q] = dst[q]
      BY <2>2 DEF EditBegin, mem, hist
    <3>3. /\ ~Running(p) /\ ~Running(p)'
          /\ \A q \in Procs : q # p => pc'[q] = pc[q]
      BY <2>1, <3>1
    <3>4. \A q \in Procs : \/ ~Running(q) /\ ~Running(q)'
                           \/ /\ Running(q) /\ Running(q)'
                              /\ UNCHANGED <<dst[q], rel[q]>>
                              /\ pc[q] = "create" <=> pc'[q] = "create"
      BY <3>2, <3>3
    <3>5. /\ \A q \in Procs : pc'[q] \in {"read", "acquire"} => cur # 0
          /\ userBusy' <=> pc'[Scheduled] # "idle"
          /\ pc'[Scheduled] # "write"
      BY <1>0, <2>1, <3>1, <3>2, <3>3 DEF LocksKept
    <3> QED BY <3>2, <3>4, <3>5, LocksQuiet
  <2>3. CASE RunBackupNow(p, d)
    BY <1>0, <2>1, <2>3, LocksQuiet DEF LocksKept, RunBackupNow, Start, Goto, mem, hist
  <2> QED BY <1>3, <2>2, <2>3
<1>4. ASSUME NEW p \in Procs,
             \/ UpdateDestination(p) \/ \E valid \in BOOLEAN : TestDestination(p, valid)
             \/ EditFails(p)
      PROVE  LocksKept' /\ OneRunPerDestination'
  <2>1. /\ pc[p] = "write" /\ Return(p) /\ p # Scheduled
        /\ UNCHANGED <<cur, inflight, userBusy, racedInit>>
    BY <1>4 DEF UpdateDestination, TestDestination, EditFails, LocksKept, mem, hist
  <2> QED BY <1>0, <2>1, LocksQuiet DEF LocksKept, Return, Goto
<1>5. ASSUME NEW d \in Dests, Dispatch(d) PROVE LocksKept' /\ OneRunPerDestination'
  BY <1>0, <1>5, LocksQuiet DEF LocksKept, Dispatch, Start, Goto, hist, Procs
<1>6. ASSUME NEW p \in Procs, InitLocks(p) PROVE LocksKept' /\ OneRunPerDestination'
  <2>1. \A d \in Dests : <<cur', d>> \notin inflight
    BY <1>6 DEF InitLocks, LocksKept
  <2>2. racedInit' \/ \A q \in Procs : ~Running(q)'
    BY <1>6 DEF InitLocks, Goto, LocksKept
  <2>3. OneRunPerDestination'
    BY <2>2 DEF OneRunPerDestination, ConcurrentRejected
  <2> QED BY <1>6, <2>1, <2>2, <2>3 DEF InitLocks, Goto, LocksKept
<1>7. ASSUME NEW p \in Procs, ReadDestination(p) PROVE LocksKept' /\ OneRunPerDestination'
  BY <1>0, <1>7, LocksQuiet DEF LocksKept, ReadDestination, Goto, mem, hist
<1>8. ASSUME NEW p \in Procs, RefuseRun(p) PROVE LocksKept' /\ OneRunPerDestination'
  BY <1>0, <1>8, LocksQuiet DEF LocksKept, RefuseRun, Return, Goto, hist
<1>9. ASSUME NEW p \in Procs, TryAcquire(p) PROVE LocksKept' /\ OneRunPerDestination'
  <2>1. dst[p] \in Dests /\ cur # 0
    BY <1>9 DEF TryAcquire, Located, LocksKept
  <2>2. \A q \in Procs : Running(q)' <=> q = p \/ Running(q)
    BY <1>9 DEF TryAcquire, Goto
  <2>3. ~racedInit => \A q \in Procs : Running(q) => dst[q] # dst[p]
    BY <1>9 DEF TryAcquire, LocksKept
  <2>4. OneRunPerDestination'
    BY <1>9, <2>2, <2>3 DEF TryAcquire, OneRunPerDestination, ConcurrentRejected, hist
  <2>5. \A q \in Procs : Releases(q)' <=> q = p \/ Releases(q)
    BY <1>9, <2>2 DEF TryAcquire, Releases, Goto
  <2> QED BY <1>9, <2>1, <2>2, <2>4, <2>5 DEF TryAcquire, LocksKept, Goto, hist
<1>10. ASSUME NEW p \in Procs, CreateRun(p) PROVE LocksKept' /\ OneRunPerDestination'
  BY <1>10 DEF LocksKept, CreateRun, Releases, OneRunPerDestination,
               ConcurrentRejected, Goto, mem, hist
<1>11. ASSUME NEW p \in Procs, CreateRunFails(p) PROVE LocksKept' /\ OneRunPerDestination'
  BY <1>11, LeaveLocks DEF CreateRunFails, hist
<1>12. ASSUME NEW p \in Procs,
              \/ Build(p) \/ BuildFails(p) \/ Upload(p) \/ UploadFails(p)
              \/ Prune(p) \/ PruneFails(p) \/ UpdateRun(p)
       PROVE  LocksKept' /\ OneRunPerDestination'
  <2>1. /\ Running(p) /\ pc[p] # "create" /\ UNCHANGED <<dst, rel, mem, racedInit>>
        /\ \E l \in {"upload", "prune", "finalize", "record"} : pc' = [pc EXCEPT ![p] = l]
    BY <1>12 DEF Build, BuildFails, Upload, UploadFails, Prune, PruneFails, UpdateRun,
                 Finalize, Goto, hist
  <2> QED BY <1>0, <2>1, LocksQuiet, ZenonT(60) DEF LocksKept, mem
<1>13. ASSUME NEW p \in Procs, UpdateRunFails(p) \/ RecordRun(p) \/ RecordRunFails(p)
       PROVE  LocksKept' /\ OneRunPerDestination'
  BY <1>13, LeaveLocks DEF UpdateRunFails, RecordRun, RecordRunFails, hist
<1>14. CASE Restart
  BY <1>14 DEF Restart, LocksKept, OneRunPerDestination, ConcurrentRejected, Procs
<1> QED
  BY <1>1, <1>2, <1>3, <1>4, <1>5, <1>6, <1>7, <1>8, <1>9, <1>10, <1>11, <1>12,
     <1>13, <1>14 DEF Next, Step, CreateDestination, DeleteDestination, ChangeData, Clock

-----------------------------------------------------------------------------
(* The theorems.                                                           *)

\* Nothing runs and nothing is stored at the start.
LEMMA InitInv == Init => IInv
<1> SUFFICES ASSUME Init PROVE IInv
  OBVIOUS
<1> USE NewRowType, CloudBackupAssumption DEF Init
<1>1. TypeOK
  <2>1. day \in 0..MaxDay /\ edits \in 0..MaxEdits /\ dbErrors \in 0..MaxDbErrors
    OBVIOUS
  <2>2. remote \in [Dests -> Seq(Payloads)] /\ okRuns \in [Dests -> SUBSET Payloads]
    OBVIOUS
  <2> QED BY <2>1, <2>2 DEF TypeOK, Labels, Jobs, Results
<1>2. Located /\ AllHonest
  BY DEF Located, HasCopy, Running, AllHonest
<1>3. AllBacked
  BY DEF AllBacked, Backed, HasCopy, Running, NewRow
<1>4. LocksKept /\ OneRunPerDestination
  BY DEF LocksKept, OneRunPerDestination, ConcurrentRejected, Running, Procs
<1> QED BY <1>1, <1>2, <1>3, <1>4 DEF IInv

\* The inductive invariant holds in every reachable state.
THEOREM Invariance == Spec => []IInv
<1>1. IInv /\ [Next]_vars => IInv'
  BY TypeStep, LocatedStep, HonestStep, BackedStep, LocksStep DEF IInv
<1> QED BY <1>1, InitInv, PTL DEF Spec

\* Tables, locks and processes are always well typed.
THEOREM TypeCorrect == Spec => []TypeOK
<1>1. IInv => TypeOK
  BY DEF IInv
<1> QED BY <1>1, Invariance, PTL

\* tryAcquire serialises the runs of a destination, unless ensureRunLocks put a
\* new map in the place of one in use.
THEOREM RunsExclude == Spec => []OneRunPerDestination
<1>1. IInv => OneRunPerDestination
  BY DEF IInv
<1> QED BY <1>1, Invariance, PTL

\* No path through RunOnce and dispatch leaks the lock of a destination or of
\* the user, so neither is blocked for ever.
THEOREM NoLockLeaks == Spec => []LocksHaveOwners
<1>1. IInv => LocksHaveOwners
  BY DEF IInv, LocksKept, LocksHaveOwners, Releases
<1> QED BY <1>1, Invariance, PTL

\* Overlapping read-modify-writes of a destination never separate its status
\* from its failure counter and message.
THEOREM StatusIsHonest == Spec => []StatusHonest
<1>1. IInv => StatusHonest
  BY DEF IInv, AllHonest, Honest, StatusHonest
<1> QED BY <1>1, Invariance, PTL

\* A hash that makes runs skip was uploaded and reported by a run.
THEOREM SkipsAreBackedUp == Spec => []BackedUp
<1>1. IInv => BackedUp
  BY DEF IInv, AllBacked, Backed, BackedUp
<1> QED BY <1>1, Invariance, PTL
=============================================================================
