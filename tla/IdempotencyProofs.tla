------------------------- MODULE IdempotencyProofs -------------------------
(***************************************************************************)
(* The guarantee of the Idempotency-Key, for every number of requests and  *)
(* payloads and every lease and TTL that exceed the request's budget.      *)
(***************************************************************************)
EXTENDS Idempotency, TLAPS

\* What docs/API.md asks of the configuration: "must exceed the 15 s request
\* timeout".
CoversRequest == Lease > Budget /\ TTL > Budget

\* Requests that took a claim they have not settled.
Claimant(r) == pc[r] \in {"running", "settle"}

\* No request stamped the future.
StampsPast == \A r \in Reqs : stamp[r] <= now

\* A request is answered last, and settled with the status of its handler.
RequestsInOrder ==
    \A r \in Reqs :
        /\ answer[r].kind # "none" => pc[r] = "done"
        /\ pc[r] = "settle" => status[r] # "none"

\* The row is what its author wrote.
RowByAuthor ==
    rec.state # "absent" =>
        /\ rec.by \in Reqs
        /\ pc[rec.by] \notin {"idle", "stamped", "get"}
        /\ rec.hash = hash[rec.by]
        /\ rec.createdAt = stamp[rec.by]
        /\ rec.expiresAt = stamp[rec.by] + TTL

\* A claimant holds the row as long as its context is alive.
ClaimHeld ==
    \A r \in Reqs : Claimant(r) =>
        \/ rec.state = "in_progress" /\ rec.by = r
        \/ ~InBudget(r)

\* created_at is a fencing token: a row with a claimant's stamp is its row.
FenceUnique ==
    \A r \in Reqs : Claimant(r) /\ Fenced(r) => rec.by = r

\* A completed row is a recorded completion.
CompletedByStored ==
    rec.state = "completed" =>
        /\ rec.by \in stored
        /\ rec.resp = IF status[rec.by] = "oversize" THEN NoReq ELSE rec.by

\* A recorded completion is in the row until its TTL is over.
StoredKept ==
    \A e \in stored :
        /\ pc[e] = "done"
        /\ status[e] \in {"ok", "client_error", "oversize"}
        /\ \/ rec.state = "completed" /\ rec.by = e
           \/ now >= stamp[e] + TTL

\* What a request knew when it was sent, or met when it ran, was recorded.
HistoryStored == \A r \in Reqs : known[r] \subseteq stored /\ before[r] \subseteq stored

\* A request that knows of a completion has not run within the record's life.
KnownNotRun ==
    \A r \in Reqs : \A e \in known[r] :
        stamp[r] + Budget < stamp[e] + TTL => ~Claimant(r)

Safety == NoRerun /\ ReplayFaithful /\ RetryVerdict

IInv == /\ TypeOK
        /\ StampsPast
        /\ RequestsInOrder
        /\ RowByAuthor
        /\ ClaimHeld
        /\ FenceUnique
        /\ CompletedByStored
        /\ StoredKept
        /\ HistoryStored
        /\ KnownNotRun
        /\ Safety

-----------------------------------------------------------------------------
(* One lemma per action.                                                   *)

\* A new request reads the clock.
LEMMA SendStep ==
    ASSUME CoversRequest, IInv, NEW r \in Reqs, NEW h \in Hashes, Send(r, h)
    PROVE  IInv'
<1> USE IdempotencyAssumption DEF CoversRequest, IInv, Safety, TypeOK, Send
<1>1. TypeOK'
  BY DEF TypeOK, Labels, Statuses, Kinds, States, Silent, Fenced
<1>2. StampsPast'
  BY DEF StampsPast
<1>3. RequestsInOrder'
  BY DEF RequestsInOrder
<1>4. RowByAuthor'
  BY DEF RowByAuthor
<1>5. ClaimHeld'
  BY DEF ClaimHeld, Claimant, InBudget
<1>6. FenceUnique'
  BY DEF FenceUnique, Claimant, Fenced
<1>7. CompletedByStored'
  BY DEF CompletedByStored
<1>8. StoredKept'
  BY DEF StoredKept
<1>9. HistoryStored'
  BY DEF HistoryStored
<1>10. KnownNotRun'
  BY DEF KnownNotRun, Claimant, StoredKept, RowByAuthor, HistoryStored,
      InBudget
<1>11. NoRerun'
  BY DEF NoRerun, StoredKept, RowByAuthor, HistoryStored, StampsPast
<1>12. ReplayFaithful'
  BY DEF ReplayFaithful, RequestsInOrder, CompletedByStored, RowByAuthor,
      StoredKept
<1>13. RetryVerdict'
  BY DEF RetryVerdict, StoredKept, RowByAuthor, CompletedByStored,
      KnownNotRun, HistoryStored, Claimant, InBudget
<1> QED BY <1>1, <1>2, <1>3, <1>4, <1>5, <1>6, <1>7, <1>8, <1>9, <1>10, <1>11,
      <1>12, <1>13

\* A claim takes a row nobody within budget holds, and no live completion.
LEMMA ClaimStep ==
    ASSUME CoversRequest, IInv, NEW r \in Reqs, Claim(r)
    PROVE  IInv'
<1> USE IdempotencyAssumption DEF CoversRequest, IInv, Safety, TypeOK, Claim,
         Claimable, Write
<1>1. TypeOK'
  BY DEF TypeOK, Labels, Statuses, Kinds, States, Silent, Fenced
<1>2. StampsPast'
  BY DEF StampsPast
<1>3. RequestsInOrder'
  BY DEF RequestsInOrder
<1>4. RowByAuthor'
  BY DEF RowByAuthor
<1>5. ClaimHeld'
  BY DEF ClaimHeld, Claimant, InBudget, RowByAuthor, StampsPast, FenceUnique,
      Fenced
<1>6. FenceUnique'
  BY DEF FenceUnique, Claimant, Fenced, ClaimHeld, RowByAuthor, InBudget,
      StampsPast
<1>7. CompletedByStored'
  BY DEF CompletedByStored
<1>8. StoredKept'
  BY DEF StoredKept, RequestsInOrder, RowByAuthor, FenceUnique, StampsPast,
      CompletedByStored, Claimant, Fenced, Statuses
<1>9. HistoryStored'
  BY DEF HistoryStored
<1>10. KnownNotRun'
  BY DEF KnownNotRun, Claimant, StoredKept, RowByAuthor, HistoryStored,
      InBudget
<1>11. NoRerun'
  BY DEF NoRerun, StoredKept, RowByAuthor, HistoryStored, StampsPast
<1>12. ReplayFaithful'
  BY DEF ReplayFaithful
<1>13. RetryVerdict'
  BY DEF RetryVerdict
<1> QED BY <1>1, <1>2, <1>3, <1>4, <1>5, <1>6, <1>7, <1>8, <1>9, <1>10, <1>11,
      <1>12, <1>13

\* A refused claim changes nothing but the request.
LEMMA ClaimConflictStep ==
    ASSUME CoversRequest, IInv, NEW r \in Reqs, ClaimConflict(r)
    PROVE  IInv'
<1> USE IdempotencyAssumption DEF CoversRequest, IInv, Safety, TypeOK,
         ClaimConflict
<1>1. TypeOK'
  BY DEF TypeOK, Labels, Statuses, Kinds, States, Silent, Fenced
<1>2. StampsPast'
  BY DEF StampsPast
<1>3. RequestsInOrder'
  BY DEF RequestsInOrder
<1>4. RowByAuthor'
  BY DEF RowByAuthor
<1>5. ClaimHeld'
  BY DEF ClaimHeld, Claimant, InBudget
<1>6. FenceUnique'
  BY DEF FenceUnique, Claimant, Fenced
<1>7. CompletedByStored'
  BY DEF CompletedByStored
<1>8. StoredKept'
  BY DEF StoredKept
<1>9. HistoryStored'
  BY DEF HistoryStored
<1>10. KnownNotRun'
  BY DEF KnownNotRun, Claimant
<1>11. NoRerun'
  BY DEF NoRerun
<1>12. ReplayFaithful'
  BY DEF ReplayFaithful
<1>13. RetryVerdict'
  BY DEF RetryVerdict
<1> QED BY <1>1, <1>2, <1>3, <1>4, <1>5, <1>6, <1>7, <1>8, <1>9, <1>10, <1>11,
      <1>12, <1>13

\* A request that cannot reach the store runs nothing.
LEMMA BeginFailsStep ==
    ASSUME CoversRequest, IInv, NEW r \in Reqs, BeginFails(r)
    PROVE  IInv'
<1> USE IdempotencyAssumption DEF CoversRequest, IInv, Safety, TypeOK,
         BeginFails, Answer
<1>1. TypeOK'
  BY DEF TypeOK, Labels, Statuses, Kinds, States, Silent, Fenced
<1>2. StampsPast'
  BY DEF StampsPast
<1>3. RequestsInOrder'
  BY DEF RequestsInOrder
<1>4. RowByAuthor'
  BY DEF RowByAuthor
<1>5. ClaimHeld'
  BY DEF ClaimHeld, Claimant, InBudget
<1>6. FenceUnique'
  BY DEF FenceUnique, Claimant, Fenced
<1>7. CompletedByStored'
  BY DEF CompletedByStored
<1>8. StoredKept'
  BY DEF StoredKept
<1>9. HistoryStored'
  BY DEF HistoryStored
<1>10. KnownNotRun'
  BY DEF KnownNotRun, Claimant
<1>11. NoRerun'
  BY DEF NoRerun
<1>12. ReplayFaithful'
  BY DEF ReplayFaithful
<1>13. RetryVerdict'
  BY DEF RetryVerdict
<1> QED BY <1>1, <1>2, <1>3, <1>4, <1>5, <1>6, <1>7, <1>8, <1>9, <1>10, <1>11,
      <1>12, <1>13

\* A claim whose reply was lost has no claimant.
LEMMA ClaimReplyLostStep ==
    ASSUME CoversRequest, IInv, NEW r \in Reqs, ClaimReplyLost(r)
    PROVE  IInv'
<1> USE IdempotencyAssumption DEF CoversRequest, IInv, Safety, TypeOK,
         ClaimReplyLost, Claimable, Write, Answer
<1>1. TypeOK'
  BY DEF TypeOK, Labels, Statuses, Kinds, States, Silent, Fenced
<1>2. StampsPast'
  BY DEF StampsPast
<1>3. RequestsInOrder'
  BY DEF RequestsInOrder
<1>4. RowByAuthor'
  BY DEF RowByAuthor
<1>5. ClaimHeld'
  BY DEF ClaimHeld, Claimant, InBudget, RowByAuthor, StampsPast, FenceUnique,
      Fenced
<1>6. FenceUnique'
  BY DEF FenceUnique, Claimant, Fenced, ClaimHeld, RowByAuthor, InBudget,
      StampsPast
<1>7. CompletedByStored'
  BY DEF CompletedByStored
<1>8. StoredKept'
  BY DEF StoredKept, RequestsInOrder, RowByAuthor, FenceUnique, StampsPast,
      CompletedByStored, Claimant, Fenced, Statuses
<1>9. HistoryStored'
  BY DEF HistoryStored
<1>10. KnownNotRun'
  BY DEF KnownNotRun, Claimant
<1>11. NoRerun'
  BY DEF NoRerun
<1>12. ReplayFaithful'
  BY DEF ReplayFaithful
<1>13. RetryVerdict'
  BY DEF RetryVerdict
<1> QED BY <1>1, <1>2, <1>3, <1>4, <1>5, <1>6, <1>7, <1>8, <1>9, <1>10, <1>11,
      <1>12, <1>13

\* The row read after the conflict decides the answer.
LEMMA GetStep ==
    ASSUME CoversRequest, IInv, NEW r \in Reqs, Get(r)
    PROVE  IInv'
<1> USE IdempotencyAssumption DEF CoversRequest, IInv, Safety, TypeOK, Get,
         Answer, Verdict
<1>1. TypeOK'
  BY DEF TypeOK, Labels, Statuses, Kinds, States, Silent, Fenced
<1>2. StampsPast'
  BY DEF StampsPast
<1>3. RequestsInOrder'
  BY DEF RequestsInOrder
<1>4. RowByAuthor'
  BY DEF RowByAuthor
<1>5. ClaimHeld'
  BY DEF ClaimHeld, Claimant, InBudget
<1>6. FenceUnique'
  BY DEF FenceUnique, Claimant, Fenced
<1>7. CompletedByStored'
  BY DEF CompletedByStored
<1>8. StoredKept'
  BY DEF StoredKept
<1>9. HistoryStored'
  BY DEF HistoryStored
<1>10. KnownNotRun'
  BY DEF KnownNotRun, Claimant
<1>11. NoRerun'
  BY DEF NoRerun
<1>12. ReplayFaithful'
  BY DEF ReplayFaithful, CompletedByStored, RowByAuthor, StoredKept, States
<1>13. RetryVerdict'
  BY DEF RetryVerdict, StoredKept, RowByAuthor, CompletedByStored,
      KnownNotRun, HistoryStored, Claimant, InBudget
<1> QED BY <1>1, <1>2, <1>3, <1>4, <1>5, <1>6, <1>7, <1>8, <1>9, <1>10, <1>11,
      <1>12, <1>13

\* The handler wrote its response.
LEMMA RespondStep ==
    ASSUME CoversRequest, IInv, NEW r \in Reqs, NEW st \in Statuses \ {"none"}, Respond(r, st)
    PROVE  IInv'
<1> USE IdempotencyAssumption DEF CoversRequest, IInv, Safety, TypeOK, Respond
<1>1. TypeOK'
  BY DEF TypeOK, Labels, Statuses, Kinds, States, Silent, Fenced
<1>2. StampsPast'
  BY DEF StampsPast
<1>3. RequestsInOrder'
  BY DEF RequestsInOrder
<1>4. RowByAuthor'
  BY DEF RowByAuthor
<1>5. ClaimHeld'
  BY DEF ClaimHeld, Claimant, InBudget
<1>6. FenceUnique'
  BY DEF FenceUnique, Claimant, Fenced
<1>7. CompletedByStored'
  BY DEF CompletedByStored, FenceUnique, RowByAuthor, StoredKept, Claimant,
      Fenced, Statuses
<1>8. StoredKept'
  BY DEF StoredKept
<1>9. HistoryStored'
  BY DEF HistoryStored
<1>10. KnownNotRun'
  BY DEF KnownNotRun, Claimant
<1>11. NoRerun'
  BY DEF NoRerun
<1>12. ReplayFaithful'
  BY DEF ReplayFaithful, RequestsInOrder, CompletedByStored, RowByAuthor,
      StoredKept
<1>13. RetryVerdict'
  BY DEF RetryVerdict, StoredKept, RowByAuthor, CompletedByStored,
      KnownNotRun, HistoryStored, Claimant, InBudget
<1> QED BY <1>1, <1>2, <1>3, <1>4, <1>5, <1>6, <1>7, <1>8, <1>9, <1>10, <1>11,
      <1>12, <1>13

\* Finish touches the row of its own claim only.
LEMMA FinishStep ==
    ASSUME CoversRequest, IInv, NEW r \in Reqs, Finish(r)
    PROVE  IInv'
<1> USE IdempotencyAssumption DEF CoversRequest, IInv, Safety, TypeOK, Finish,
         Answer
<1>1. TypeOK'
  BY DEF TypeOK, Labels, Statuses, Kinds, States, Silent, Fenced
<1>2. StampsPast'
  BY DEF StampsPast
<1>3. RequestsInOrder'
  BY DEF RequestsInOrder
<1>4. RowByAuthor'
  BY DEF RowByAuthor, FenceUnique, Claimant, Fenced, Absent
<1>5. ClaimHeld'
  BY DEF ClaimHeld, Claimant, InBudget, RowByAuthor, StampsPast, FenceUnique,
      Fenced
<1>6. FenceUnique'
  BY DEF FenceUnique, Claimant, Fenced
<1>7. CompletedByStored'
  BY DEF CompletedByStored, FenceUnique, RowByAuthor, StoredKept, Claimant,
      Fenced, Statuses
<1>8. StoredKept'
  BY DEF StoredKept, RequestsInOrder, RowByAuthor, FenceUnique, StampsPast,
      CompletedByStored, Claimant, Fenced, Statuses
<1>9. HistoryStored'
  BY DEF HistoryStored
<1>10. KnownNotRun'
  BY DEF KnownNotRun, Claimant
<1>11. NoRerun'
  BY DEF NoRerun
<1>12. ReplayFaithful'
  BY DEF ReplayFaithful
<1>13. RetryVerdict'
  BY DEF RetryVerdict, StoredKept, RowByAuthor, CompletedByStored,
      KnownNotRun, HistoryStored, Claimant, InBudget
<1> QED BY <1>1, <1>2, <1>3, <1>4, <1>5, <1>6, <1>7, <1>8, <1>9, <1>10, <1>11,
      <1>12, <1>13

\* Abandon deletes the row of its own claim only.
LEMMA AbandonStep ==
    ASSUME CoversRequest, IInv, NEW r \in Reqs, Abandon(r)
    PROVE  IInv'
<1> USE IdempotencyAssumption DEF CoversRequest, IInv, Safety, TypeOK,
         Abandon, Answer, Absent
<1>1. TypeOK'
  BY DEF TypeOK, Labels, Statuses, Kinds, States, Silent, Fenced
<1>2. StampsPast'
  BY DEF StampsPast
<1>3. RequestsInOrder'
  BY DEF RequestsInOrder
<1>4. RowByAuthor'
  BY DEF RowByAuthor
<1>5. ClaimHeld'
  BY DEF ClaimHeld, Claimant, InBudget, RowByAuthor, StampsPast, FenceUnique,
      Fenced
<1>6. FenceUnique'
  BY DEF FenceUnique, Claimant, Fenced
<1>7. CompletedByStored'
  BY DEF CompletedByStored
<1>8. StoredKept'
  BY DEF StoredKept, RequestsInOrder, RowByAuthor, FenceUnique, StampsPast,
      CompletedByStored, Claimant, Fenced, Statuses
<1>9. HistoryStored'
  BY DEF HistoryStored
<1>10. KnownNotRun'
  BY DEF KnownNotRun, Claimant
<1>11. NoRerun'
  BY DEF NoRerun
<1>12. ReplayFaithful'
  BY DEF ReplayFaithful
<1>13. RetryVerdict'
  BY DEF RetryVerdict, StoredKept, RowByAuthor, CompletedByStored,
      KnownNotRun, HistoryStored, Claimant, InBudget
<1> QED BY <1>1, <1>2, <1>3, <1>4, <1>5, <1>6, <1>7, <1>8, <1>9, <1>10, <1>11,
      <1>12, <1>13

\* A claim left in progress has no claimant any more.
LEMMA SettleFailsStep ==
    ASSUME CoversRequest, IInv, NEW r \in Reqs, SettleFails(r)
    PROVE  IInv'
<1> USE IdempotencyAssumption DEF CoversRequest, IInv, Safety, TypeOK,
         SettleFails, Answer
<1>1. TypeOK'
  BY DEF TypeOK, Labels, Statuses, Kinds, States, Silent, Fenced
<1>2. StampsPast'
  BY DEF StampsPast
<1>3. RequestsInOrder'
  BY DEF RequestsInOrder
<1>4. RowByAuthor'
  BY DEF RowByAuthor
<1>5. ClaimHeld'
  BY DEF ClaimHeld, Claimant, InBudget
<1>6. FenceUnique'
  BY DEF FenceUnique, Claimant, Fenced
<1>7. CompletedByStored'
  BY DEF CompletedByStored
<1>8. StoredKept'
  BY DEF StoredKept
<1>9. HistoryStored'
  BY DEF HistoryStored
<1>10. KnownNotRun'
  BY DEF KnownNotRun, Claimant
<1>11. NoRerun'
  BY DEF NoRerun
<1>12. ReplayFaithful'
  BY DEF ReplayFaithful
<1>13. RetryVerdict'
  BY DEF RetryVerdict, StoredKept, RowByAuthor, CompletedByStored,
      KnownNotRun, HistoryStored, Claimant, InBudget
<1> QED BY <1>1, <1>2, <1>3, <1>4, <1>5, <1>6, <1>7, <1>8, <1>9, <1>10, <1>11,
      <1>12, <1>13

\* So has the claim of a request that died.
LEMMA CrashStep ==
    ASSUME CoversRequest, IInv, NEW r \in Reqs, Crash(r)
    PROVE  IInv'
<1> USE IdempotencyAssumption DEF CoversRequest, IInv, Safety, TypeOK, Crash
<1>1. TypeOK'
  BY DEF TypeOK, Labels, Statuses, Kinds, States, Silent, Fenced
<1>2. StampsPast'
  BY DEF StampsPast
<1>3. RequestsInOrder'
  BY DEF RequestsInOrder
<1>4. RowByAuthor'
  BY DEF RowByAuthor
<1>5. ClaimHeld'
  BY DEF ClaimHeld, Claimant, InBudget
<1>6. FenceUnique'
  BY DEF FenceUnique, Claimant, Fenced
<1>7. CompletedByStored'
  BY DEF CompletedByStored
<1>8. StoredKept'
  BY DEF StoredKept
<1>9. HistoryStored'
  BY DEF HistoryStored
<1>10. KnownNotRun'
  BY DEF KnownNotRun, Claimant
<1>11. NoRerun'
  BY DEF NoRerun
<1>12. ReplayFaithful'
  BY DEF ReplayFaithful
<1>13. RetryVerdict'
  BY DEF RetryVerdict
<1> QED BY <1>1, <1>2, <1>3, <1>4, <1>5, <1>6, <1>7, <1>8, <1>9, <1>10, <1>11,
      <1>12, <1>13

\* The reaper removes only what has outlived its TTL.
LEMMA ExpireStep ==
    ASSUME CoversRequest, IInv, DeleteExpired
    PROVE  IInv'
<1> USE IdempotencyAssumption DEF CoversRequest, IInv, Safety, TypeOK,
         DeleteExpired, Absent
<1>1. TypeOK'
  BY DEF TypeOK, Labels, Statuses, Kinds, States, Silent, Fenced
<1>2. StampsPast'
  BY DEF StampsPast
<1>3. RequestsInOrder'
  BY DEF RequestsInOrder
<1>4. RowByAuthor'
  BY DEF RowByAuthor
<1>5. ClaimHeld'
  BY DEF ClaimHeld, Claimant, InBudget, RowByAuthor, StampsPast, FenceUnique,
      Fenced
<1>6. FenceUnique'
  BY DEF FenceUnique, Claimant, Fenced
<1>7. CompletedByStored'
  BY DEF CompletedByStored
<1>8. StoredKept'
  BY DEF StoredKept, RequestsInOrder, RowByAuthor, FenceUnique, StampsPast,
      CompletedByStored, Claimant, Fenced, Statuses
<1>9. HistoryStored'
  BY DEF HistoryStored
<1>10. KnownNotRun'
  BY DEF KnownNotRun, Claimant
<1>11. NoRerun'
  BY DEF NoRerun
<1>12. ReplayFaithful'
  BY DEF ReplayFaithful
<1>13. RetryVerdict'
  BY DEF RetryVerdict
<1> QED BY <1>1, <1>2, <1>3, <1>4, <1>5, <1>6, <1>7, <1>8, <1>9, <1>10, <1>11,
      <1>12, <1>13

\* Time passes.
LEMMA TickStep ==
    ASSUME CoversRequest, IInv, Tick
    PROVE  IInv'
<1> USE IdempotencyAssumption DEF CoversRequest, IInv, Safety, TypeOK, Tick
<1>1. TypeOK'
  BY DEF TypeOK, Labels, Statuses, Kinds, States, Silent, Fenced
<1>2. StampsPast'
  BY DEF StampsPast
<1>3. RequestsInOrder'
  BY DEF RequestsInOrder
<1>4. RowByAuthor'
  BY DEF RowByAuthor
<1>5. ClaimHeld'
  BY DEF ClaimHeld, Claimant, InBudget
<1>6. FenceUnique'
  BY DEF FenceUnique, Claimant, Fenced
<1>7. CompletedByStored'
  BY DEF CompletedByStored
<1>8. StoredKept'
  BY DEF StoredKept
<1>9. HistoryStored'
  BY DEF HistoryStored
<1>10. KnownNotRun'
  BY DEF KnownNotRun, Claimant
<1>11. NoRerun'
  BY DEF NoRerun
<1>12. ReplayFaithful'
  BY DEF ReplayFaithful
<1>13. RetryVerdict'
  BY DEF RetryVerdict
<1> QED BY <1>1, <1>2, <1>3, <1>4, <1>5, <1>6, <1>7, <1>8, <1>9, <1>10, <1>11,
      <1>12, <1>13

-----------------------------------------------------------------------------
(* The inductive invariant and the theorems.                               *)

\* An unused key satisfies the invariant.
LEMMA InitInv == Init => IInv
<1> SUFFICES ASSUME Init PROVE IInv
  OBVIOUS
<1> USE IdempotencyAssumption DEF Init, Absent, Silent
<1>1. TypeOK
  BY DEF TypeOK, Labels, Statuses, Kinds, States
<1>2. StampsPast /\ RequestsInOrder /\ RowByAuthor /\ CompletedByStored
  BY DEF StampsPast, RequestsInOrder, RowByAuthor, CompletedByStored
<1>3. ClaimHeld /\ FenceUnique
  BY DEF ClaimHeld, FenceUnique, Claimant
<1>4. StoredKept /\ HistoryStored /\ KnownNotRun
  BY DEF StoredKept, HistoryStored, KnownNotRun
<1>5. Safety
  BY DEF Safety, NoRerun, ReplayFaithful, RetryVerdict
<1> QED BY <1>1, <1>2, <1>3, <1>4, <1>5 DEF IInv

\* Every step preserves the invariant.
LEMMA NextInv == CoversRequest /\ IInv /\ [Next]_vars => IInv'
<1> SUFFICES ASSUME CoversRequest, IInv, [Next]_vars PROVE IInv'
  OBVIOUS
<1>1. CASE UNCHANGED vars
  <2>1. TypeOK' /\ StampsPast' /\ RequestsInOrder' /\ RowByAuthor' /\ CompletedByStored'
    BY <1>1 DEF IInv, vars, TypeOK, StampsPast, RequestsInOrder, RowByAuthor,
       CompletedByStored
  <2>2. (ClaimHeld /\ FenceUnique /\ StoredKept /\ HistoryStored /\ KnownNotRun)'
    BY <1>1 DEF IInv, vars, ClaimHeld, FenceUnique, StoredKept, HistoryStored,
       KnownNotRun, Claimant, InBudget, Fenced
  <2>3. Safety'
    BY <1>1 DEF IInv, vars, Safety, NoRerun, ReplayFaithful, RetryVerdict
  <2> QED BY <2>1, <2>2, <2>3 DEF IInv
<1>2. CASE Next
  BY <1>2, SendStep, ClaimStep, ClaimConflictStep, BeginFailsStep,
     ClaimReplyLostStep, GetStep, RespondStep, FinishStep, AbandonStep,
     SettleFailsStep, CrashStep, ExpireStep, TickStep DEF Next
<1> QED BY <1>1, <1>2

\* The inductive invariant holds in every reachable state.
THEOREM Invariance == ASSUME CoversRequest PROVE Spec => []IInv
<1>1. IInv /\ [Next]_vars => IInv'
  BY CoversRequest, NextInv
<1> QED BY <1>1, InitInv, PTL DEF Spec

\* The record, the requests and their answers are always well typed.
THEOREM TypeCorrect == ASSUME CoversRequest PROVE Spec => []TypeOK
<1>1. IInv => TypeOK
  BY DEF IInv
<1> QED BY <1>1, Invariance, PTL

\* With a lease longer than a request may run, Claim never lets two handlers
\* of one key write at the same time.
THEOREM Exclusion == ASSUME CoversRequest PROVE Spec => []OneAtATime
<1>1. IInv => OneAtATime
  BY DEF IInv, OneAtATime, Executing, ClaimHeld, Claimant
<1> QED BY <1>1, Invariance, PTL

\* A recorded completion shuts the key until its TTL is over: created_at fences
\* off every late Complete and Release.
THEOREM RecordedOnce == ASSUME CoversRequest PROVE Spec => []NoRerun
<1>1. IInv => NoRerun
  BY DEF IInv, Safety
<1> QED BY <1>1, Invariance, PTL

\* Begin replays only the recorded response of the same payload.
THEOREM ReplaysAreFaithful == ASSUME CoversRequest PROVE Spec => []ReplayFaithful
<1>1. IInv => ReplayFaithful
  BY DEF IInv, Safety
<1> QED BY <1>1, Invariance, PTL

\* A retry within the record's life is answered as docs/API.md tabulates.
THEOREM RetriesAnswered == ASSUME CoversRequest PROVE Spec => []RetryVerdict
<1>1. IInv => RetryVerdict
  BY DEF IInv, Safety
<1> QED BY <1>1, Invariance, PTL
=============================================================================
