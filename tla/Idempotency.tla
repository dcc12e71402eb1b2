---------------------------- MODULE Idempotency ----------------------------
(***************************************************************************)
(* The replay record of ONE (user, Idempotency-Key) pair and the requests  *)
(* that carry the key: internal/api/middleware/idempotency.go over         *)
(* internal/service/idempotency.go over the idempotency_keys table         *)
(* (internal/repository/postgres/idempotency.go).  Every statement is      *)
(* keyed by (user_id, idempotency_key), so keys do not interact.           *)
(*                                                                         *)
(* A request reads the clock (its stamp, the claim's created_at and        *)
(* fencing token), then executes the claiming statement, and, when that    *)
(* affects no row, reads the row in a second statement.  A claimed request *)
(* runs its handler and settles its claim on a context of its own, which   *)
(* may happen arbitrarily late, fail, or, after a crash, not happen.       *)
(* RequestTimeoutWithOverrides cancels the request's context Budget after  *)
(* it began: no statement of the request but the settling one executes     *)
(* later than that.  The unit of time is the microsecond of a TIMESTAMPTZ. *)
(***************************************************************************)
EXTENDS Integers

CONSTANTS
    Reqs,      \* the requests carrying the key
    Hashes,    \* fingerprints of method, path, query and body
    NoReq,     \* no request
    NoHash,    \* the fingerprint of a request not yet sent
    Lease,     \* how long an in-progress claim is honoured
    TTL,       \* how long a record is kept
    Budget,    \* how long a request's context lives
    MaxTime    \* bound on the clock

ASSUME IdempotencyAssumption ==
    /\ NoReq \notin Reqs
    /\ NoHash \notin Hashes
    /\ Lease \in Nat \ {0}
    /\ TTL \in Nat \ {0}
    /\ Budget \in Nat
    /\ MaxTime \in Nat

VARIABLES
    rec,      \* the row; "by", the claim's author, is history
    now,      \* the clock
    pc,       \* next step of a request
    hash,     \* its fingerprint
    stamp,    \* the clock it read in Begin
    status,   \* class of the response its handler wrote
    answer,   \* what its client got, and of which request
    ranAt,    \* history: when its claim was taken
    stored,   \* history: the requests whose completion was recorded
    before,   \* history: stored, when the request's handler was started
    known     \* history: stored, when the request was sent

vars == <<rec, now, pc, hash, stamp, status, answer, ranAt, stored, before, known>>

Labels   == {"idle", "stamped", "get", "running", "settle", "done", "dead"}
Statuses == {"none", "ok", "client_error", "server_error", "oversize"}
Kinds    == {"none", "executed", "replay", "in_progress", "mismatch",
             "not_replayable", "unavailable"}
States   == {"absent", "in_progress", "completed"}
Absent   == [state |-> "absent", hash |-> NoHash, resp |-> NoReq,
             createdAt |-> 0, expiresAt |-> 0, by |-> NoReq]
Silent   == [kind |-> "none", of |-> NoReq]

TypeOK ==
    /\ rec \in [state : States, hash : Hashes \cup {NoHash}, resp : Reqs \cup {NoReq},
                createdAt : Nat, expiresAt : Nat, by : Reqs \cup {NoReq}]
    /\ now \in Nat
    /\ pc \in [Reqs -> Labels]
    /\ hash \in [Reqs -> Hashes \cup {NoHash}]
    /\ stamp \in [Reqs -> Nat]
    /\ status \in [Reqs -> Statuses]
    /\ answer \in [Reqs -> [kind : Kinds, of : Reqs \cup {NoReq}]]
    /\ ranAt \in [Reqs -> Nat]
    /\ stored \subseteq Reqs
    /\ before \in [Reqs -> SUBSET Reqs]
    /\ known \in [Reqs -> SUBSET Reqs]

Init ==
    /\ rec = Absent
    /\ now = 0
    /\ pc = [r \in Reqs |-> "idle"]
    /\ hash = [r \in Reqs |-> NoHash]
    /\ stamp = [r \in Reqs |-> 0]
    /\ status = [r \in Reqs |-> "none"]
    /\ answer = [r \in Reqs |-> Silent]
    /\ ranAt = [r \in Reqs |-> 0]
    /\ stored = {}
    /\ before = [r \in Reqs |-> {}]
    /\ known = [r \in Reqs |-> {}]

-----------------------------------------------------------------------------
(* Begin.                                                                  *)

\* The request's context is not cancelled.
InBudget(r) == now <= stamp[r] + Budget

\* A mutating, authenticated request with a well-formed key.
Send(r, h) ==
    /\ pc[r] = "idle"
    /\ pc' = [pc EXCEPT ![r] = "stamped"]
    /\ hash' = [hash EXCEPT ![r] = h]
    /\ stamp' = [stamp EXCEPT ![r] = now]
    /\ known' = [known EXCEPT ![r] = stored]
    /\ UNCHANGED <<rec, now, status, answer, ranAt, stored, before>>

\* Mutant: any claim in progress may be taken over.
ClaimableAlways(at) ==
    \/ rec.state # "completed"
    \/ rec.expiresAt <= at

\* The row is missing, or matches the WHERE of the DO UPDATE branch.
Claimable(at) ==
    \/ rec.state = "absent"
    \/ rec.expiresAt <= at
    \/ rec.state = "in_progress" /\ rec.createdAt <= at - Lease

\* INSERT ... ON CONFLICT DO UPDATE, by request r.
Write(r) == rec' = [state |-> "in_progress", hash |-> hash[r], resp |-> NoReq,
                    createdAt |-> stamp[r], expiresAt |-> stamp[r] + TTL, by |-> r]

Claim(r) ==
    /\ pc[r] = "stamped" /\ InBudget(r)
    /\ Claimable(stamp[r])
    /\ Write(r)
    /\ pc' = [pc EXCEPT ![r] = "running"]
    /\ ranAt' = [ranAt EXCEPT ![r] = now]
    /\ before' = [before EXCEPT ![r] = stored]
    /\ UNCHANGED <<now, hash, stamp, status, answer, stored, known>>

ClaimConflict(r) ==
    /\ pc[r] = "stamped" /\ InBudget(r)
    /\ ~Claimable(stamp[r])
    /\ pc' = [pc EXCEPT ![r] = "get"]
    /\ UNCHANGED <<rec, now, hash, stamp, status, answer, ranAt, stored, before, known>>

Answer(r, kind, of) ==
    /\ pc' = [pc EXCEPT ![r] = "done"]
    /\ answer' = [answer EXCEPT ![r] = [kind |-> kind, of |-> of]]

\* Begin's error: 503, nothing runs.
BeginFails(r) ==
    /\ pc[r] \in {"stamped", "get"}
    /\ Answer(r, "unavailable", NoReq)
    /\ UNCHANGED <<rec, now, hash, stamp, status, ranAt, stored, before, known>>

\* The same, but the claiming statement took effect and its reply was lost.
ClaimReplyLost(r) ==
    /\ pc[r] = "stamped" /\ InBudget(r)
    /\ Claimable(stamp[r])
    /\ Write(r)
    /\ Answer(r, "unavailable", NoReq)
    /\ UNCHANGED <<now, hash, stamp, status, ranAt, stored, before, known>>

\* Mutant: a stored response is replayed whatever the payload.
VerdictAnyPayload(h) ==
    CASE rec.state \in {"absent", "in_progress"} -> "in_progress"
      [] rec.state = "completed" /\ rec.resp = NoReq -> "not_replayable"
      [] OTHER -> "replay"

\* The row read after the conflict; a row that vanished meanwhile counts as
\* in progress with the request's own fingerprint.
Verdict(h) ==
    CASE rec.state = "absent" -> "in_progress"
      [] rec.state # "absent" /\ rec.hash # h -> "mismatch"
      [] rec.state = "in_progress" /\ rec.hash = h -> "in_progress"
      [] rec.state = "completed" /\ rec.hash = h /\ rec.resp = NoReq -> "not_replayable"
      [] OTHER -> "replay"

Get(r) ==
    /\ pc[r] = "get" /\ InBudget(r)
    /\ Answer(r, Verdict(hash[r]),
              IF Verdict(hash[r]) = "replay" THEN rec.resp ELSE NoReq)
    /\ UNCHANGED <<rec, now, hash, stamp, status, ranAt, stored, before, known>>

-----------------------------------------------------------------------------
(* The handler and the settlement of its claim.                            *)

\* "server_error" is a 5xx, or a panic before any status; "oversize" a
\* response capturingWriter dropped, or Finish found larger than the cap.
Respond(r, st) ==
    /\ pc[r] = "running"
    /\ pc' = [pc EXCEPT ![r] = "settle"]
    /\ status' = [status EXCEPT ![r] = st]
    /\ UNCHANGED <<rec, now, hash, stamp, answer, ranAt, stored, before, known>>

\* Mutant: created_at is missing from the WHERE clauses.
FencedOff(r) == rec.state # "absent"

\* The statement matches the row: it exists and carries r's claim.
Fenced(r) == rec.state # "absent" /\ rec.createdAt = stamp[r]

Finish(r) ==
    /\ pc[r] = "settle" /\ status[r] # "server_error"
    /\ rec' = IF Fenced(r)
              THEN [rec EXCEPT !.state = "completed",
                               !.resp = IF status[r] = "oversize" THEN NoReq ELSE r]
              ELSE rec
    /\ stored' = IF Fenced(r) THEN stored \cup {r} ELSE stored
    /\ Answer(r, "executed", r)
    /\ UNCHANGED <<now, hash, stamp, status, ranAt, before, known>>

Abandon(r) ==
    /\ pc[r] = "settle" /\ status[r] = "server_error"
    /\ rec' = IF Fenced(r) THEN Absent ELSE rec
    /\ Answer(r, "executed", r)
    /\ UNCHANGED <<now, hash, stamp, status, ranAt, stored, before, known>>

\* The settling statement's error is logged.
SettleFails(r) ==
    /\ pc[r] = "settle"
    /\ Answer(r, "executed", r)
    /\ UNCHANGED <<rec, now, hash, stamp, status, ranAt, stored, before, known>>

\* The process dies with the request.
Crash(r) ==
    /\ pc[r] \in {"stamped", "get", "running", "settle"}
    /\ pc' = [pc EXCEPT ![r] = "dead"]
    /\ UNCHANGED <<rec, now, hash, stamp, status, answer, ranAt, stored, before, known>>

\* Mutant: the sweep goes by the lease and not by the record's expiry.
DeleteExpiredByLease ==
    /\ rec.state # "absent" /\ rec.createdAt + Lease <= now
    /\ rec' = Absent
    /\ UNCHANGED <<now, pc, hash, stamp, status, answer, ranAt, stored, before, known>>

\* StartReaper's sweep.
DeleteExpired ==
    /\ rec.state # "absent" /\ rec.expiresAt <= now
    /\ rec' = Absent
    /\ UNCHANGED <<now, pc, hash, stamp, status, answer, ranAt, stored, before, known>>

Tick ==
    /\ now < MaxTime
    /\ now' = now + 1
    /\ UNCHANGED <<rec, pc, hash, stamp, status, answer, ranAt, stored, before, known>>

Next ==
    \/ \E r \in Reqs :
         \/ \E h \in Hashes : Send(r, h)
         \/ Claim(r) \/ ClaimConflict(r) \/ BeginFails(r) \/ ClaimReplyLost(r)
         \/ Get(r)
         \/ \E st \in Statuses \ {"none"} : Respond(r, st)
         \/ Finish(r) \/ Abandon(r) \/ SettleFails(r) \/ Crash(r)
    \/ DeleteExpired
    \/ Tick

Spec == Init /\ [][Next]_vars

-----------------------------------------------------------------------------
(* Properties.                                                             *)

\* The handler of r may still write: it runs, and its context is alive.
Executing(r) == pc[r] = "running" /\ InBudget(r)

\* "Concurrent duplicates get 409": no two requests with the key execute at
\* the same time, whatever claims were taken over meanwhile.
OneAtATime == \A r, q \in Reqs : Executing(r) /\ Executing(q) => r = q

\* Once a completion is recorded no request with the key runs its handler
\* until the record's TTL is over: neither a late settlement of a claim that
\* was taken over, nor the reaper, nor a takeover frees the key early.
NoRerun == \A r \in Reqs : \A e \in before[r] : ranAt[r] >= stamp[e] + TTL

\* A replayed response is the recorded response of an execution of the very
\* same payload, and never a server error.
ReplayFaithful ==
    \A r \in Reqs : answer[r].kind = "replay" =>
        LET e == answer[r].of
        IN  /\ e \in stored
            /\ hash[e] = hash[r]
            /\ status[e] \in {"ok", "client_error"}

\* The table of docs/API.md, "Idempotent writes": a retry sent after the
\* completion was recorded, and answered within the record's life, gets the
\* original response (409 if that was too large), a different payload 422;
\* the store may be unreachable (503).
RetryVerdict ==
    \A r \in Reqs : \A e \in known[r] :
        /\ pc[r] = "done"
        /\ stamp[r] + Budget < stamp[e] + TTL
        => \/ answer[r].kind = "unavailable"
           \/ hash[r] # hash[e] /\ answer[r].kind = "mismatch"
           \/ /\ hash[r] = hash[e] /\ status[e] = "oversize"
              /\ answer[r].kind = "not_replayable"
           \/ /\ hash[r] = hash[e] /\ status[e] # "oversize"
              /\ answer[r] = [kind |-> "replay", of |-> e]
=============================================================================
