------------------------------ MODULE Sessions ------------------------------
(***************************************************************************)
(* Login, refresh-token rotation and session revocation for ONE account    *)
(* (internal/service/auth.go, internal/service/session.go and              *)
(* internal/repository/postgres/refresh_token.go).  Every statement there  *)
(* is scoped by user_id, so accounts do not interact.                      *)
(*                                                                         *)
(* A row of refresh_tokens is a token; the rows with one session_id are a  *)
(* session.  Requests are processes; every SQL statement is one step, and  *)
(* a request may die between two of them (Fail): a timed-out context, a    *)
(* database error or a restart, all of which the client sees as a 5xx.     *)
(*                                                                         *)
(* CreateInLiveSession holds FOR SHARE on the user row from its liveness   *)
(* check to its insert; every revoking statement but DeleteForUser takes   *)
(* FOR NO KEY UPDATE and therefore waits for it.  The lock is held exactly *)
(* by the processes at "insert".                                           *)
(***************************************************************************)
EXTENDS Integers, FiniteSets

CONSTANTS
    Tokens,         \* refresh tokens (uuid jti: every minted token is new)
    SessionIds,     \* session ids (uuid.New)
    Procs,          \* concurrent requests of the account
    NoToken,        \* no refresh token
    NoSession,      \* the session of a token not yet minted
    MaxPerUser,     \* SessionPolicy.MaxPerUser
    ReuseGrace,     \* SessionPolicy.ReuseGrace
    RefreshExpiry,  \* lifetime of a refresh token
    MaxTime         \* bound on the clock

ASSUME SessionsAssumption ==
    /\ NoToken \notin Tokens
    /\ NoSession \notin SessionIds
    /\ MaxPerUser \in Nat \ {0}
    /\ ReuseGrace \in Nat \ {0}
    /\ RefreshExpiry \in Nat \ {0}
    /\ MaxTime \in Nat

NoTime == -1

VARIABLES
    \* The database.
    rowState,    \* revoked column, plus whether the row exists
    rowSession,  \* session_id
    rotatedAt,   \* rotated_at, NoTime for NULL
    expiresAt,   \* expires_at
    lastUsed,    \* MAX(last_used_at) of a session's rows
    disabled,    \* users.disabled
    now,         \* the clock
    \* The requests.
    pc,          \* next statement of the request
    tok,         \* refresh token it presented
    new,         \* refresh token it minted
    rotate,      \* whether the presented token is to be superseded
    \* What the clients see, and history.
    answer,      \* the refresh answered in the last step, if any
    issued,      \* tokens returned to a client
    ended,       \* sessions some revoking statement ended
    raced,       \* sessions purged by DeleteForUser between another request's
                 \* liveness check and its insert
    evictFailed  \* some login went on without its eviction

rows    == <<rowState, rowSession, rotatedAt, expiresAt, lastUsed>>
request == <<pc, tok, new, rotate>>
vars    == <<rows, disabled, now, request,
             answer, issued, ended, raced, evictFailed>>

RowStates == {"unminted", "live", "revoked", "deleted"}
Labels    == {"idle", "evict", "create", "replay", "check", "insert", "mark",
              "purge"}
Verdicts  == {"ok", "revoked", "reuse", "expired", "invalid"}
NoAnswer  == [res |-> "none", ses |-> NoSession]

TypeOK ==
    /\ rowState \in [Tokens -> RowStates]
    /\ rowSession \in [Tokens -> SessionIds \cup {NoSession}]
    /\ rotatedAt \in [Tokens -> Nat \cup {NoTime}]
    /\ expiresAt \in [Tokens -> Nat]
    /\ lastUsed \in [SessionIds -> Nat]
    /\ disabled \in BOOLEAN
    /\ now \in Nat
    /\ pc \in [Procs -> Labels]
    /\ tok \in [Procs -> Tokens \cup {NoToken}]
    /\ new \in [Procs -> Tokens \cup {NoToken}]
    /\ rotate \in [Procs -> BOOLEAN]
    /\ answer \in [res : Verdicts \cup {"none"}, ses : SessionIds \cup {NoSession}]
    /\ issued \subseteq Tokens
    /\ ended \subseteq SessionIds
    /\ raced \subseteq SessionIds
    /\ evictFailed \in BOOLEAN

Init ==
    /\ rowState = [t \in Tokens |-> "unminted"]
    /\ rowSession = [t \in Tokens |-> NoSession]
    /\ rotatedAt = [t \in Tokens |-> NoTime]
    /\ expiresAt = [t \in Tokens |-> 0]
    /\ lastUsed = [s \in SessionIds |-> 0]
    /\ disabled = FALSE
    /\ now = 0
    /\ pc = [p \in Procs |-> "idle"]
    /\ tok = [p \in Procs |-> NoToken]
    /\ new = [p \in Procs |-> NoToken]
    /\ rotate = [p \in Procs |-> FALSE]
    /\ answer = NoAnswer
    /\ issued = {}
    /\ ended = {}
    /\ raced = {}
    /\ evictFailed = FALSE

-----------------------------------------------------------------------------
(* The table.                                                              *)

\* Sessions that have, or had, a row.
Started == {rowSession[t] : t \in {u \in Tokens : rowState[u] # "unminted"}}

\* A row of session s that no statement has revoked.
Unrevoked(s) == \E t \in Tokens : rowState[t] = "live" /\ rowSession[t] = s

\* liveSessionPredicate: revoked = false AND expires_at > NOW().
LiveSession(s) == \E t \in Tokens : /\ rowState[t] = "live"
                                    /\ rowSession[t] = s
                                    /\ expiresAt[t] > now

LiveSessions == {s \in SessionIds : LiveSession(s)}

\* A transaction that holds FOR SHARE on the user row is open.
ShareHeld == \E p \in Procs : pc[p] = "insert"

\* INSERT of a fresh row t into session s, then TouchSession.
InsertRow(t, s) ==
    /\ rowState[t] = "unminted"
    /\ rowState' = [rowState EXCEPT ![t] = "live"]
    /\ rowSession' = [rowSession EXCEPT ![t] = s]
    /\ expiresAt' = [expiresAt EXCEPT ![t] = now + RefreshExpiry]
    /\ lastUsed' = [lastUsed EXCEPT ![s] = now]
    /\ UNCHANGED rotatedAt

\* UPDATE ... SET revoked = true on every row of the sessions S, under
\* FOR NO KEY UPDATE on the user row.
RevokeRows(S) ==
    /\ ~ShareHeld
    /\ rowState' = [t \in Tokens |->
                      IF rowState[t] = "live" /\ rowSession[t] \in S
                      THEN "revoked" ELSE rowState[t]]
    /\ ended' = ended \cup S
    /\ UNCHANGED <<rowSession, rotatedAt, expiresAt, lastUsed>>

Finish(p) == /\ pc' = [pc EXCEPT ![p] = "idle"]
             /\ tok' = [tok EXCEPT ![p] = NoToken]
             /\ new' = [new EXCEPT ![p] = NoToken]
             /\ rotate' = [rotate EXCEPT ![p] = FALSE]

GoTo(p, label) == /\ pc' = [pc EXCEPT ![p] = label]
                  /\ UNCHANGED <<tok, new, rotate>>

-----------------------------------------------------------------------------
(* Starting a session.  The credential check (password, second factor,     *)
(* passkey or OIDC handoff) comes first; a 2FA login keeps a challenge     *)
(* token for minutes before it calls startSession.                         *)

LoginChecked(p) ==
    /\ pc[p] = "idle"
    /\ ~disabled
    /\ GoTo(p, "evict")
    /\ answer' = NoAnswer
    /\ UNCHANGED <<rows, disabled, now, issued, ended, raced, evictFailed>>

\* ORDER BY last_used_at DESC OFFSET keep: any choice among equals.
MostRecent(keep) ==
    {K \in SUBSET LiveSessions :
        /\ Cardinality(K) <= keep
        /\ K # LiveSessions => Cardinality(K) = keep
        /\ \A k \in K, s \in LiveSessions \ K : lastUsed[k] >= lastUsed[s]}

EvictOldestSessions(p) ==
    /\ pc[p] = "evict"
    /\ \E K \in MostRecent(MaxPerUser - 1) : RevokeRows(LiveSessions \ K)
    /\ GoTo(p, "create")
    /\ answer' = NoAnswer
    /\ UNCHANGED <<disabled, now, issued, raced, evictFailed>>

\* The eviction's error is logged and the login goes on.
EvictFails(p) ==
    /\ pc[p] = "evict"
    /\ GoTo(p, "create")
    /\ evictFailed' = TRUE
    /\ answer' = NoAnswer
    /\ UNCHANGED <<rows, disabled, now, issued, ended, raced>>

CreateSession(p, t, s) ==
    /\ pc[p] = "create"
    /\ s \notin Started
    /\ InsertRow(t, s)
    /\ Finish(p)
    /\ issued' = issued \cup {t}
    /\ answer' = NoAnswer
    /\ UNCHANGED <<disabled, now, ended, raced, evictFailed>>

-----------------------------------------------------------------------------
(* RefreshToken.  The branch is taken on the row GetByTokenHash returned;  *)
(* the statements that act on it come later.                               *)

Expired(t)     == now >= expiresAt[t]
Superseded(t)  == rowState[t] = "revoked" /\ rotatedAt[t] # NoTime
WithinGrace(t) == now - rotatedAt[t] <= ReuseGrace

\* Mutant: a superseded token is refused like one revoked outright.
RefreshRefusedNoGrace(p, t, res) ==
    /\ pc[p] = "idle"
    /\ t \in issued
    /\ ~Expired(t) /\ rowState[t] = "revoked" /\ res = "revoked"
    /\ answer' = [res |-> res, ses |-> rowSession[t]]
    /\ UNCHANGED <<rows, disabled, now, request,
                   issued, ended, raced, evictFailed>>

RefreshRefused(p, t, res) ==
    /\ pc[p] = "idle"
    /\ t \in issued
    /\ \/ Expired(t) /\ res = "expired"
       \/ ~Expired(t) /\ rowState[t] = "deleted" /\ res = "invalid"
       \/ /\ ~Expired(t)
          /\ rowState[t] = "revoked" /\ rotatedAt[t] = NoTime
          /\ res = "revoked"
    /\ answer' = [res |-> res, ses |-> rowSession[t]]
    /\ UNCHANGED <<rows, disabled, now, request,
                   issued, ended, raced, evictFailed>>

RefreshBegin(p, t, label, rotates) ==
    /\ pc[p] = "idle"
    /\ t \in issued
    /\ ~Expired(t)
    /\ pc' = [pc EXCEPT ![p] = label]
    /\ tok' = [tok EXCEPT ![p] = t]
    /\ rotate' = [rotate EXCEPT ![p] = rotates]
    /\ answer' = NoAnswer
    /\ UNCHANGED <<rows, disabled, now, new, issued, ended, raced, evictFailed>>

\* Mutant: the presented token is superseded before its replacement is stored.
RefreshLiveMarksFirst(p, t) ==
    /\ pc[p] = "idle" /\ t \in issued /\ ~Expired(t) /\ rowState[t] = "live"
    /\ rowState' = [rowState EXCEPT ![t] = "revoked"]
    /\ rotatedAt' = [rotatedAt EXCEPT ![t] = now]
    /\ pc' = [pc EXCEPT ![p] = "check"]
    /\ tok' = [tok EXCEPT ![p] = t]
    /\ answer' = NoAnswer
    /\ UNCHANGED <<rowSession, expiresAt, lastUsed, disabled, now, new, rotate,
                   issued, ended, raced, evictFailed>>

RefreshLive(p, t)   == rowState[t] = "live" /\ RefreshBegin(p, t, "check", TRUE)
RefreshGrace(p, t)  == /\ Superseded(t) /\ WithinGrace(t)
                       /\ RefreshBegin(p, t, "check", FALSE)
RefreshReplay(p, t) == /\ Superseded(t) /\ ~WithinGrace(t)
                       /\ RefreshBegin(p, t, "replay", FALSE)

\* A replay revokes the session; a failure to do so is only logged.
ReplayRevoke(p) ==
    /\ pc[p] = "replay"
    /\ \/ RevokeRows({rowSession[tok[p]]})
       \/ UNCHANGED <<rows, ended>>
    /\ Finish(p)
    /\ answer' = [res |-> "reuse", ses |-> rowSession[tok[p]]]
    /\ UNCHANGED <<disabled, now, issued, raced, evictFailed>>

\* Mutant: Create in place of CreateInLiveSession.
CheckNothing(p) ==
    /\ pc[p] = "check"
    /\ GoTo(p, "insert")
    /\ answer' = NoAnswer
    /\ UNCHANGED <<rows, disabled, now, issued, ended, raced, evictFailed>>

\* CreateInLiveSession: BEGIN, lock the user row, test the session.
CheckLive(p) ==
    /\ pc[p] = "check"
    /\ LiveSession(rowSession[tok[p]])
    /\ GoTo(p, "insert")
    /\ answer' = NoAnswer
    /\ UNCHANGED <<rows, disabled, now, issued, ended, raced, evictFailed>>

CheckEnded(p) ==
    /\ pc[p] = "check"
    /\ ~LiveSession(rowSession[tok[p]])
    /\ Finish(p)
    /\ answer' = [res |-> "revoked", ses |-> rowSession[tok[p]]]
    /\ UNCHANGED <<rows, disabled, now, issued, ended, raced, evictFailed>>

\* CreateInLiveSession: INSERT, COMMIT.  Inside the grace window that is all;
\* otherwise the presented token is still to be superseded.
InsertInLive(p, t) ==
    /\ pc[p] = "insert"
    /\ InsertRow(t, rowSession[tok[p]])
    /\ IF rotate[p]
       THEN /\ pc' = [pc EXCEPT ![p] = "mark"]
            /\ new' = [new EXCEPT ![p] = t]
            /\ answer' = NoAnswer
            /\ UNCHANGED <<tok, rotate, issued>>
       ELSE /\ Finish(p)
            /\ issued' = issued \cup {t}
            /\ answer' = [res |-> "ok", ses |-> rowSession[tok[p]]]
    /\ UNCHANGED <<disabled, now, ended, raced, evictFailed>>

\* Mutant: rotation revokes every other token of the session.
MarkRotatedAlone(p) ==
    /\ pc[p] = "mark"
    /\ rowState' = [t \in Tokens |->
                      IF /\ rowState[t] = "live" /\ t # new[p]
                         /\ rowSession[t] = rowSession[tok[p]]
                      THEN "revoked" ELSE rowState[t]]
    /\ rotatedAt' = [rotatedAt EXCEPT ![tok[p]] = now]
    /\ issued' = issued \cup {new[p]}
    /\ answer' = [res |-> "ok", ses |-> rowSession[tok[p]]]
    /\ Finish(p)
    /\ UNCHANGED <<rowSession, expiresAt, lastUsed, disabled, now,
                   ended, raced, evictFailed>>

\* A row that DeleteForUser removed meanwhile is ErrNotFound, a 5xx (Fail).
MarkRotated(p) ==
    /\ pc[p] = "mark"
    /\ rowState[tok[p]] # "deleted"
    /\ rowState' = [rowState EXCEPT ![tok[p]] = "revoked"]
    /\ rotatedAt' = [rotatedAt EXCEPT
                       ![tok[p]] = IF @ = NoTime THEN now ELSE @]
    /\ issued' = issued \cup {new[p]}
    /\ answer' = [res |-> "ok", ses |-> rowSession[tok[p]]]
    /\ Finish(p)
    /\ UNCHANGED <<rowSession, expiresAt, lastUsed, disabled, now,
                   ended, raced, evictFailed>>

-----------------------------------------------------------------------------
(* Ending sessions.                                                        *)

\* Only unrevoked rows are touched; none is ErrNotFound, which changes nothing.
RevokeSession(s) ==
    /\ Unrevoked(s)
    /\ RevokeRows({s})
    /\ answer' = NoAnswer
    /\ UNCHANGED <<disabled, now, request, issued, raced, evictFailed>>

Logout(t) == t \in issued /\ rowState[t] # "deleted" /\ RevokeSession(rowSession[t])

RevokeSessionsExcept(keep) ==
    /\ RevokeRows(Started \ {keep})
    /\ answer' = NoAnswer
    /\ UNCHANGED <<disabled, now, request, issued, raced, evictFailed>>

\* ChangePassword and ResetPassword end with RevokeAllForUser.
RevokeAllForUser ==
    /\ RevokeRows(Started)
    /\ answer' = NoAnswer
    /\ UNCHANGED <<disabled, now, request, issued, raced, evictFailed>>

\* The UPDATE of users waits for FOR SHARE; the purge is a later statement.
DisableUser(p) ==
    /\ pc[p] = "idle"
    /\ ~ShareHeld
    /\ disabled' = TRUE
    /\ GoTo(p, "purge")
    /\ answer' = NoAnswer
    /\ UNCHANGED <<rows, now, issued, ended, raced, evictFailed>>

ResetUser2fa(p) ==
    /\ pc[p] = "idle"
    /\ ~ShareHeld
    /\ GoTo(p, "purge")
    /\ answer' = NoAnswer
    /\ UNCHANGED <<rows, disabled, now, issued, ended, raced, evictFailed>>

EnableUser ==
    /\ ~ShareHeld
    /\ disabled' = FALSE
    /\ answer' = NoAnswer
    /\ UNCHANGED <<rows, now, request, issued, ended, raced, evictFailed>>

\* RevokeAllSessions: a DELETE of every row that takes no lock on the user.
DeleteForUser(p) ==
    /\ pc[p] = "purge"
    /\ rowState' = [t \in Tokens |-> IF rowState[t] = "unminted"
                                     THEN "unminted" ELSE "deleted"]
    /\ ended' = ended \cup Started
    /\ raced' = raced \cup {rowSession[tok[q]] :
                              q \in {r \in Procs : pc[r] = "insert"}}
    /\ Finish(p)
    /\ answer' = NoAnswer
    /\ UNCHANGED <<rowSession, rotatedAt, expiresAt, lastUsed, disabled, now,
                   issued, evictFailed>>

\* The request dies; an open transaction rolls back.
Fail(p) ==
    /\ pc[p] # "idle"
    /\ Finish(p)
    /\ answer' = NoAnswer
    /\ UNCHANGED <<rows, disabled, now, issued, ended, raced, evictFailed>>

Tick ==
    /\ now < MaxTime
    /\ now' = now + 1
    /\ answer' = NoAnswer
    /\ UNCHANGED <<rows, disabled, request, issued, ended, raced, evictFailed>>

Next ==
    \/ \E p \in Procs :
         \/ LoginChecked(p) \/ EvictOldestSessions(p) \/ EvictFails(p)
         \/ \E t \in Tokens, s \in SessionIds : CreateSession(p, t, s)
         \/ \E t \in Tokens :
              \/ \E res \in Verdicts : RefreshRefused(p, t, res)
              \/ RefreshLive(p, t) \/ RefreshGrace(p, t) \/ RefreshReplay(p, t)
              \/ InsertInLive(p, t)
         \/ ReplayRevoke(p) \/ CheckLive(p) \/ CheckEnded(p) \/ MarkRotated(p)
         \/ DisableUser(p) \/ ResetUser2fa(p) \/ DeleteForUser(p) \/ Fail(p)
    \/ \E t \in Tokens : Logout(t)
    \/ \E s \in SessionIds : RevokeSession(s) \/ RevokeSessionsExcept(s)
    \/ RevokeAllForUser \/ EnableUser \/ Tick

Spec == Init /\ [][Next]_vars

-----------------------------------------------------------------------------
(* Properties.                                                             *)

\* SESSION_CONTRACT section 4: rotation writes the replacement row before it
\* supersedes the presented one, so that no interleaving of refreshes (or of
\* requests that die half way) leaves a session without an unrevoked row:
\* only a revoking statement ends a session.
OnlyRevocationEnds == \A s \in Started \ ended : Unrevoked(s)

\* SESSION_CONTRACT section 4: a session that was ended holds no unrevoked row
\* ever again, whatever refreshes were under way.  The exception is exactly
\* the session whose rows DeleteForUser removed between the liveness check
\* and the insert of another request: that statement takes no lock.
EndedStaysEnded == \A s \in ended \ raced : ~Unrevoked(s)

\* SESSION_CONTRACT section 4, without the exception: "a refresh racing a
\* revocation either lands before it and is revoked with the session, or sees
\* the session ended".
EndedNeverRenewed == \A s \in ended : ~Unrevoked(s)

\* SESSION_CONTRACT section 4: two clients racing a refresh both hold working
\* tokens.  A token once returned stays usable until it is itself superseded
\* or its session is ended: a concurrent rotation never takes it away.
IssuedTokenWorks ==
    \A t \in issued : \/ rowState[t] = "live"
                      \/ rotatedAt[t] # NoTime
                      \/ rowSession[t] \in ended

\* SESSION_CONTRACT section 5: a refresh is refused as revoked only when its
\* session is over (a session renewed by the race above excepted).
RevokedMeansOver ==
    answer.res = "revoked" => \/ ~LiveSession(answer.ses)
                              \/ answer.ses \in raced

\* SESSION_CONTRACT section 3: at most MaxPerUser live sessions, as long as
\* no eviction failed and no purge raced a refresh.
SessionCap ==
    ~evictFailed /\ raced = {} => Cardinality(LiveSessions) <= MaxPerUser
=============================================================================
