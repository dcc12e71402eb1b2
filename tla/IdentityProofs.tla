--------------------------- MODULE IdentityProofs ---------------------------
(***************************************************************************)
(* The identity subsystem, for any number of requests, browsers, accounts, *)
(* ceremonies and sends.  Each part has an inductive invariant of its own: *)
(* AccInv for the account row, RolesInv for the administrators, OInv for   *)
(* logins through a provider, KeyInv for passkeys, MailInv for mail.  One  *)
(* lemma per action or group of actions shows that it is kept; the         *)
(* theorems about IdentitySpec at the end put the parts together.          *)
(***************************************************************************)
EXTENDS MCIdentity, FiniteSetTheorems, TLAPS

-----------------------------------------------------------------------------
(* The account row.  The statements of a request are put into groups by    *)
(* what they do to the row and to the copies; what each group does is      *)
(* proved once, and the parts of the invariant rest on that.               *)

Todos == {"none", "session", "challenge", "lock", "password", "link", "revoke", "verify"}

\* Requests that read the row and prepare nothing to be written.
Reads(p) == \/ Acc!LoginWrong(p) \/ Acc!LoginRight(p) \/ Acc!Login2FA(p)
            \/ Acc!ResendVerification(p) \/ Acc!VerifyEmail(p)
            \/ Acc!RequestPasswordReset(p) \/ Acc!ResetPassword2FA(p)
\* Statements on the counter and the lock, on sessions and tokens, and on the row.
Counts(p) == \/ Acc!IncrementFailedLoginAttempts(p) \/ Acc!LockAccount(p)
             \/ Acc!ResetFailedLoginAttempts(p) \/ Acc!CountFailedCode(p) \/ Acc!RereadCount(p)
             \/ Acc!Fail(p)
Tokens(p) == \/ Acc!StartSession(p) \/ Acc!RevokeAll(p) \/ Acc!DropVerifyTokens(p)
             \/ Acc!MintVerifyToken(p) \/ Acc!UseVerifyToken(p) \/ Acc!DropLinks(p)
             \/ Acc!MintLink(p) \/ Acc!UseLink(p)
Flags(p) == Acc!DisableUser(p) \/ Acc!MarkEmailVerified(p)
\* Requests that read the row and prepare what Update will write.
Prepares(p) == \/ Acc!ChangePassword(p) \/ Acc!SetupTOTP(p) \/ Acc!Disable(p) \/ Acc!ResetUser2fa(p)
               \/ Acc!EnableUser(p) \/ Acc!UpdateSettings(p) \/ Acc!ChangeEmail(p)
               \/ Acc!ResetPassword(p) \/ Acc!RereadForReset(p)
\* Steps that belong to no request.
Outside == Acc!LockExpires \/ Acc!UnlockUser \/ Acc!DeleteUsedLinks

\* Where a request goes and what it holds then.
Moves(p, s, t, r, o) ==
  /\ s \in Acc!Steps /\ t \in Todos /\ r \in Acc!Rows /\ o \in Acc!Rows
  /\ pc' = [pc EXCEPT ![p] = s] /\ todo' = [todo EXCEPT ![p] = t]
  /\ cp' = [cp EXCEPT ![p] = r] /\ old' = [old EXCEPT ![p] = o]

RowHistory == <<row, stale, spent, handed, shown>>
LockState == <<fails, lockSeen, died>>

\* The types of what the groups do not say more about.
SideTypes == /\ fails \in Nat /\ locked \in BOOLEAN /\ vtoks \subseteq Mails
             /\ rtok \in [Links -> {"absent", "live", "used"}]
             /\ sess \subseteq Pwds /\ challenge \in BOOLEAN
             /\ arg \in [Procs -> Pwds \cup Codes \cup Mails] /\ link \in [Procs -> Links]
             /\ ops \in Nat /\ proven \subseteq Mails /\ lockSeen \in BOOLEAN /\ died \in Nat
RowTypes == /\ row \in Acc!Rows /\ stale \in BOOLEAN /\ shown \subseteq Secrets
            /\ spent \in [Codes -> Nat] /\ handed \subseteq Codes
CopyTypes == /\ pc \in [Procs -> Acc!Steps] /\ cp \in [Procs -> Acc!Rows]
             /\ old \in [Procs -> Acc!Rows] /\ todo \in [Procs -> Todos]

LEMMA AccTypes == Acc!TypeOK <=> SideTypes /\ RowTypes /\ CopyTypes
BY DEF Acc!TypeOK, SideTypes, RowTypes, CopyTypes, Todos

LEMMA MovesTyped ==
  ASSUME CopyTypes, NEW p \in Procs, NEW s, NEW t, NEW r, NEW o, Moves(p, s, t, r, o)
  PROVE  CopyTypes'
BY DEF CopyTypes, Moves

LEMMA AccNextGroups ==
  ASSUME Acc!Next
  PROVE  \/ \E p \in Procs : \/ Reads(p) \/ Counts(p) \/ Tokens(p) \/ Flags(p) \/ Prepares(p)
                             \/ Acc!VerifyAndEnable(p) \/ Acc!ConsumeRecoveryCode(p) \/ Acc!Update(p)
         \/ Outside
BY DEF Acc!Next, Reads, Counts, Tokens, Flags, Prepares, Outside, Acc!LoginUser, Acc!ChangeOwnPassword,
       Acc!Setup2FA, Acc!Verify2FA, Acc!Disable2FA, Acc!UpdateCurrentUser, Acc!ResendVerificationEmail,
       Acc!FollowVerificationLink, Acc!ForgotPassword, Acc!CompletePasswordReset

-----------------------------------------------------------------------------
(* What the groups do. *)

\* The columns of a row have their types, and the rows that the requests prepare are rows.
LEMMA RowColumns ==
  ASSUME NEW r \in Acc!Rows
  PROVE  /\ r.email \in Mails /\ r.pwd \in Pwds /\ r.enabled \in BOOLEAN
         /\ r.secret \in Secrets \cup {NoSecret} /\ r.codes \in SUBSET Codes
BY DEF Acc!Rows

\* Where a request begins, and where it goes on.
LEMMA BeginTyped ==
  ASSUME SideTypes, NEW p \in Procs, NEW l, l \in Links \/ l = link[p], Acc!BeginWith(p, l)
  PROVE  ops' \in Nat /\ link' \in [Procs -> Links] /\ pc[p] = "idle"
         /\ old' = [old EXCEPT ![p] = row]
BY DEF Acc!BeginWith, SideTypes

LEMMA ValidateMoves ==
  ASSUME SideTypes, RowTypes, NEW p \in Procs, NEW next \in {"session", "password"},
         Acc!ValidateTOTP(p, next), old' = [old EXCEPT ![p] = row]
  PROVE  /\ \E s, t : Moves(p, s, t, row, row) /\ s \notin {"update", "lock", "recount", "count"}
         /\ arg' \in [Procs -> Pwds \cup Codes \cup Mails]
<1>0. row \in Acc!Rows /\ row.codes \in SUBSET Codes
  BY RowColumns DEF RowTypes
<1>1. CASE Acc!AcceptTOTP(p, next)
  <2>1. Moves(p, IF fails > 0 THEN "reset" ELSE IF next = "session" THEN "open" ELSE "reread", next, row, row)
    BY <1>0, <1>1 DEF Acc!AcceptTOTP, Acc!ValidateTOTP, Acc!Go, Moves, Acc!Steps, Todos
  <2> QED BY <1>1, <2>1 DEF Acc!AcceptTOTP, SideTypes
<1>2. CASE Acc!MatchCode(p, next)
  <2>1. PICK c \in row.codes : /\ Acc!Go(p, IF fails > 0 THEN "consumereset" ELSE "consume", next)
                              /\ arg' = [arg EXCEPT ![p] = c]
    BY <1>2 DEF Acc!MatchCode
  <2>2. arg' \in [Procs -> Pwds \cup Codes \cup Mails]
    BY <1>0, <2>1 DEF SideTypes
  <2>3. Moves(p, IF fails > 0 THEN "consumereset" ELSE "consume", next, row, row)
    BY <1>0, <2>1 DEF Acc!ValidateTOTP, Acc!Go, Moves, Acc!Steps, Todos
  <2> QED BY <2>2, <2>3
<1>3. CASE Acc!WrongCode(p)
  <2>1. Moves(p, "count2fa", "none", row, row)
    BY <1>0, <1>3 DEF Acc!WrongCode, Acc!ValidateTOTP, Acc!Go, Moves, Acc!Steps, Todos
  <2> QED BY <1>3, <2>1 DEF Acc!WrongCode, SideTypes
<1> QED BY <1>1, <1>2, <1>3 DEF Acc!ValidateTOTP

LEMMA ReadsEffect ==
  ASSUME SideTypes, RowTypes, CopyTypes, NEW p \in Procs, Reads(p)
  PROVE  /\ pc[p] = "idle"
         /\ \E s, t, r : /\ Moves(p, s, t, r, row) /\ s \notin {"update", "lock", "recount"}
                         /\ r \in {row, cp[p]} /\ (s = "count" /\ t # "lock" => fails + 1 < Max)
         /\ UNCHANGED <<RowHistory, LockState>> /\ SideTypes'
<1> DEFINE Goal == /\ pc[p] = "idle"
                   /\ \E s, t, r : /\ Moves(p, s, t, r, row) /\ s \notin {"update", "lock", "recount"}
                                   /\ r \in {row, cp[p]} /\ (s = "count" /\ t # "lock" => fails + 1 < Max)
                   /\ UNCHANGED <<RowHistory, LockState>> /\ SideTypes'
<1> USE DEF Acc!Go, Acc!Begin, Acc!Quiet, Acc!hist, Acc!rowVars, RowHistory, LockState
<1>0. row \in Acc!Rows /\ row.pwd \in Pwds /\ row.codes \in SUBSET Codes /\ row.enabled \in BOOLEAN
  BY RowColumns DEF RowTypes
<1>1. ASSUME Acc!LoginWrong(p) PROVE Goal
  <2>1. Moves(p, "count", IF fails + 1 >= Max THEN "lock" ELSE "none", row, row) /\ pc[p] = "idle"
    BY <1>0, <1>1, BeginTyped DEF Acc!LoginWrong, Moves, Acc!Steps, Todos
  <2>2. IF fails + 1 >= Max THEN TRUE ELSE fails + 1 < Max
    BY MaxAssumption DEF SideTypes
  <2> QED BY <1>1, <2>1, <2>2, BeginTyped DEF Acc!LoginWrong, SideTypes
<1>2. ASSUME Acc!LoginRight(p) PROVE Goal
  <2>1. Moves(p, IF fails > 0 THEN "reset" ELSE IF row.enabled THEN "idle" ELSE "open",
                 IF row.enabled THEN "challenge" ELSE "session", row, row) /\ pc[p] = "idle"
    BY <1>0, <1>2, BeginTyped DEF Acc!LoginRight, Moves, Acc!Steps, Todos
  <2>2. arg' \in [Procs -> Pwds \cup Codes \cup Mails] /\ challenge' \in BOOLEAN
    BY <1>0, <1>2 DEF Acc!LoginRight, SideTypes
  <2> QED BY <1>2, <2>1, <2>2, BeginTyped DEF Acc!LoginRight, SideTypes
<1>3. ASSUME Acc!Login2FA(p) PROVE Goal
  BY <1>3, ValidateMoves, BeginTyped DEF Acc!Login2FA, SideTypes
<1>4. ASSUME Acc!ResendVerification(p) PROVE Goal
  <2>1. Moves(p, "dropverify", "none", row, row) /\ pc[p] = "idle"
    BY <1>0, <1>4, BeginTyped DEF Acc!ResendVerification, Moves, Acc!Steps, Todos
  <2> QED BY <1>4, <2>1, BeginTyped DEF Acc!ResendVerification, SideTypes
<1>5. ASSUME Acc!VerifyEmail(p) PROVE Goal
  <2>1. PICK m \in vtoks : /\ Acc!Begin(p) /\ arg' = [arg EXCEPT ![p] = m] /\ proven' = proven \cup {m}
                          /\ cp' = [cp EXCEPT ![p] = row]
                          /\ Acc!Go(p, IF row.verified THEN "useverify" ELSE "markverified", "session")
                          /\ UNCHANGED <<row, fails, locked, vtoks, rtok, sess, challenge, stale, shown, spent,
                                         handed, lockSeen, died>>
    BY <1>5 DEF Acc!VerifyEmail
  <2>2. Moves(p, IF row.verified THEN "useverify" ELSE "markverified", "session", row, row) /\ pc[p] = "idle"
    BY <1>0, <2>1, BeginTyped DEF Moves, Acc!Steps, Todos
  <2>3. arg' \in [Procs -> Pwds \cup Codes \cup Mails] /\ proven' \subseteq Mails
    BY <2>1 DEF SideTypes
  <2> QED BY <2>1, <2>2, <2>3, BeginTyped DEF SideTypes
<1>6. ASSUME Acc!RequestPasswordReset(p) PROVE Goal
  <2>1. Moves(p, "droplinks", "none", cp[p], row) /\ pc[p] = "idle"
    BY <1>0, <1>6, BeginTyped DEF Acc!RequestPasswordReset, Moves, Acc!Steps, Todos, CopyTypes
  <2> QED BY <1>6, <2>1, BeginTyped DEF Acc!RequestPasswordReset, SideTypes
<1>7. ASSUME Acc!ResetPassword2FA(p) PROVE Goal
  <2>1. PICK l \in Links : Acc!BeginWith(p, l)
    BY <1>7 DEF Acc!ResetPassword2FA
  <2> QED BY <1>7, <2>1, ValidateMoves, BeginTyped DEF Acc!ResetPassword2FA, SideTypes
<1> QED BY <1>1, <1>2, <1>3, <1>4, <1>5, <1>6, <1>7 DEF Reads

\* What a statement on the counter or the lock, or the end of a request, does to them.
CountStep(p, s) ==
  \/ /\ pc[p] = "count" /\ s = (IF todo[p] = "lock" THEN "lock" ELSE "idle")
     /\ fails' \in {fails, fails + 1} /\ UNCHANGED <<lockSeen, died>>
  \/ /\ pc[p] = "count2fa" /\ s = "recount" /\ fails' \in {fails, fails + 1} /\ UNCHANGED <<lockSeen, died>>
  \/ /\ pc[p] = "recount" /\ s = (IF fails >= Max THEN "lock" ELSE "idle") /\ UNCHANGED LockState
  \/ pc[p] = "lock" /\ lockSeen'
  \/ /\ pc[p] = "reset" /\ s \notin {"count", "lock", "recount"} /\ UNCHANGED died
     /\ (fails' = 0 \/ UNCHANGED <<fails, lockSeen>>)
  \/ /\ s = "idle" /\ UNCHANGED <<fails, lockSeen>>
     /\ died' = IF pc[p] \in {"lock", "recount"} THEN died + 1 ELSE died

LEMMA CountsEffect ==
  ASSUME SideTypes, RowTypes, CopyTypes, NEW p \in Procs, Counts(p)
  PROVE  /\ \E s, t : Moves(p, s, t, cp[p], old[p]) /\ s # "update" /\ CountStep(p, s)
         /\ UNCHANGED RowHistory /\ SideTypes'
<1> DEFINE Goal == /\ \E s, t : Moves(p, s, t, cp[p], old[p]) /\ s # "update" /\ CountStep(p, s)
                   /\ UNCHANGED RowHistory /\ SideTypes'
<1> USE DEF Acc!Go, Acc!At, Acc!Quiet, Acc!hist, Acc!rowVars, RowHistory, LockState
<1>1. ASSUME Acc!IncrementFailedLoginAttempts(p) PROVE Goal
  <2>1. Moves(p, IF todo[p] = "lock" THEN "lock" ELSE "idle", "none", cp[p], old[p])
    BY <1>1 DEF Acc!IncrementFailedLoginAttempts, Moves, Acc!Steps, Todos, CopyTypes
  <2> QED BY <1>1, <2>1 DEF Acc!IncrementFailedLoginAttempts, SideTypes, CountStep
<1>2. ASSUME Acc!LockAccount(p) PROVE Goal
  <2>1. Moves(p, "idle", "none", cp[p], old[p])
    BY <1>2 DEF Acc!LockAccount, Moves, Acc!Steps, Todos, CopyTypes
  <2> QED BY <1>2, <2>1 DEF Acc!LockAccount, SideTypes, CountStep
<1>3. ASSUME Acc!ResetFailedLoginAttempts(p) PROVE Goal
  <2> DEFINE s == CASE todo[p] = "session" -> "open" [] todo[p] = "password" -> "reread"
                    [] OTHER -> "idle"
  <2>0. s \in {"open", "reread", "idle"} /\ pc' = [pc EXCEPT ![p] = s]
    BY <1>3 DEF Acc!ResetFailedLoginAttempts
  <2> HIDE DEF s
  <2>1. Moves(p, s, todo[p], cp[p], old[p])
    BY <1>3, <2>0 DEF Acc!ResetFailedLoginAttempts, Moves, Acc!Steps, Todos, CopyTypes
  <2>2. /\ fails' \in Nat
        /\ locked' \in BOOLEAN
        /\ lockSeen' \in BOOLEAN
    <3>1. CASE fails' = 0 /\ locked' = FALSE /\ lockSeen' = FALSE
      BY <3>1
    <3>2. CASE fails' = fails /\ locked' = locked /\ lockSeen' = lockSeen
      BY <3>2 DEF SideTypes
    <3> QED BY <1>3, <3>1, <3>2 DEF Acc!ResetFailedLoginAttempts
  <2>3. challenge' \in BOOLEAN
    BY <1>3 DEF Acc!ResetFailedLoginAttempts
  <2>4. SideTypes'
    BY <1>3, <2>2, <2>3 DEF Acc!ResetFailedLoginAttempts, SideTypes
  <2> QED BY <1>3, <2>0, <2>1, <2>4 DEF Acc!ResetFailedLoginAttempts, CountStep
<1>4. ASSUME Acc!CountFailedCode(p) PROVE Goal
  <2>1. Moves(p, "recount", "none", cp[p], old[p])
    BY <1>4 DEF Acc!CountFailedCode, Moves, Acc!Steps, Todos, CopyTypes
  <2> QED BY <1>4, <2>1 DEF Acc!CountFailedCode, SideTypes, CountStep
<1>5. ASSUME Acc!RereadCount(p) PROVE Goal
  <2>1. Moves(p, IF fails >= Max THEN "lock" ELSE "idle", "none", cp[p], old[p])
    BY <1>5 DEF Acc!RereadCount, Moves, Acc!Steps, Todos, CopyTypes
  <2> QED BY <1>5, <2>1 DEF Acc!RereadCount, SideTypes, CountStep
<1>6. ASSUME Acc!Fail(p) PROVE Goal
  <2>1. Moves(p, "idle", "none", cp[p], old[p])
    BY <1>6 DEF Acc!Fail, Moves, Acc!Steps, Todos, CopyTypes
  <2> QED BY <1>6, <2>1 DEF Acc!Fail, SideTypes, CountStep
<1> QED BY <1>1, <1>2, <1>3, <1>4, <1>5, <1>6 DEF Counts

\* Where a request is when none of its steps touches the counter or the lock.
Elsewhere(p, s) == pc[p] \notin {"count", "lock", "recount"} /\ s \notin {"count", "lock", "recount"}

LEMMA TokensEffect ==
  ASSUME SideTypes, RowTypes, CopyTypes, NEW p \in Procs, Tokens(p)
  PROVE  /\ \E s, t : Moves(p, s, t, cp[p], old[p]) /\ s # "update" /\ Elsewhere(p, s)
         /\ UNCHANGED <<RowHistory, LockState>> /\ SideTypes'
<1> DEFINE Goal == /\ \E s, t : Moves(p, s, t, cp[p], old[p]) /\ s # "update" /\ Elsewhere(p, s)
                   /\ UNCHANGED <<RowHistory, LockState>> /\ SideTypes'
<1> USE DEF Acc!Go, Acc!At, Acc!hist, Acc!rowVars, RowHistory, LockState
<1>1. ASSUME Acc!StartSession(p) PROVE Goal
  <2>1. Moves(p, "idle", "none", cp[p], old[p])
    BY <1>1 DEF Acc!StartSession, Moves, Acc!Steps, Todos, CopyTypes
  <2>2. SideTypes'
    BY RowColumns, <1>1 DEF Acc!StartSession, SideTypes, CopyTypes
  <2> QED BY <1>1, <2>1, <2>2 DEF Acc!StartSession, Elsewhere
<1>2. ASSUME Acc!RevokeAll(p) PROVE Goal
  <2>1. Moves(p, "idle", "none", cp[p], old[p])
    BY <1>2 DEF Acc!RevokeAll, Moves, Acc!Steps, Todos, CopyTypes
  <2>2. SideTypes'
    BY <1>2 DEF Acc!RevokeAll, SideTypes
  <2> QED BY <1>2, <2>1, <2>2 DEF Acc!RevokeAll, Elsewhere
<1>3. ASSUME Acc!DropVerifyTokens(p) PROVE Goal
  <2>1. Moves(p, "mintverify", todo[p], cp[p], old[p])
    BY <1>3 DEF Acc!DropVerifyTokens, Moves, Acc!Steps, Todos, CopyTypes
  <2>2. SideTypes'
    BY <1>3 DEF Acc!DropVerifyTokens, SideTypes
  <2> QED BY <1>3, <2>1, <2>2 DEF Acc!DropVerifyTokens, Elsewhere
<1>4. ASSUME Acc!MintVerifyToken(p) PROVE Goal
  <2>1. Moves(p, "idle", "none", cp[p], old[p])
    BY <1>4 DEF Acc!MintVerifyToken, Moves, Acc!Steps, Todos, CopyTypes
  <2>2. SideTypes'
    BY RowColumns, <1>4 DEF Acc!MintVerifyToken, SideTypes, CopyTypes
  <2> QED BY <1>4, <2>1, <2>2 DEF Acc!MintVerifyToken, Elsewhere
<1>5. ASSUME Acc!UseVerifyToken(p) PROVE Goal
  <2>1. Moves(p, IF arg[p] \in vtoks THEN "open" ELSE "idle", "session", cp[p], old[p])
    BY <1>5 DEF Acc!UseVerifyToken, Moves, Acc!Steps, Todos, CopyTypes
  <2>2. SideTypes'
    BY <1>5 DEF Acc!UseVerifyToken, SideTypes
  <2> QED BY <1>5, <2>1, <2>2 DEF Acc!UseVerifyToken, Elsewhere
<1>6. ASSUME Acc!DropLinks(p) PROVE Goal
  <2>1. Moves(p, "mintlink", "none", cp[p], old[p])
    BY <1>6 DEF Acc!DropLinks, Moves, Acc!Steps, Todos, CopyTypes
  <2>2. SideTypes'
    BY <1>6 DEF Acc!DropLinks, SideTypes
  <2> QED BY <1>6, <2>1, <2>2 DEF Acc!DropLinks, Elsewhere
<1>7. ASSUME Acc!MintLink(p) PROVE Goal
  <2>1. Moves(p, "idle", "none", cp[p], old[p])
    BY <1>7 DEF Acc!MintLink, Moves, Acc!Steps, Todos, CopyTypes
  <2>2. SideTypes'
    BY <1>7 DEF Acc!MintLink, SideTypes
  <2> QED BY <1>7, <2>1, <2>2 DEF Acc!MintLink, Elsewhere
<1>8. ASSUME Acc!UseLink(p) PROVE Goal
  <2>1. Moves(p, IF rtok[link[p]] = "absent" THEN "idle" ELSE "revoke", "none", cp[p], old[p])
    BY <1>8 DEF Acc!UseLink, Moves, Acc!Steps, Todos, CopyTypes
  <2>2. SideTypes'
    BY <1>8 DEF Acc!UseLink, SideTypes
  <2> QED BY <1>8, <2>1, <2>2 DEF Acc!UseLink, Elsewhere
<1> QED BY <1>1, <1>2, <1>3, <1>4, <1>5, <1>6, <1>7, <1>8 DEF Tokens

\* A statement on one column that neither the codes nor the second factor depend on.
SameFactor(r, s) == r.codes = s.codes /\ r.enabled = s.enabled /\ r.secret = s.secret

LEMMA FlagsEffect ==
  ASSUME SideTypes, RowTypes, CopyTypes, NEW p \in Procs, Flags(p)
  PROVE  /\ \E s, t, o : /\ Moves(p, s, t, cp[p], o) /\ s # "update" /\ Elsewhere(p, s)
                         /\ o \in {row, old[p]}
         /\ row' \in Acc!Rows /\ SameFactor(row', row)
         /\ UNCHANGED <<stale, spent, handed, shown, LockState>> /\ SideTypes'
<1> DEFINE Goal == /\ \E s, t, o : /\ Moves(p, s, t, cp[p], o) /\ s # "update" /\ Elsewhere(p, s)
                                   /\ o \in {row, old[p]}
                   /\ row' \in Acc!Rows /\ SameFactor(row', row)
                   /\ UNCHANGED <<stale, spent, handed, shown, LockState>> /\ SideTypes'
<1> USE DEF Acc!Go, Acc!At, Acc!Begin, Acc!hist, Acc!rowVars, LockState
<1>0. row \in Acc!Rows
  BY DEF RowTypes
<1>1. ASSUME Acc!DisableUser(p) PROVE Goal
  <2>1. Moves(p, "revoke", "none", cp[p], row) /\ pc[p] = "idle"
    BY <1>0, <1>1, BeginTyped DEF Acc!DisableUser, Moves, Acc!Steps, Todos, CopyTypes
  <2>2. row' \in Acc!Rows /\ SameFactor(row', row)
    BY <1>0, <1>1 DEF Acc!DisableUser, Acc!Rows, SameFactor
  <2> QED BY <1>1, <2>1, <2>2, BeginTyped DEF Acc!DisableUser, SideTypes, Elsewhere
<1>2. ASSUME Acc!MarkEmailVerified(p) PROVE Goal
  <2>1. Moves(p, "useverify", todo[p], cp[p], old[p])
    BY <1>2 DEF Acc!MarkEmailVerified, Moves, Acc!Steps, Todos, CopyTypes
  <2>2. row' \in Acc!Rows /\ SameFactor(row', row)
    BY <1>0, <1>2 DEF Acc!MarkEmailVerified, Acc!Rows, SameFactor
  <2> QED BY <1>2, <2>1, <2>2 DEF Acc!MarkEmailVerified, SideTypes, Elsewhere
<1> QED BY <1>1, <1>2 DEF Flags

\* A row that is prepared from the row that was read: the codes are those of the row or
\* none, and an active second factor is the one of the row.
PreparedFrom(r) == /\ r \in Acc!Rows /\ r.codes \subseteq row.codes
                   /\ r.enabled => row.enabled /\ r.secret = row.secret

LEMMA PreparedRows ==
  ASSUME row \in Acc!Rows
  PROVE  /\ \A w \in Pwds : PreparedFrom([row EXCEPT !.pwd = w])
         /\ \A s \in Secrets : ~row.enabled => PreparedFrom([row EXCEPT !.secret = s])
         /\ PreparedFrom(Acc!Without2FA(row)) /\ PreparedFrom(row)
         /\ PreparedFrom([row EXCEPT !.disabled = FALSE])
         /\ \A m \in Mails : PreparedFrom([row EXCEPT !.email = m, !.verified = FALSE])
<1>1. \A w \in Pwds : PreparedFrom([row EXCEPT !.pwd = w])
  BY DEF PreparedFrom, Acc!Rows
<1>2. \A s \in Secrets : ~row.enabled => PreparedFrom([row EXCEPT !.secret = s])
  BY DEF PreparedFrom, Acc!Rows
<1>3. PreparedFrom(Acc!Without2FA(row)) /\ PreparedFrom(row)
  BY DEF PreparedFrom, Acc!Rows, Acc!Without2FA
<1>4. PreparedFrom([row EXCEPT !.disabled = FALSE])
  BY DEF PreparedFrom, Acc!Rows
<1>5. \A m \in Mails : PreparedFrom([row EXCEPT !.email = m, !.verified = FALSE])
  BY DEF PreparedFrom, Acc!Rows
<1> QED BY <1>1, <1>2, <1>3, <1>4, <1>5

PreparesGoal(p) == /\ \E t, r : Moves(p, "update", t, r, row) /\ PreparedFrom(r)
                   /\ pc[p] \notin {"count", "lock", "recount"}
                   /\ UNCHANGED <<RowHistory, LockState>> /\ SideTypes'

LEMMA PrepareEffect ==
  ASSUME SideTypes, RowTypes, CopyTypes, NEW p \in Procs, NEW r, PreparedFrom(r), NEW t \in Todos,
         Acc!Prepare(p, r, t)
  PROVE  PreparesGoal(p)
<1> USE DEF Acc!Go, Acc!Begin, Acc!Quiet, Acc!hist, Acc!rowVars, RowHistory, LockState
<1>1. Moves(p, "update", t, r, row) /\ pc[p] = "idle"
  BY BeginTyped DEF Acc!Prepare, Moves, Acc!Steps, PreparedFrom, RowTypes
<1> QED BY <1>1, BeginTyped DEF PreparesGoal, Acc!Prepare, SideTypes

LEMMA PreparesEffect ==
  ASSUME SideTypes, RowTypes, CopyTypes, NEW p \in Procs, Prepares(p)
  PROVE  PreparesGoal(p)
<1>0. row \in Acc!Rows
  BY DEF RowTypes
<1>1. CASE Acc!ChangePassword(p)
  BY <1>0, <1>1, PreparedRows, PrepareEffect DEF Acc!ChangePassword, Todos
<1>2. CASE Acc!SetupTOTP(p)
  BY <1>0, <1>2, PreparedRows, PrepareEffect DEF Acc!SetupTOTP, Todos
<1>3. CASE Acc!Disable(p) \/ Acc!ResetUser2fa(p)
  BY <1>0, <1>3, PreparedRows, PrepareEffect DEF Acc!Disable, Acc!ResetUser2fa, Todos
<1>4. CASE Acc!EnableUser(p) \/ Acc!UpdateSettings(p)
  BY <1>0, <1>4, PreparedRows, PrepareEffect DEF Acc!EnableUser, Acc!UpdateSettings, Todos
<1>5. CASE Acc!ChangeEmail(p)
  BY <1>0, <1>5, PreparedRows, PrepareEffect DEF Acc!ChangeEmail, Todos
<1> USE DEF Acc!Go, Acc!Quiet, Acc!hist, Acc!rowVars, RowHistory, LockState
<1>6. CASE Acc!ResetPassword(p)
  <2>1. PICK l \in Links, w \in Pwds :
          /\ Acc!BeginWith(p, l) /\ cp' = [cp EXCEPT ![p] = [row EXCEPT !.pwd = w]]
          /\ Acc!Go(p, "update", "link") /\ UNCHANGED arg /\ Acc!Quiet
    BY <1>6 DEF Acc!ResetPassword
  <2> DEFINE r == [row EXCEPT !.pwd = w]
  <2>2. PreparedFrom(r)
    BY <1>0, PreparedRows
  <2> HIDE DEF r
  <2>3. Moves(p, "update", "link", r, row) /\ pc[p] = "idle"
    BY <1>0, <2>1, <2>2, BeginTyped DEF r, Moves, Acc!Steps, Todos, PreparedFrom
  <2> QED BY <2>1, <2>2, <2>3, BeginTyped DEF PreparesGoal, SideTypes
<1>7. CASE Acc!RereadForReset(p)
  <2>1. PICK w \in Pwds : cp' = [cp EXCEPT ![p] = [row EXCEPT !.pwd = w]]
    BY <1>7 DEF Acc!RereadForReset
  <2> DEFINE r == [row EXCEPT !.pwd = w]
  <2>2. PreparedFrom(r)
    BY <1>0, PreparedRows
  <2> HIDE DEF r
  <2>3. Moves(p, "update", "link", r, row)
    BY <1>0, <1>7, <2>1, <2>2 DEF Acc!RereadForReset, r, Moves, Acc!Steps, Todos, PreparedFrom
  <2> QED BY <1>7, <2>2, <2>3 DEF Acc!RereadForReset, PreparesGoal, SideTypes
<1> QED BY <1>1, <1>2, <1>3, <1>4, <1>5, <1>6, <1>7 DEF Prepares

LEMMA VerifyEffect ==
  ASSUME SideTypes, RowTypes, CopyTypes, NEW p \in Procs, Acc!VerifyAndEnable(p)
  PROVE  /\ pc[p] = "idle"
         /\ \E r : /\ Moves(p, "update", "none", r, row) /\ r.codes \in SUBSET (Codes \ handed)
                   /\ r.secret = row.secret /\ handed' = handed \cup r.codes
         /\ shown' = shown \cup {row.secret} /\ row.secret \in Secrets
         /\ UNCHANGED <<row, stale, spent, LockState>> /\ SideTypes'
<1> USE DEF Acc!Go, Acc!Begin, Acc!hist, Acc!rowVars, LockState
<1>0. row \in Acc!Rows /\ row.secret \in Secrets
  BY RowColumns DEF RowTypes, Acc!VerifyAndEnable
<1>1. PICK new \in SUBSET (Codes \ handed) :
        /\ cp' = [cp EXCEPT ![p] = [row EXCEPT !.enabled = TRUE, !.codes = new]]
        /\ handed' = handed \cup new
  BY DEF Acc!VerifyAndEnable
<1> DEFINE r == [row EXCEPT !.enabled = TRUE, !.codes = new]
<1>2. r \in Acc!Rows /\ r.codes = new /\ r.secret = row.secret
  BY <1>0 DEF Acc!Rows
<1> HIDE DEF r
<1>3. Moves(p, "update", "none", r, row) /\ pc[p] = "idle"
  BY <1>0, <1>1, <1>2, BeginTyped DEF r, Acc!VerifyAndEnable, Moves, Acc!Steps, Todos
<1>4. SideTypes'
  BY BeginTyped DEF Acc!VerifyAndEnable, SideTypes
<1> QED BY <1>0, <1>1, <1>2, <1>3, <1>4 DEF Acc!VerifyAndEnable

LEMMA ConsumeEffect ==
  ASSUME SideTypes, RowTypes, CopyTypes, NEW p \in Procs, Acc!ConsumeRecoveryCode(p)
  PROVE  /\ \E s, t : Moves(p, s, t, cp[p], old[p]) /\ s # "update" /\ Elsewhere(p, s)
         /\ \/ UNCHANGED <<row, spent>>
            \/ \E c \in row.codes : /\ row' \in Acc!Rows /\ row'.codes = row.codes \ {c}
                                    /\ row'.enabled = row.enabled /\ row'.secret = row.secret
                                    /\ spent' = [spent EXCEPT ![c] = @ + 1]
         /\ UNCHANGED <<stale, handed, shown, LockState>> /\ SideTypes'
<1> USE DEF Acc!Go, Acc!At, LockState
<1>0. row \in Acc!Rows /\ pc[p] \in {"consume", "consumereset"}
  BY DEF RowTypes, Acc!ConsumeRecoveryCode
<1>1. SideTypes'
  BY DEF Acc!ConsumeRecoveryCode, SideTypes
<1>2. CASE arg[p] \in row.codes
  <2> DEFINE s == IF pc[p] = "consumereset" THEN "reset"
                  ELSE IF todo[p] = "session" THEN "open" ELSE "reread"
  <2>1. s \in {"reset", "open", "reread"} /\ pc' = [pc EXCEPT ![p] = s]
    BY <1>2 DEF Acc!ConsumeRecoveryCode
  <2> HIDE DEF s
  <2>2. Moves(p, s, todo[p], cp[p], old[p])
    BY <1>2, <2>1 DEF Acc!ConsumeRecoveryCode, Moves, Acc!Steps, Todos, CopyTypes
  <2>3. /\ row' \in Acc!Rows /\ row'.codes = row.codes \ {arg[p]}
        /\ row'.enabled = row.enabled /\ row'.secret = row.secret
    BY <1>0, <1>2 DEF Acc!ConsumeRecoveryCode, Acc!Rows
  <2> QED BY <1>0, <1>1, <1>2, <2>1, <2>2, <2>3 DEF Acc!ConsumeRecoveryCode, Elsewhere
<1>3. CASE arg[p] \notin row.codes
  <2>1. Moves(p, "count2fa", "none", cp[p], old[p])
    BY <1>3 DEF Acc!ConsumeRecoveryCode, Moves, Acc!Steps, Todos, CopyTypes
  <2> QED BY <1>0, <1>1, <1>3, <2>1 DEF Acc!ConsumeRecoveryCode, Elsewhere
<1> QED BY <1>2, <1>3

LEMMA UpdateEffect ==
  ASSUME SideTypes, RowTypes, CopyTypes, NEW p \in Procs, Acc!Update(p)
  PROVE  /\ \E s, t : Moves(p, s, t, cp[p], old[p]) /\ s # "update" /\ Elsewhere(p, s)
         /\ pc[p] = "update" /\ row' = cp[p] /\ stale' = (stale \/ row # old[p])
         /\ UNCHANGED <<spent, handed, shown, LockState>> /\ SideTypes'
<1> USE DEF Acc!Go, Acc!At, LockState
<1> DEFINE s == CASE todo[p] = "revoke" -> "revoke" [] todo[p] = "verify" -> "dropverify"
                  [] todo[p] = "link" -> "uselink" [] OTHER -> "idle"
<1>1. s \in {"revoke", "dropverify", "uselink", "idle"} /\ pc' = [pc EXCEPT ![p] = s]
  BY DEF Acc!Update
<1> HIDE DEF s
<1>2. Moves(p, s, todo[p], cp[p], old[p])
  BY <1>1 DEF Acc!Update, Moves, Acc!Steps, Todos, CopyTypes
<1>3. SideTypes'
  BY DEF Acc!Update, SideTypes
<1> QED BY <1>1, <1>2, <1>3 DEF Acc!Update, Elsewhere

LEMMA OutsideEffect ==
  ASSUME SideTypes, Outside
  PROVE  /\ UNCHANGED <<RowHistory, pc, todo, cp, old, died>> /\ SideTypes'
         /\ fails' = 0 \/ UNCHANGED <<fails, lockSeen>>
<1> USE DEF Acc!hist, Acc!rowVars, RowHistory
<1>1. CASE Acc!LockExpires
  BY <1>1 DEF Acc!LockExpires, SideTypes
<1>2. CASE Acc!UnlockUser
  <2>1. fails' = 0 /\ locked' = FALSE /\ lockSeen' = FALSE
    BY <1>2 DEF Acc!UnlockUser
  <2>2. fails' \in Nat /\ locked' \in BOOLEAN /\ lockSeen' \in BOOLEAN
    BY <2>1
  <2> QED BY <1>2, <2>1, <2>2 DEF Acc!UnlockUser, SideTypes
<1>3. CASE Acc!DeleteUsedLinks
  BY <1>3 DEF Acc!DeleteUsedLinks, SideTypes
<1> QED BY <1>1, <1>2, <1>3 DEF Outside

-----------------------------------------------------------------------------
(* The types are kept. *)

LEMMA AccTypesKept ==
  ASSUME Acc!TypeOK, Acc!Next
  PROVE  Acc!TypeOK'
<1>0. SideTypes /\ RowTypes /\ CopyTypes
  BY AccTypes
<1> USE <1>0
<1> SUFFICES SideTypes' /\ RowTypes' /\ CopyTypes'
  BY AccTypes DEF Acc!TypeOK, SideTypes, RowTypes, CopyTypes, Todos
<1>1. ASSUME NEW p \in Procs, Reads(p) PROVE SideTypes' /\ RowTypes' /\ CopyTypes'
  BY <1>1, ReadsEffect, MovesTyped DEF RowTypes, RowHistory
<1>2. ASSUME NEW p \in Procs, Counts(p) PROVE SideTypes' /\ RowTypes' /\ CopyTypes'
  BY <1>2, CountsEffect, MovesTyped DEF RowTypes, RowHistory
<1>3. ASSUME NEW p \in Procs, Tokens(p) PROVE SideTypes' /\ RowTypes' /\ CopyTypes'
  BY <1>3, TokensEffect, MovesTyped DEF RowTypes, RowHistory
<1>4. ASSUME NEW p \in Procs, Flags(p) PROVE SideTypes' /\ RowTypes' /\ CopyTypes'
  BY <1>4, FlagsEffect, MovesTyped DEF RowTypes
<1>5. ASSUME NEW p \in Procs, Prepares(p) PROVE SideTypes' /\ RowTypes' /\ CopyTypes'
  BY <1>5, PreparesEffect, MovesTyped DEF PreparesGoal, RowTypes, RowHistory
<1>6. ASSUME NEW p \in Procs, Acc!VerifyAndEnable(p) PROVE SideTypes' /\ RowTypes' /\ CopyTypes'
  <2>1. SideTypes' /\ CopyTypes'
    BY <1>6, VerifyEffect, MovesTyped
  <2>2. RowTypes'
    BY <1>6, VerifyEffect DEF RowTypes
  <2> QED BY <2>1, <2>2
<1>7. ASSUME NEW p \in Procs, Acc!ConsumeRecoveryCode(p) PROVE SideTypes' /\ RowTypes' /\ CopyTypes'
  <2>1. SideTypes' /\ CopyTypes'
    BY <1>7, ConsumeEffect, MovesTyped
  <2>2. RowTypes'
    <3>1. CASE UNCHANGED <<row, spent>>
      BY <1>7, <3>1, ConsumeEffect DEF RowTypes
    <3>2. ASSUME NEW c \in row.codes, row' \in Acc!Rows, spent' = [spent EXCEPT ![c] = @ + 1]
          PROVE  RowTypes'
      <4>1. c \in Codes /\ spent' \in [Codes -> Nat]
        BY <3>2, RowColumns DEF RowTypes
      <4> QED BY <1>7, <3>2, <4>1, ConsumeEffect DEF RowTypes
    <3> QED BY <1>7, <3>1, <3>2, ConsumeEffect
  <2> QED BY <2>1, <2>2
<1>8. ASSUME NEW p \in Procs, Acc!Update(p) PROVE SideTypes' /\ RowTypes' /\ CopyTypes'
  <2>1. SideTypes' /\ CopyTypes'
    BY <1>8, UpdateEffect, MovesTyped
  <2>2. row' \in Acc!Rows /\ spent' = spent /\ handed' = handed /\ shown' = shown
    BY <1>8, UpdateEffect DEF CopyTypes
  <2>3. stale' \in BOOLEAN
    BY <1>8, UpdateEffect
  <2> QED BY <2>1, <2>2, <2>3 DEF RowTypes
<1>9. ASSUME Outside PROVE SideTypes' /\ RowTypes' /\ CopyTypes'
  BY <1>9, OutsideEffect DEF RowTypes, CopyTypes, RowHistory
<1> QED BY <1>1, <1>2, <1>3, <1>4, <1>5, <1>6, <1>7, <1>8, <1>9, AccNextGroups

-----------------------------------------------------------------------------
(* The invariant of the account row. *)

\* An active second factor, in the row or in a copy, has a secret the user has proven.
SecretInv == /\ row.enabled => row.secret \in shown
             /\ \A p \in Procs : cp[p].enabled => cp[p].secret \in shown

\* The codes that the copy of p is going to add to the row.
Fresh(p) == IF pc[p] = "update" THEN cp[p].codes \ old[p].codes ELSE {}

\* As long as no write was stale, a code that can still be accepted was never accepted: one in
\* the row, and one that a copy adds, which is in no row and in no other copy.
CodesLive ==
  /\ \A c \in Codes : spent[c] <= 1
  /\ \A c \in row.codes : spent[c] = 0
  /\ \A p \in Procs : \A c \in Fresh(p) : spent[c] = 0 /\ c \notin row.codes
  /\ \A p, q \in Procs : pc[q] = "update" => Fresh(p) \cap old[q].codes = {}
  /\ \A p, q \in Procs : p # q => Fresh(p) \cap Fresh(q) = {}
CodesHanded ==
  /\ \A c \in Codes \ handed : spent[c] = 0
  /\ row.codes \subseteq handed
  /\ \A p \in Procs : cp[p].codes \subseteq handed /\ old[p].codes \subseteq handed
CodesInv == CodesHanded /\ (~stale => CodesLive)

\* Failures that will be counted without a lock, and requests that are about to lock.  Each
\* of the latter, and each one that died there, accounts for one failure too many.
Early == {q \in Procs : pc[q] = "count" /\ todo[q] # "lock"}
Locking == {q \in Procs : pc[q] \in {"lock", "recount"}}
LockInv ==
  ~lockSeen => fails + Cardinality(Early) <= Max - 2 + Cardinality(Procs) + died + Cardinality(Locking)

AccInv == Acc!TypeOK /\ SecretInv /\ CodesInv /\ LockInv

-----------------------------------------------------------------------------
(* SecretInv *)

LEMMA SecretStep ==
  ASSUME CopyTypes, SecretInv, NEW p \in Procs, NEW s, NEW t, NEW r, NEW o, Moves(p, s, t, r, o),
         shown \subseteq shown', r.enabled => r.secret \in shown',
         row'.enabled => row'.secret \in shown'
  PROVE  SecretInv'
<1>1. \A q \in Procs : cp'[q] = IF q = p THEN r ELSE cp[q]
  BY DEF Moves, CopyTypes
<1> QED BY <1>1 DEF SecretInv

LEMMA SecretKept ==
  ASSUME Acc!TypeOK, Acc!Next, SecretInv
  PROVE  SecretInv'
<1>0. SideTypes /\ RowTypes /\ CopyTypes
  BY AccTypes
<1>1. ASSUME NEW p \in Procs, Reads(p) PROVE SecretInv'
  BY <1>0, <1>1, ReadsEffect, SecretStep DEF SecretInv, RowHistory
<1>2. ASSUME NEW p \in Procs, Counts(p) PROVE SecretInv'
  BY <1>0, <1>2, CountsEffect, SecretStep DEF SecretInv, RowHistory
<1>3. ASSUME NEW p \in Procs, Tokens(p) PROVE SecretInv'
  BY <1>0, <1>3, TokensEffect, SecretStep DEF SecretInv, RowHistory
<1>4. ASSUME NEW p \in Procs, Flags(p) PROVE SecretInv'
  BY <1>0, <1>4, FlagsEffect, SecretStep DEF SecretInv, SameFactor
<1>5. ASSUME NEW p \in Procs, Prepares(p) PROVE SecretInv'
  BY <1>0, <1>5, PreparesEffect, SecretStep DEF PreparesGoal, PreparedFrom, SecretInv, RowHistory
<1>6. ASSUME NEW p \in Procs, Acc!VerifyAndEnable(p) PROVE SecretInv'
  BY <1>0, <1>6, VerifyEffect, SecretStep DEF SecretInv
<1>7. ASSUME NEW p \in Procs, Acc!ConsumeRecoveryCode(p) PROVE SecretInv'
  BY <1>0, <1>7, ConsumeEffect, SecretStep DEF SecretInv
<1>8. ASSUME NEW p \in Procs, Acc!Update(p) PROVE SecretInv'
  BY <1>0, <1>8, UpdateEffect, SecretStep DEF SecretInv
<1>9. ASSUME Outside PROVE SecretInv'
  BY <1>0, <1>9, OutsideEffect DEF SecretInv, RowHistory
<1> QED BY <1>1, <1>2, <1>3, <1>4, <1>5, <1>6, <1>7, <1>8, <1>9, AccNextGroups

-----------------------------------------------------------------------------
(* CodesInv *)

\* What a request that moves leaves to the others.
LEMMA MovesOthers ==
  ASSUME CopyTypes, NEW p \in Procs, NEW s, NEW t, NEW r, NEW o, Moves(p, s, t, r, o)
  PROVE  \A q \in Procs : /\ pc'[q] = IF q = p THEN s ELSE pc[q]
                          /\ cp'[q] = IF q = p THEN r ELSE cp[q]
                          /\ old'[q] = IF q = p THEN o ELSE old[q]
BY DEF Moves, CopyTypes

LEMMA FreshOthers ==
  ASSUME CopyTypes, NEW p \in Procs, NEW s, NEW t, NEW r, NEW o, Moves(p, s, t, r, o)
  PROVE  /\ \A q \in Procs \ {p} : Fresh(q)' = Fresh(q)
         /\ Fresh(p)' = IF s = "update" THEN r.codes \ o.codes ELSE {}
<1>1. /\ pc'[p] = s /\ cp'[p] = r /\ old'[p] = o
      /\ \A q \in Procs \ {p} : pc'[q] = pc[q] /\ cp'[q] = cp[q] /\ old'[q] = old[q]
  BY MovesOthers
<1>2. ASSUME NEW q \in Procs \ {p} PROVE Fresh(q)' = Fresh(q)
  BY <1>1 DEF Fresh
<1>3. Fresh(p)' = IF s = "update" THEN r.codes \ o.codes ELSE {}
  BY <1>1 DEF Fresh
<1> QED BY <1>2, <1>3

\* A request that does not come to a write, and leaves the codes of the row alone.
LEMMA CodesMove ==
  ASSUME CopyTypes, CodesInv, NEW p \in Procs, NEW s, NEW t, NEW r, NEW o, Moves(p, s, t, r, o),
         s # "update", r.codes \subseteq handed, o.codes \subseteq handed,
         row'.codes = row.codes, UNCHANGED <<stale, spent, handed>>
  PROVE  CodesInv'
<1>1. CodesHanded'
  BY MovesOthers DEF CodesInv, CodesHanded
<1>2. ASSUME ~stale PROVE CodesLive'
  <2>1. CodesLive
    BY <1>2 DEF CodesInv
  <2>2. Fresh(p)' = {} /\ pc'[p] # "update"
    BY FreshOthers, MovesOthers
  <2>3. \A q \in Procs : Fresh(q)' \subseteq Fresh(q)
    BY <2>2, FreshOthers
  <2>4. \A q \in Procs : pc'[q] = "update" => pc[q] = "update" /\ old'[q] = old[q]
    BY <2>2, MovesOthers
  <2>5. (\A q \in Procs : \A c \in Fresh(q) : spent[c] = 0 /\ c \notin row.codes)'
    BY <2>1, <2>3 DEF CodesLive
  <2>6. (\A q, q2 \in Procs : pc[q2] = "update" => Fresh(q) \cap old[q2].codes = {})'
    BY <2>1, <2>3, <2>4 DEF CodesLive
  <2>7. (\A q, q2 \in Procs : q # q2 => Fresh(q) \cap Fresh(q2) = {})'
    BY <2>1, <2>3 DEF CodesLive
  <2> QED BY <2>1, <2>5, <2>6, <2>7 DEF CodesLive
<1> QED BY <1>1, <1>2 DEF CodesInv

\* A request that comes to a write: the codes its copy adds were given to nobody before.
LEMMA CodesPrepare ==
  ASSUME RowTypes, CopyTypes, CodesInv, NEW p \in Procs, NEW t, NEW r, Moves(p, "update", t, r, row),
         r.codes \subseteq handed', handed \subseteq handed', (r.codes \ row.codes) \cap handed = {},
         UNCHANGED <<row, stale, spent>>
  PROVE  CodesInv'
<1>0. r.codes \subseteq Codes /\ CodesHanded
  BY RowColumns DEF Moves, CodesInv
<1>1. CodesHanded'
  BY <1>0, MovesOthers DEF CodesHanded
<1>2. ASSUME ~stale PROVE CodesLive'
  <2>1. CodesLive
    BY <1>2 DEF CodesInv
  <2>2. Fresh(p)' = r.codes \ row.codes /\ pc'[p] = "update" /\ old'[p] = row
    BY FreshOthers, MovesOthers
  <2>3. \A c \in Fresh(p)' : c \in Codes \ handed
    BY <1>0, <2>2
  <2>4. \A q \in Procs \ {p} : /\ Fresh(q)' = Fresh(q) /\ Fresh(q) \subseteq handed
                              /\ old'[q] = old[q] /\ old[q].codes \subseteq handed /\ pc'[q] = pc[q]
    <3>1. \A q \in Procs : Fresh(q) \subseteq handed
      BY <1>0 DEF CodesHanded, Fresh
    <3>2. \A q \in Procs \ {p} : Fresh(q)' = Fresh(q)
      BY FreshOthers
    <3>3. \A q \in Procs \ {p} : old'[q] = old[q] /\ pc'[q] = pc[q]
      BY MovesOthers
    <3> QED BY <1>0, <3>1, <3>2, <3>3 DEF CodesHanded
  <2>5. ASSUME NEW q \in Procs, NEW c \in Fresh(q)' PROVE spent'[c] = 0 /\ c \notin row'.codes
    <3>1. CASE q = p
      BY <1>0, <2>3, <2>5, <3>1 DEF CodesHanded
    <3>2. CASE q # p
      BY <2>1, <2>4, <2>5, <3>2 DEF CodesLive
    <3> QED BY <3>1, <3>2
  <2>6. ASSUME NEW q \in Procs, NEW q2 \in Procs, pc'[q2] = "update" PROVE Fresh(q)' \cap old'[q2].codes = {}
    <3>1. CASE q = p /\ q2 = p
      BY <2>2, <3>1
    <3>2. CASE q = p /\ q2 # p
      BY <2>3, <2>4, <3>2
    <3>3. CASE q # p /\ q2 = p
      BY <2>1, <2>2, <2>4, <3>3 DEF CodesLive
    <3>4. CASE q # p /\ q2 # p
      BY <2>1, <2>4, <2>6, <3>4 DEF CodesLive
    <3> QED BY <3>1, <3>2, <3>3, <3>4
  <2>7. ASSUME NEW q \in Procs, NEW q2 \in Procs, q # q2 PROVE Fresh(q)' \cap Fresh(q2)' = {}
    <3>1. CASE q = p
      BY <2>3, <2>4, <2>7, <3>1
    <3>2. CASE q2 = p
      BY <2>3, <2>4, <2>7, <3>2
    <3>3. CASE q # p /\ q2 # p
      BY <2>1, <2>4, <2>7, <3>3 DEF CodesLive
    <3> QED BY <3>1, <3>2, <3>3
  <2> QED BY <2>1, <2>5, <2>6, <2>7 DEF CodesLive
<1> QED BY <1>1, <1>2 DEF CodesInv

\* An accepted code leaves the row as it is counted.
LEMMA CodesConsumed ==
  ASSUME RowTypes, CopyTypes, CodesInv, NEW p \in Procs, NEW s, NEW t, Moves(p, s, t, cp[p], old[p]),
         s # "update", NEW c \in row.codes, row'.codes = row.codes \ {c},
         spent' = [spent EXCEPT ![c] = @ + 1], UNCHANGED <<stale, handed>>
  PROVE  CodesInv'
<1>0. c \in Codes /\ CodesHanded /\ spent \in [Codes -> Nat] /\ row.codes \subseteq Codes /\ c \in handed
  BY RowColumns DEF RowTypes, CodesInv, CodesHanded
<1>1. CodesHanded'
  BY <1>0, MovesOthers DEF CodesHanded
<1>2. ASSUME ~stale PROVE CodesLive'
  <2>1. CodesLive
    BY <1>2 DEF CodesInv
  <2>2. Fresh(p)' = {} /\ pc'[p] # "update"
    BY FreshOthers, MovesOthers
  <2>3. \A q \in Procs : Fresh(q)' \subseteq Fresh(q)
    BY <2>2, FreshOthers
  <2>4. \A q \in Procs : pc'[q] = "update" => pc[q] = "update" /\ old'[q] = old[q]
    BY <2>2, MovesOthers
  <2>5. \A d \in Codes : spent'[d] = IF d = c THEN 1 ELSE spent[d]
    BY <1>0, <2>1 DEF CodesLive
  <2>6. (\A d \in Codes : spent[d] <= 1)' /\ (\A d \in row.codes : spent[d] = 0)'
    BY <1>0, <2>1, <2>5 DEF CodesLive
  <2>7. (\A q \in Procs : \A d \in Fresh(q) : spent[d] = 0 /\ d \notin row.codes)'
    <3>1. ASSUME NEW q \in Procs, NEW d \in Fresh(q)' PROVE spent'[d] = 0 /\ d \notin row'.codes
      <4>1. d \in Fresh(q) /\ d \notin row.codes /\ spent[d] = 0
        BY <2>1, <2>3, <3>1 DEF CodesLive
      <4>2. d \in Codes /\ d # c
        BY <1>0, <4>1, RowColumns DEF Fresh, CopyTypes
      <4> QED BY <2>5, <4>1, <4>2
    <3> QED BY <3>1
  <2>8. (\A q, q2 \in Procs : pc[q2] = "update" => Fresh(q) \cap old[q2].codes = {})'
    BY <2>1, <2>3, <2>4 DEF CodesLive
  <2>9. (\A q, q2 \in Procs : q # q2 => Fresh(q) \cap Fresh(q2) = {})'
    BY <2>1, <2>3 DEF CodesLive
  <2> QED BY <2>6, <2>7, <2>8, <2>9 DEF CodesLive
<1> QED BY <1>1, <1>2 DEF CodesInv

\* A write that is not stale adds the codes of its copy to those of the row it read.
LEMMA CodesWritten ==
  ASSUME RowTypes, CopyTypes, CodesInv, NEW p \in Procs, NEW s, NEW t, Moves(p, s, t, cp[p], old[p]),
         s # "update", pc[p] = "update", row' = cp[p], stale' = (stale \/ row # old[p]),
         UNCHANGED <<spent, handed>>
  PROVE  CodesInv'
<1>0. CodesHanded
  BY DEF CodesInv
<1>1. CodesHanded'
  BY <1>0, MovesOthers DEF CodesHanded
<1>2. ASSUME ~stale' PROVE CodesLive'
  <2>1. CodesLive /\ row = old[p]
    BY <1>2 DEF CodesInv
  <2>2. Fresh(p)' = {} /\ pc'[p] # "update" /\ Fresh(p) = cp[p].codes \ row.codes
    BY <2>1, FreshOthers, MovesOthers DEF Fresh
  <2>3. \A q \in Procs : Fresh(q)' \subseteq Fresh(q)
    BY <2>2, FreshOthers
  <2>4. \A q \in Procs : pc'[q] = "update" => pc[q] = "update" /\ old'[q] = old[q]
    BY <2>2, MovesOthers
  <2>5. (\A d \in row.codes : spent[d] = 0)'
    BY <2>1, <2>2 DEF CodesLive
  <2>6. (\A q \in Procs : \A d \in Fresh(q) : spent[d] = 0 /\ d \notin row.codes)'
    <3>1. ASSUME NEW q \in Procs, NEW d \in Fresh(q)' PROVE spent[d] = 0 /\ d \notin cp[p].codes
      <4>1. q # p /\ d \in Fresh(q) /\ d \notin row.codes /\ spent[d] = 0
        BY <2>1, <2>2, <2>3, <3>1 DEF CodesLive
      <4>2. d \notin Fresh(p)
        BY <2>1, <4>1 DEF CodesLive
      <4> QED BY <2>2, <4>1, <4>2
    <3> QED BY <3>1
  <2>7. (\A q, q2 \in Procs : pc[q2] = "update" => Fresh(q) \cap old[q2].codes = {})'
    BY <2>1, <2>3, <2>4 DEF CodesLive
  <2>8. (\A q, q2 \in Procs : q # q2 => Fresh(q) \cap Fresh(q2) = {})'
    BY <2>1, <2>3 DEF CodesLive
  <2> QED BY <2>1, <2>5, <2>6, <2>7, <2>8 DEF CodesLive
<1> QED BY <1>1, <1>2 DEF CodesInv

LEMMA CodesKept ==
  ASSUME Acc!TypeOK, Acc!Next, CodesInv
  PROVE  CodesInv'
<1>0. SideTypes /\ RowTypes /\ CopyTypes
  BY AccTypes
<1>h. row.codes \subseteq handed /\ \A p \in Procs : cp[p].codes \subseteq handed /\ old[p].codes \subseteq handed
  BY DEF CodesInv, CodesHanded
<1>1. ASSUME NEW p \in Procs, Reads(p) PROVE CodesInv'
  BY <1>0, <1>h, <1>1, ReadsEffect, CodesMove DEF RowHistory
<1>2. ASSUME NEW p \in Procs, Counts(p) PROVE CodesInv'
  BY <1>0, <1>h, <1>2, CountsEffect, CodesMove DEF RowHistory
<1>3. ASSUME NEW p \in Procs, Tokens(p) PROVE CodesInv'
  BY <1>0, <1>h, <1>3, TokensEffect, CodesMove DEF RowHistory
<1>4. ASSUME NEW p \in Procs, Flags(p) PROVE CodesInv'
  BY <1>0, <1>h, <1>4, FlagsEffect, CodesMove DEF SameFactor
<1>5. ASSUME NEW p \in Procs, Prepares(p) PROVE CodesInv'
  <2>1. PICK t, r : Moves(p, "update", t, r, row) /\ PreparedFrom(r)
    BY <1>0, <1>5, PreparesEffect DEF PreparesGoal
  <2>2. UNCHANGED <<row, stale, spent, handed>>
    BY <1>0, <1>5, PreparesEffect DEF PreparesGoal, RowHistory
  <2> QED BY <1>0, <1>h, <2>1, <2>2, CodesPrepare DEF PreparedFrom
<1>6. ASSUME NEW p \in Procs, Acc!VerifyAndEnable(p) PROVE CodesInv'
  <2>1. PICK r : /\ Moves(p, "update", "none", r, row) /\ r.codes \in SUBSET (Codes \ handed)
                 /\ handed' = handed \cup r.codes
    BY <1>0, <1>6, VerifyEffect
  <2>2. UNCHANGED <<row, stale, spent>>
    BY <1>0, <1>6, VerifyEffect
  <2> QED BY <1>0, <2>1, <2>2, CodesPrepare
<1>7. ASSUME NEW p \in Procs, Acc!ConsumeRecoveryCode(p) PROVE CodesInv'
  <2>1. PICK s, t : Moves(p, s, t, cp[p], old[p]) /\ s # "update"
    BY <1>0, <1>7, ConsumeEffect
  <2>2. CASE UNCHANGED <<row, spent>>
    BY <1>0, <1>h, <1>7, <2>1, <2>2, ConsumeEffect, CodesMove
  <2>3. ASSUME NEW c \in row.codes, row'.codes = row.codes \ {c}, spent' = [spent EXCEPT ![c] = @ + 1]
        PROVE  CodesInv'
    BY <1>0, <1>7, <2>1, <2>3, ConsumeEffect, CodesConsumed
  <2> QED BY <1>0, <1>7, <2>2, <2>3, ConsumeEffect
<1>8. ASSUME NEW p \in Procs, Acc!Update(p) PROVE CodesInv'
  BY <1>0, <1>8, UpdateEffect, CodesWritten
<1>9. ASSUME Outside PROVE CodesInv'
  BY <1>0, <1>9, OutsideEffect DEF CodesInv, CodesLive, CodesHanded, Fresh, RowHistory
<1> QED BY <1>1, <1>2, <1>3, <1>4, <1>5, <1>6, <1>7, <1>8, <1>9, AccNextGroups

-----------------------------------------------------------------------------
(* LockInv *)

\* The sizes of the two sets, and how a request that moves changes them.
LEMMA LockSizes ==
  /\ Cardinality(Early) \in Nat /\ Cardinality(Locking) \in Nat /\ Cardinality(Procs) \in Nat
  /\ Cardinality(Early) <= Cardinality(Procs)
  /\ \A p \in Procs \ Early : Cardinality(Early) + 1 <= Cardinality(Procs)
<1>1. /\ IsFiniteSet(Procs) /\ Early \subseteq Procs /\ Locking \subseteq Procs
  BY ProcsAssumption DEF Early, Locking
<1>2. IsFiniteSet(Early) /\ IsFiniteSet(Locking)
  BY <1>1, FS_Subset
<1>3. Cardinality(Early) \in Nat /\ Cardinality(Locking) \in Nat /\ Cardinality(Procs) \in Nat
  BY <1>1, <1>2, FS_CardinalityType
<1>4. Cardinality(Early) <= Cardinality(Procs)
  BY <1>1, FS_Subset
<1>5. ASSUME NEW p \in Procs \ Early PROVE Cardinality(Early) + 1 <= Cardinality(Procs)
  <2>1. Cardinality(Early \cup {p}) = Cardinality(Early) + 1
    BY <1>2, <1>5, FS_AddElement
  <2>2. Cardinality(Early \cup {p}) <= Cardinality(Procs)
    BY <1>1, FS_Subset
  <2> QED BY <2>1, <2>2
<1> QED BY <1>3, <1>4, <1>5

LEMMA LockSets ==
  ASSUME CopyTypes, NEW p \in Procs, NEW s, NEW t, NEW r, NEW o, Moves(p, s, t, r, o)
  PROVE  /\ Early' = IF s = "count" /\ t # "lock" THEN Early \cup {p} ELSE Early \ {p}
         /\ Locking' = IF s \in {"lock", "recount"} THEN Locking \cup {p} ELSE Locking \ {p}
BY DEF Early, Locking, Moves, CopyTypes

LEMMA LockSizesStep ==
  ASSUME CopyTypes, NEW p \in Procs, NEW s, NEW t, NEW r, NEW o, Moves(p, s, t, r, o)
  PROVE  /\ Cardinality(Early') = IF s = "count" /\ t # "lock"
                                  THEN Cardinality(Early) + (IF p \in Early THEN 0 ELSE 1)
                                  ELSE Cardinality(Early) - (IF p \in Early THEN 1 ELSE 0)
         /\ Cardinality(Locking') = IF s \in {"lock", "recount"}
                                    THEN Cardinality(Locking) + (IF p \in Locking THEN 0 ELSE 1)
                                    ELSE Cardinality(Locking) - (IF p \in Locking THEN 1 ELSE 0)
         /\ Cardinality(Early') <= Cardinality(Procs) /\ Cardinality(Early') \in Nat
         /\ Cardinality(Locking') \in Nat
<1>1. IsFiniteSet(Early) /\ IsFiniteSet(Locking)
  BY ProcsAssumption, FS_Subset DEF Early, Locking
<1>2. \A S : IsFiniteSet(S) => /\ Cardinality(S \cup {p}) = Cardinality(S) + (IF p \in S THEN 0 ELSE 1)
                               /\ Cardinality(S \ {p}) = Cardinality(S) - (IF p \in S THEN 1 ELSE 0)
  BY FS_AddElement, FS_RemoveElement, FS_CardinalityType
<1>3. /\ IsFiniteSet(Early') /\ IsFiniteSet(Locking') /\ Early' \subseteq Procs
  BY ProcsAssumption, FS_Subset DEF Early, Locking
<1>4. Cardinality(Early') <= Cardinality(Procs) /\ Cardinality(Early') \in Nat /\ Cardinality(Locking') \in Nat
  BY <1>3, ProcsAssumption, FS_Subset, FS_CardinalityType
<1> QED BY <1>1, <1>2, <1>4, LockSets

\* A request that moves without a statement on the counter or the lock.
LEMMA LockMove ==
  ASSUME SideTypes, CopyTypes, LockInv, NEW p \in Procs, NEW s, NEW t, NEW r, NEW o,
         Moves(p, s, t, r, o), pc[p] \notin {"count", "lock", "recount"}, s \notin {"lock", "recount"},
         s = "count" /\ t # "lock" => fails + 1 < Max, UNCHANGED LockState
  PROVE  LockInv'
<1>1. p \notin Early /\ p \notin Locking
  BY DEF Early, Locking
<1> QED BY <1>1, LockSizes, LockSizesStep, MaxAssumption DEF LockInv, LockState, SideTypes

LEMMA LockKept ==
  ASSUME Acc!TypeOK, Acc!Next, LockInv
  PROVE  LockInv'
<1>0. SideTypes /\ RowTypes /\ CopyTypes
  BY AccTypes
<1>n. /\ fails \in Nat /\ died \in Nat /\ Max \in Nat /\ Max >= 2 /\ Cardinality(Early) \in Nat
      /\ Cardinality(Locking) \in Nat /\ Cardinality(Procs) \in Nat
  BY <1>0, LockSizes, MaxAssumption DEF SideTypes
<1>1. ASSUME NEW p \in Procs, Reads(p) PROVE LockInv'
  BY <1>0, <1>1, ReadsEffect, LockMove
<1>2. ASSUME NEW p \in Procs, Counts(p) PROVE LockInv'
  <2>1. PICK s, t : Moves(p, s, t, cp[p], old[p]) /\ CountStep(p, s)
    BY <1>0, <1>2, CountsEffect
  <2> DEFINE e == Cardinality(Early)  e2 == Cardinality(Early')
             k == Cardinality(Locking)  k2 == Cardinality(Locking')
             n == Cardinality(Procs)
  <2>2. /\ e2 = IF s = "count" /\ t # "lock" THEN e + (IF p \in Early THEN 0 ELSE 1)
                                             ELSE e - (IF p \in Early THEN 1 ELSE 0)
        /\ k2 = IF s \in {"lock", "recount"} THEN k + (IF p \in Locking THEN 0 ELSE 1)
                                             ELSE k - (IF p \in Locking THEN 1 ELSE 0)
        /\ e2 <= n /\ e2 \in Nat /\ k2 \in Nat
    BY <1>0, <2>1, LockSizesStep
  <2>3. p \in Early <=> pc[p] = "count" /\ todo[p] # "lock"
    BY DEF Early
  <2>4. p \in Locking <=> pc[p] \in {"lock", "recount"}
    BY DEF Locking
  <2>5. e \in Nat /\ k \in Nat /\ n \in Nat /\ (p \notin Early => e + 1 <= n)
    BY LockSizes
  <2>i. ~lockSeen => fails + e <= Max - 2 + n + died + k
    BY DEF LockInv
  <2> HIDE DEF e, e2, k, k2, n
  <2> SUFFICES ASSUME ~lockSeen' PROVE fails' + e2 <= Max - 2 + n + died' + k2
    BY DEF LockInv, e2, k2, n
  <2>6. CASE /\ pc[p] = "count" /\ s = (IF todo[p] = "lock" THEN "lock" ELSE "idle")
             /\ fails' \in {fails, fails + 1} /\ UNCHANGED <<lockSeen, died>>
    BY <1>n, <2>2, <2>3, <2>4, <2>5, <2>6, <2>i
  <2>7. CASE /\ pc[p] = "count2fa" /\ s = "recount" /\ fails' \in {fails, fails + 1}
             /\ UNCHANGED <<lockSeen, died>>
    <3>1. e2 = e /\ k2 = k + 1
      BY <2>2, <2>3, <2>4, <2>5, <2>7
    <3>2. fails' = fails \/ fails' = fails + 1
      BY <2>7
    <3>3. died' = died /\ fails + e <= Max - 2 + n + died + k
      BY <2>7, <2>i
    <3>4. CASE fails' = fails
      BY <1>n, <2>5, <3>1, <3>3, <3>4
    <3>5. CASE fails' = fails + 1
      BY <1>n, <2>5, <3>1, <3>3, <3>5
    <3> QED BY <3>2, <3>4, <3>5
  <2>8. CASE pc[p] = "recount" /\ s = (IF fails >= Max THEN "lock" ELSE "idle") /\ UNCHANGED LockState
    BY <1>n, <2>2, <2>3, <2>4, <2>5, <2>8, <2>i DEF LockState
  <2>9. CASE /\ pc[p] = "reset" /\ s \notin {"count", "lock", "recount"} /\ UNCHANGED died
             /\ (fails' = 0 \/ UNCHANGED <<fails, lockSeen>>)
    BY <1>n, <2>2, <2>3, <2>4, <2>5, <2>9, <2>i
  <2>10. CASE /\ s = "idle" /\ UNCHANGED <<fails, lockSeen>>
              /\ died' = IF pc[p] \in {"lock", "recount"} THEN died + 1 ELSE died
    BY <1>n, <2>2, <2>3, <2>4, <2>5, <2>10, <2>i
  <2> QED BY <2>1, <2>6, <2>7, <2>8, <2>9, <2>10 DEF CountStep
<1>3. ASSUME NEW p \in Procs, Tokens(p) PROVE LockInv'
  BY <1>0, <1>3, TokensEffect, LockMove DEF Elsewhere
<1>4. ASSUME NEW p \in Procs, Flags(p) PROVE LockInv'
  BY <1>0, <1>4, FlagsEffect, LockMove DEF Elsewhere
<1>5. ASSUME NEW p \in Procs, Prepares(p) PROVE LockInv'
  BY <1>0, <1>5, PreparesEffect, LockMove DEF PreparesGoal
<1>6. ASSUME NEW p \in Procs, Acc!VerifyAndEnable(p) PROVE LockInv'
  BY <1>0, <1>6, VerifyEffect, LockMove
<1>7. ASSUME NEW p \in Procs, Acc!ConsumeRecoveryCode(p) PROVE LockInv'
  BY <1>0, <1>7, ConsumeEffect, LockMove DEF Elsewhere
<1>8. ASSUME NEW p \in Procs, Acc!Update(p) PROVE LockInv'
  BY <1>0, <1>8, UpdateEffect, LockMove DEF Elsewhere
<1>9. ASSUME Outside PROVE LockInv'
  <2>1. Early' = Early /\ Locking' = Locking /\ died' = died /\ (fails' = 0 \/ UNCHANGED <<fails, lockSeen>>)
    BY <1>0, <1>9, OutsideEffect DEF Early, Locking
  <2> QED BY <1>n, <2>1, LockSizes DEF LockInv
<1> QED BY <1>1, <1>2, <1>3, <1>4, <1>5, <1>6, <1>7, <1>8, <1>9, AccNextGroups

-----------------------------------------------------------------------------
(* Together. *)

LEMMA AccInit == Acc!Init => AccInv
<1> SUFFICES ASSUME Acc!Init PROVE AccInv
  OBVIOUS
<1>0. /\ Acc!FreshRow \in Acc!Rows /\ Acc!FreshRow.codes = {} /\ ~Acc!FreshRow.enabled
      /\ Acc!FreshRow.secret = NoSecret
  BY AccountAssumption DEF Acc!FreshRow, Acc!Rows
<1>1. /\ row \in Acc!Rows /\ vtoks \subseteq Mails /\ proven \subseteq Mails /\ shown \subseteq Secrets
      /\ row.enabled => row.secret \in shown
  <2>1. CASE row = Acc!FreshRow /\ vtoks = {Acc!FreshRow.email} /\ proven = {} /\ shown = {}
    BY <1>0, <2>1, RowColumns
  <2>2. ASSUME NEW s \in Secrets, NEW new \in SUBSET Codes,
               row = [Acc!FreshRow EXCEPT !.verified = TRUE],
               vtoks = {}, proven = {row.email}, shown = {row.secret} \ {NoSecret}
        PROVE  /\ row \in Acc!Rows /\ vtoks \subseteq Mails /\ proven \subseteq Mails /\ shown \subseteq Secrets
               /\ row.enabled => row.secret \in shown
    <3>1. row \in Acc!Rows /\ ~row.enabled
      BY <1>0, <2>2 DEF Acc!Rows
    <3> QED BY <2>2, <3>1, RowColumns
  <2>3. ASSUME NEW s \in Secrets, NEW new \in SUBSET Codes,
               row = [Acc!FreshRow EXCEPT !.verified = TRUE, !.enabled = TRUE, !.secret = s, !.codes = new],
               vtoks = {}, proven = {row.email}, shown = {row.secret} \ {NoSecret}
        PROVE  /\ row \in Acc!Rows /\ vtoks \subseteq Mails /\ proven \subseteq Mails /\ shown \subseteq Secrets
               /\ row.enabled => row.secret \in shown
    <3>1. row \in Acc!Rows /\ row.secret = s /\ s # NoSecret
      BY <1>0, <2>3, AccountAssumption DEF Acc!Rows
    <3>2. row.email \in Mails
      BY <3>1, RowColumns
    <3> QED BY <2>3, <3>1, <3>2
  <2> QED BY <2>1, <2>2, <2>3 DEF Acc!Init
<1>2. row.codes \subseteq Codes /\ row.pwd \in Pwds /\ row.enabled \in BOOLEAN
  BY <1>1, RowColumns
<1>3. /\ fails = 0 /\ locked = FALSE /\ sess = {} /\ ops = 0 /\ stale = FALSE /\ lockSeen = FALSE /\ died = 0
      /\ challenge = row.enabled /\ handed = row.codes /\ spent = [c \in Codes |-> 0]
      /\ pc = [p \in Procs |-> "idle"] /\ cp = [p \in Procs |-> row] /\ old = [p \in Procs |-> row]
      /\ todo = [p \in Procs |-> "none"] /\ arg = [p \in Procs |-> row.pwd]
      /\ rtok = [l \in Links |-> "absent"] /\ link = [p \in Procs |-> CHOOSE l \in Links : TRUE]
  BY DEF Acc!Init
<1>4. link \in [Procs -> Links] /\ arg \in [Procs -> Pwds \cup Codes \cup Mails]
  BY <1>2, <1>3, AccountAssumption
<1>5. pc \in [Procs -> Acc!Steps] /\ cp \in [Procs -> Acc!Rows] /\ old \in [Procs -> Acc!Rows] /\ todo \in [Procs -> Todos]
  BY <1>1, <1>3 DEF Acc!Steps, Todos
<1>6. Acc!TypeOK
  BY <1>1, <1>2, <1>3, <1>4, <1>5 DEF Acc!TypeOK, Todos
<1>7. SecretInv
  BY <1>1, <1>3 DEF SecretInv
<1>8. CodesInv
  BY <1>2, <1>3 DEF CodesInv, CodesLive, CodesHanded, Fresh
<1>9. LockInv
  <2>1. Early = {} /\ Locking = {}
    BY <1>3 DEF Early, Locking
  <2>2. Cardinality(Early) = 0 /\ Cardinality(Locking) = 0
    BY <2>1, FS_EmptySet
  <2> QED BY <1>3, <2>2, LockSizes, MaxAssumption DEF LockInv
<1> QED BY <1>6, <1>7, <1>8, <1>9 DEF AccInv

LEMMA AccNext == AccInv /\ Acc!Next => AccInv'
BY AccTypesKept, SecretKept, CodesKept, LockKept DEF AccInv

\* The instance brings its own name of Cardinality along.
LEMMA AccCardinality == \A S : Acc!Cardinality(S) = Cardinality(S)
BY Zenon DEF Acc!Cardinality, Cardinality

LEMMA AccSafe == AccInv => /\ Acc!TypeOK /\ Acc!LockComesInTime
                           /\ Acc!CodesOnceUnlessStale /\ Acc!SecretIsProven
<1> SUFFICES ASSUME AccInv PROVE Acc!LockComesInTime /\ Acc!CodesOnceUnlessStale /\ Acc!SecretIsProven
  BY DEF AccInv
<1>1. Acc!LockComesInTime
  <2> SUFFICES ASSUME ~lockSeen, \A p \in Procs : pc[p] \notin {"lock", "recount"}
               PROVE  fails <= Max + Cardinality(Procs) - 2 + died
    BY AccCardinality DEF Acc!LockComesInTime
  <2>1. Locking = {}
    BY DEF Locking
  <2>2. Cardinality(Locking) = 0 /\ fails \in Nat /\ died \in Nat
    BY <2>1, FS_EmptySet DEF AccInv, Acc!TypeOK
  <2> QED BY <2>2, LockSizes, MaxAssumption DEF AccInv, LockInv
<1>2. Acc!CodesOnceUnlessStale
  BY DEF AccInv, CodesInv, CodesLive, Acc!CodesOnceUnlessStale
<1>3. Acc!SecretIsProven
  BY DEF AccInv, SecretInv, Acc!SecretIsProven
<1> QED BY <1>1, <1>2, <1>3

-----------------------------------------------------------------------------
(* The administrators. *)

\* The inductive invariant: with well-formed rows and copies it is enough that every
\* single write keeps an admin or is noted.
RolesInv == TypeOK /\ LastAdminKept

-----------------------------------------------------------------------------
(* The statements. *)

\* SetAdmin leaves rows well formed and every active admin active.
LEMMA SetAdminKeeps ==
  ASSUME user \in [Users -> Row], NEW u, SetAdmin(u)
  PROVE  /\ user' \in [Users -> Row]
         /\ SomeAdmin(user) => SomeAdmin(user')
<1>1. CASE UNCHANGED user
  BY <1>1 DEF SomeAdmin
<1>2. CASE user[u].verified /\ ~user[u].disabled /\ user' = [user EXCEPT ![u].flag = TRUE]
  <2>1. user' \in [Users -> Row]
    BY <1>2 DEF Row
  <2>2. \A v \in Users : Active(user[v]) => Active(user'[v])
    BY <1>2 DEF Row, Active
  <2> QED BY <2>1, <2>2 DEF SomeAdmin
<1> QED BY <1>1, <1>2 DEF SetAdmin

\* guardedWrite: when its write takes place, another admin stays or the target was none.
LEMMA GuardedWriteKeeps ==
  ASSUME user \in [Users -> Row], NEW u \in Users, NEW r \in Row, NEW b \in BOOLEAN,
         GuardedWrite(u, r, b)
  PROVE  /\ user' \in [Users -> Row]
         /\ SomeAdmin(user) => SomeAdmin(user')
<1>1. CASE UNCHANGED user
  BY <1>1 DEF SomeAdmin
<1>2. CASE ~Refused(u, b) /\ user' = [user EXCEPT ![u] = r]
  <2>1. user' \in [Users -> Row]
    BY <1>2
  <2>2. ASSUME SomeAdmin(user) PROVE \E v \in Users \ {u} : Active(user[v])
    BY <1>2, <2>2 DEF Refused, SomeAdmin
  <2>3. \A v \in Users \ {u} : user'[v] = user[v]
    BY <1>2
  <2> QED BY <2>1, <2>2, <2>3 DEF SomeAdmin
<1> QED BY <1>1, <1>2 DEF GuardedWrite

\* What is written down of a write: the history variables only become true, and a write
\* that keeps the admins, or is noted as unguarded, keeps the invariant.
LEMMA NoteKeeps ==
  ASSUME NEW g \in BOOLEAN, RolesInv, Note(g), g => (SomeAdmin(user) => SomeAdmin(user')),
         user' \in [Users -> Row]
  PROVE  had' \in BOOLEAN /\ unguarded' \in BOOLEAN /\ LastAdminKept'
<1>1. had' \in BOOLEAN /\ unguarded' \in BOOLEAN
  BY DEF Note, RolesInv, TypeOK, SomeAdmin
<1>2. ASSUME had', ~unguarded' PROVE SomeAdmin(user')
  <2>1. CASE SomeAdmin(user)
    BY <1>2, <2>1 DEF Note, SomeAdmin, RolesInv, TypeOK
  <2>2. CASE ~SomeAdmin(user)
    BY <1>2, <2>2 DEF Note, RolesInv, TypeOK, LastAdminKept
  <2> QED BY <2>1, <2>2
<1> QED BY <1>1, <1>2 DEF LastAdminKept

\* The end of a request leaves its variables well typed.
LEMMA ForgetTyped ==
  ASSUME TypeOK, NEW q \in Requests, Forget(q)
  PROVE  /\ copy' \in [Requests -> Row]
         /\ caller' \in [Requests -> Users] /\ target' \in [Requests -> Users]
<1>1. Nobody \in Users
  BY UsersAssumption DEF Nobody
<1>2. Gone \in Row
  BY DEF Gone, Row
<1> QED BY <1>1, <1>2 DEF Forget, TypeOK

\* A request moves on to another step.
LEMMA StepTyped ==
  ASSUME TypeOK, NEW q \in Requests, NEW from, NEW to \in Kinds, Step(q, from, to)
  PROVE  rstep' \in [Requests -> Kinds]
BY DEF Step, TypeOK

-----------------------------------------------------------------------------
(* The invariant. *)

LEMMA RolesInit == ASSUME Init PROVE RolesInv
<1>1. Nobody \in Users /\ Gone \in Row
  BY UsersAssumption DEF Nobody, Gone, Row
<1>2. user \in [Users -> Row]
  <2>1. {[r EXCEPT !.exists = TRUE] : r \in Row} \subseteq Row
    BY DEF Row
  <2> QED BY <2>1 DEF Init
<1>3. TypeOK
  BY <1>1, <1>2 DEF Init, TypeOK, SomeAdmin, Kinds
<1> QED BY <1>3 DEF RolesInv, LastAdminKept, Init

LEMMA RolesNext == ASSUME RolesInv, [Next]_vars PROVE RolesInv'
<1> USE DEF RolesInv
<1>t. TypeOK
  OBVIOUS
<1>n. Nobody \in Users /\ Gone \in Row
  BY UsersAssumption DEF Nobody, Gone, Row
<1>k. Ops \subseteq Kinds /\ {"idle", "write", "email", "persist"} \subseteq Kinds
  BY DEF Ops, Kinds
<1>1. ASSUME NEW q \in Requests, RequireAdmin(q) PROVE RolesInv'
  <2>1. PICK a \in Users, u \in Users, op \in Ops :
          /\ Active(user[a]) /\ user[u].exists
          /\ op \in {"disable", "delete"} => u # a
          /\ caller' = [caller EXCEPT ![q] = IF user[a].flag THEN Nobody ELSE a]
          /\ target' = [target EXCEPT ![q] = u]
          /\ copy' = [copy EXCEPT ![q] = IF op = "enable" THEN user[u] ELSE Gone]
          /\ rstep' = [rstep EXCEPT ![q] = IF user[a].flag THEN op ELSE "persist"]
    BY <1>1, Zenon DEF RequireAdmin
  <2>2. UNCHANGED <<user, had, unguarded>>
    BY <1>1 DEF RequireAdmin
  <2>3. TypeOK'
    BY <1>t, <1>n, <1>k, <2>1, <2>2 DEF TypeOK
  <2> QED BY <2>2, <2>3 DEF LastAdminKept, SomeAdmin
<1>2. ASSUME NEW q \in Requests, PersistBootstrap(q) PROVE RolesInv'
  <2>1. PICK op \in Ops : Step(q, "persist", op)
    BY <1>2 DEF PersistBootstrap
  <2>2. rstep' \in [Requests -> Kinds]
    BY <1>t, <1>k, <2>1, StepTyped
  <2>3. /\ user' \in [Users -> Row]
        /\ SomeAdmin(user) => SomeAdmin(user')
    BY <1>2, <1>t, SetAdminKeeps DEF PersistBootstrap, TypeOK
  <2>4. had' \in BOOLEAN /\ unguarded' \in BOOLEAN /\ LastAdminKept'
    BY <1>2, <2>3, NoteKeeps DEF PersistBootstrap
  <2>5. /\ copy' \in [Requests -> Row] /\ caller' \in [Requests -> Users]
        /\ target' \in [Requests -> Users]
    BY <1>2, <1>t, <1>n DEF PersistBootstrap, TypeOK
  <2> QED BY <2>2, <2>3, <2>4, <2>5 DEF TypeOK
<1>3. ASSUME NEW q \in Requests, NEW step, Ends(q, step), Note(TRUE), user' \in [Users -> Row],
             SomeAdmin(user) => SomeAdmin(user')
      PROVE  RolesInv'
  <2>1. rstep' \in [Requests -> Kinds]
    BY <1>3, <1>t, <1>k, StepTyped DEF Ends
  <2>2. had' \in BOOLEAN /\ unguarded' \in BOOLEAN /\ LastAdminKept'
    BY <1>3, NoteKeeps
  <2> QED BY <1>3, <1>t, <2>1, <2>2, ForgetTyped DEF Ends, TypeOK
<1>4. ASSUME NEW q \in Requests, GrantUserAdmin(q) PROVE RolesInv'
  <2>1. /\ user' \in [Users -> Row]
        /\ SomeAdmin(user) => SomeAdmin(user')
    BY <1>4, <1>t, SetAdminKeeps DEF GrantUserAdmin, TypeOK
  <2> QED BY <1>4, <2>1, <1>3 DEF GrantUserAdmin
<1>5. ASSUME NEW q \in Requests, RevokeUserAdmin(q) \/ DisableUser(q) \/ DeleteUser(q) PROVE RolesInv'
  <2>1. target[q] \in Users /\ user[target[q]] \in Row
    BY <1>t DEF TypeOK
  <2>2. PICK r \in Row : GuardedWrite(target[q], r, TRUE)
    <3>1. /\ [user[target[q]] EXCEPT !.flag = FALSE] \in Row
          /\ [user[target[q]] EXCEPT !.disabled = TRUE, !.flag = FALSE] \in Row
      BY <2>1 DEF Row
    <3> QED BY <1>5, <1>n, <3>1 DEF RevokeUserAdmin, DisableUser, DeleteUser, RevokeAdmin, DisableRow, DeleteRow
  <2>3. /\ user' \in [Users -> Row]
        /\ SomeAdmin(user) => SomeAdmin(user')
    BY <1>t, <2>1, <2>2, GuardedWriteKeeps DEF TypeOK
  <2> QED BY <1>5, <2>3, <1>3 DEF RevokeUserAdmin, DisableUser, DeleteUser
<1>6. ASSUME NEW q \in Requests, EnableUser(q) PROVE RolesInv'
  <2>1. rstep' \in [Requests -> Kinds]
    BY <1>6, <1>t, <1>k, StepTyped DEF EnableUser
  <2>2. copy' \in [Requests -> Row]
    BY <1>6, <1>t, ZenonT(60) DEF EnableUser, TypeOK, Row
  <2> QED BY <1>6, <1>t, <2>1, <2>2 DEF EnableUser, TypeOK, LastAdminKept, SomeAdmin
<1>7. ASSUME NEW q \in Requests, UpdateCurrentUser(q) PROVE RolesInv'
  <2>1. PICK u \in Users, r \in Row :
          /\ \E to \in {"write", "email"} : rstep' = [rstep EXCEPT ![q] = to]
          /\ target' = [target EXCEPT ![q] = u] /\ copy' = [copy EXCEPT ![q] = r]
    BY <1>7 DEF UpdateCurrentUser
  <2>2. UNCHANGED <<user, caller, had, unguarded>>
    BY <1>7 DEF UpdateCurrentUser
  <2>3. TypeOK'
    BY <1>t, <1>k, <2>1, <2>2 DEF TypeOK
  <2> QED BY <2>2, <2>3 DEF LastAdminKept, SomeAdmin
<1>8. ASSUME NEW q \in Requests, ChangeOwnEmail(q) PROVE RolesInv'
  <2>1. target[q] \in Users /\ user[target[q]] \in Row /\ copy[q].boot \in BOOLEAN
    BY <1>t DEF TypeOK, Row
  <2>2. /\ user' \in [Users -> Row]
        /\ SomeAdmin(user) => SomeAdmin(user')
    <3>1. [user[target[q]] EXCEPT !.boot = copy[q].boot, !.verified = FALSE] \in Row
      BY <2>1 DEF Row
    <3> QED BY <1>8, <1>t, <2>1, <3>1, GuardedWriteKeeps DEF ChangeOwnEmail, ChangeEmailRow, TypeOK
  <2>3. CASE Ends(q, "email")
    BY <1>8, <2>2, <2>3, <1>3 DEF ChangeOwnEmail
  <2>4. CASE Step(q, "email", "write") /\ UNCHANGED <<caller, target, copy>>
    <3>1. rstep' \in [Requests -> Kinds]
      BY <1>t, <1>k, <2>4, StepTyped
    <3>2. had' \in BOOLEAN /\ unguarded' \in BOOLEAN /\ LastAdminKept'
      BY <1>8, <2>2, NoteKeeps DEF ChangeOwnEmail
    <3> QED BY <1>t, <2>2, <2>4, <3>1, <3>2 DEF TypeOK
  <2> QED BY <1>8, <2>3, <2>4 DEF ChangeOwnEmail
<1>9. ASSUME NEW q \in Requests, Update(q) PROVE RolesInv'
  <2>1. user' \in [Users -> Row]
    BY <1>9, <1>t DEF Update, TypeOK, Row
  <2>2. rstep' \in [Requests -> Kinds]
    BY <1>9, <1>t, <1>k, StepTyped DEF Update, Ends
  <2>3. had' \in BOOLEAN /\ unguarded' \in BOOLEAN /\ LastAdminKept'
    BY <1>9, <2>1, NoteKeeps DEF Update
  <2> QED BY <1>9, <1>t, <2>1, <2>2, <2>3, ForgetTyped DEF Update, Ends, TypeOK
<1>10. ASSUME NEW q \in Requests, RequestFails(q) PROVE RolesInv'
  <2>1. rstep' \in [Requests -> Kinds]
    BY <1>10, <1>t, <1>k, StepTyped DEF RequestFails, Ends
  <2> QED BY <1>10, <1>t, <2>1, ForgetTyped DEF RequestFails, Ends, TypeOK, LastAdminKept, SomeAdmin
<1>11. ASSUME NEW u \in Users, DeleteCurrentUser(u) PROVE RolesInv'
  <2>1. user' \in [Users -> Row]
    BY <1>11, <1>t, <1>n DEF DeleteCurrentUser, TypeOK
  <2>2. had' \in BOOLEAN /\ unguarded' \in BOOLEAN /\ LastAdminKept'
    BY <1>11, <2>1, NoteKeeps DEF DeleteCurrentUser
  <2> QED BY <1>11, <1>t, <2>1, <2>2 DEF DeleteCurrentUser, TypeOK
<1>12. ASSUME NEW u \in Users, VerifyEmail(u) PROVE RolesInv'
  <2>1. user' \in [Users -> Row] /\ \A v \in Users : Active(user[v]) => Active(user'[v])
    BY <1>12, <1>t, ZenonT(60) DEF VerifyEmail, TypeOK, Row, Active
  <2>2. had' \in BOOLEAN /\ unguarded' \in BOOLEAN /\ LastAdminKept'
    BY <1>12, <2>1, NoteKeeps DEF VerifyEmail, SomeAdmin
  <2> QED BY <1>12, <1>t, <2>1, <2>2 DEF VerifyEmail, TypeOK
<1>13. ASSUME PromoteBootstrap PROVE RolesInv'
  <2>0. PICK u \in Users : user' = [user EXCEPT ![u].flag = TRUE]
    BY <1>13 DEF PromoteBootstrap
  <2>1. user' \in [Users -> Row] /\ \A v \in Users : Active(user[v]) => Active(user'[v])
    BY <2>0, <1>t, ZenonT(60) DEF TypeOK, Row, Active
  <2>2. had' \in BOOLEAN /\ unguarded' \in BOOLEAN /\ LastAdminKept'
    BY <1>13, <2>1, NoteKeeps DEF PromoteBootstrap, SomeAdmin
  <2> QED BY <1>13, <1>t, <2>1, <2>2 DEF PromoteBootstrap, TypeOK
<1>14. CASE UNCHANGED vars
  BY <1>14 DEF vars, TypeOK, LastAdminKept, SomeAdmin
<1> QED
  BY <1>1, <1>2, <1>4, <1>5, <1>6, <1>7, <1>8, <1>9, <1>10, <1>11, <1>12, <1>13, <1>14
     DEF Next, AdminRequest, OwnRequest


-----------------------------------------------------------------------------
(* Logins through a provider. *)

None == "none"
UserRows == [email : Emails \cup {None}, verified : BOOLEAN, disabled : BOOLEAN]
Callbacks == [at : {"idle", "consume", "subject", "email", "create", "link", "sync", "update", "handoff"},
              flow : Flows \cup {None}, sub : Subjects \cup {None}, acct : Accounts \cup {None},
              claim : OIDC!Claims \cup {None}, row : UserRows]

\* The steps of a callback before the identity is linked, and after.
Finding == {"email", "create", "link"}
Found == {"sync", "update", "handoff"}

\* Exchanges of a handoff code, under way or ended in a session.
Exchanges == [flow : Flows, acct : Accounts, at : {"consumed", "checked", "open"}]

OTypes ==
  /\ DOMAIN states \subseteq Flows /\ \A f \in DOMAIN states : states[f] \in Browsers
  /\ issued \in [Flows -> Browsers \cup {None}] /\ cookie \in [Browsers -> Flows \cup {None}]
  /\ code \in [Flows -> Subjects \cup {None}] /\ identity \in [Subjects -> Accounts \cup {None}]
  /\ account \in [Accounts -> UserRows] /\ claim \in [Subjects -> OIDC!Claims]
  /\ cb \in [Browsers -> Callbacks]
  /\ DOMAIN handoff \subseteq Flows /\ \A f \in DOMAIN handoff : handoff[f] \in Accounts
  /\ session \subseteq Exchanges /\ moved \subseteq Subjects

\* What a callback holds at each of its steps.
ShapeOf(r) ==
  /\ r.at = "idle" => r = OIDC!Rest
  /\ r.at # "idle" => r.flow \in Flows
  /\ r.at \in {"idle", "consume"} => r.sub = None
  /\ r.at \notin {"idle", "consume"} => /\ r.sub \in Subjects /\ code[r.flow] = r.sub /\ r.claim \in OIDC!Claims
                                        /\ r.sub \notin moved => r.claim = claim[r.sub]
  /\ r.at \in {"link"} \cup Found => /\ r.acct \in Accounts /\ r.row.email \in Emails
                                     /\ account[r.acct] # OIDC!NoAccount
Shape == \A b \in Browsers : ShapeOf(cb[b])

\* Two accounts never share an address; identities and handoff codes name accounts that exist.
UniqueEmails == \A a, c \in Accounts : account[a].email # None /\ account[a].email = account[c].email => a = c
LiveRefs == /\ \A s \in Subjects : identity[s] # None => account[identity[s]].email # None
            /\ \A f \in DOMAIN handoff : account[handoff[f]].email # None /\ code[f] \in Subjects

\* The account a callback is going to link, the one that is linked meanwhile, and the one a
\* callback has found: unless an address moved, each is the account of the person's address or
\* the linked one.
ToBeLinked(r) == r.at = "link" /\ r.sub \notin moved /\ account[r.acct].email # None
                   => account[r.acct].email = claim[r.sub].email
LinkedMeanwhile(r) == r.at \in Finding /\ r.sub \notin moved /\ identity[r.sub] # None
                        => account[identity[r.sub]].email = claim[r.sub].email
FoundIsLinked(r) == r.at \in Found /\ r.sub \notin moved /\ account[r.acct].email # None
                      => identity[r.sub] = r.acct
\* A write under way does not take the address from under another callback of the person.
KeepsAddress(r, q) ==
  (r.at = "update" /\ r.sub \notin moved /\ account[r.acct].email # None /\ q.at \in Finding /\ q.sub = r.sub)
    => r.row.email = claim[r.sub].email
Linking == /\ \A b \in Browsers : ToBeLinked(cb[b]) /\ LinkedMeanwhile(cb[b]) /\ FoundIsLinked(cb[b])
           /\ \A b, c \in Browsers : KeepsAddress(cb[b], cb[c])
Handed == \A f \in DOMAIN handoff : code[f] \notin moved => identity[code[f]] = handoff[f]

\* A flow is in one place.
FlowOf(r) == r.flow # None => /\ r.flow \notin DOMAIN states /\ r.flow \notin DOMAIN handoff
                              /\ \A x \in session : x.flow # r.flow
FlowInv ==
  /\ \A b \in Browsers : cookie[b] # None => issued[cookie[b]] = b
  /\ \A b \in Browsers : cb[b].flow # None => issued[cb[b].flow] = b
  /\ \A f \in Flows : issued[f] = None => /\ f \notin DOMAIN states /\ f \notin DOMAIN handoff
                                          /\ \A x \in session : x.flow # f
  /\ \A b \in Browsers : FlowOf(cb[b])
  /\ \A f \in DOMAIN states : f \notin DOMAIN handoff /\ \A x \in session : x.flow # f
  /\ \A f \in DOMAIN handoff : \A x \in session : x.flow # f
  /\ \A x, y \in session : x.flow = y.flow => x = y

OInv == OTypes /\ Shape /\ UniqueEmails /\ LiveRefs /\ Linking /\ Handed /\ FlowInv

-----------------------------------------------------------------------------
(* The rows of a callback. *)

LEMMA RestTyped ==
  /\ OIDC!Rest \in Callbacks /\ OIDC!Rest.at = "idle" /\ OIDC!Rest.flow = None /\ OIDC!Rest.sub = None
BY DEF OIDC!Rest, OIDC!NoAccount, OIDC!None, None, Callbacks, UserRows

LEMMA NoneIsNone == OIDC!None = None
BY DEF OIDC!None, None

LEMMA CallbackFields ==
  ASSUME NEW r \in Callbacks
  PROVE  /\ r.flow \in Flows \cup {None} /\ r.sub \in Subjects \cup {None} /\ r.acct \in Accounts \cup {None}
         /\ r.claim \in OIDC!Claims \cup {None} /\ r.row \in UserRows
BY DEF Callbacks

LEMMA CallbackEdits ==
  ASSUME NEW r \in Callbacks
  PROVE  /\ \A s \in Subjects, c \in OIDC!Claims :
              [r EXCEPT !.at = "subject", !.sub = s, !.claim = c] \in Callbacks
         /\ \A x \in {"email", "create", "sync", "handoff"} : [r EXCEPT !.at = x] \in Callbacks
         /\ \A x \in {"sync", "link"}, a \in Accounts, w \in UserRows :
              [r EXCEPT !.at = x, !.acct = a, !.row = w] \in Callbacks
         /\ \A x \in {"handoff", "update"}, w \in UserRows : [r EXCEPT !.row = w, !.at = x] \in Callbacks
BY ZenonT(60) DEF Callbacks

\* The callbacks after one of them has moved.
Moved(b, r) == b \in Browsers /\ r \in Callbacks /\ cb' = [cb EXCEPT ![b] = r]

LEMMA MovedCallbacks ==
  ASSUME cb \in [Browsers -> Callbacks], NEW b, NEW r, Moved(b, r)
  PROVE  /\ cb' \in [Browsers -> Callbacks]
         /\ \A c \in Browsers : cb'[c] = IF c = b THEN r ELSE cb[c]
BY DEF Moved

World == <<code, identity, account, claim, moved>>

\* A callback moves and nothing else of the world changes: it is enough to look at it.
LEMMA CallbackMoves ==
  ASSUME OTypes, Shape, UniqueEmails, Linking, NEW b, NEW r, Moved(b, r), UNCHANGED World,
         ShapeOf(r), ToBeLinked(r), LinkedMeanwhile(r), FoundIsLinked(r),
         \A c \in Browsers \ {b} : KeepsAddress(r, cb[c]) /\ KeepsAddress(cb[c], r)
  PROVE  Shape' /\ UniqueEmails' /\ Linking'
<1>0. \A c \in Browsers : cb'[c] = IF c = b THEN r ELSE cb[c]
  BY MovedCallbacks DEF OTypes
<1>1. /\ code' = code /\ identity' = identity /\ account' = account /\ claim' = claim /\ moved' = moved
  BY DEF World
<1>2. Shape'
  <2>1. ASSUME NEW c \in Browsers PROVE ShapeOf(cb[c])'
    <3>1. ShapeOf(cb'[c])
      BY <1>0 DEF Shape
    <3> QED BY <1>1, <3>1 DEF ShapeOf
  <2> QED BY <2>1 DEF Shape
<1>3. UniqueEmails'
  BY <1>1 DEF UniqueEmails
<1>4. ASSUME NEW c \in Browsers
      PROVE  (ToBeLinked(cb[c]) /\ LinkedMeanwhile(cb[c]) /\ FoundIsLinked(cb[c]))'
  <2>1. ToBeLinked(cb'[c]) /\ LinkedMeanwhile(cb'[c]) /\ FoundIsLinked(cb'[c])
    BY <1>0 DEF Linking
  <2> QED BY <1>1, <2>1 DEF ToBeLinked, LinkedMeanwhile, FoundIsLinked
<1>5. ASSUME NEW c \in Browsers, NEW d \in Browsers PROVE KeepsAddress(cb[c], cb[d])'
  <2>1. KeepsAddress(cb'[c], cb'[d])
    <3>1. CASE c = d
      BY <3>1 DEF KeepsAddress, Finding
    <3>2. CASE c # d
      BY <1>0, <3>2 DEF Linking
    <3> QED BY <3>1, <3>2
  <2> QED BY <1>1, <2>1 DEF KeepsAddress
<1> QED BY <1>2, <1>3, <1>4, <1>5 DEF Linking

\* A callback that ends, or one that has consumed its state.
LEMMA BeginsOrEnds ==
  ASSUME NEW r, r = OIDC!Rest \/ (r.at = "consume" /\ r.flow \in Flows /\ r.sub = None)
  PROVE  /\ ShapeOf(r) /\ ToBeLinked(r) /\ LinkedMeanwhile(r) /\ FoundIsLinked(r)
         /\ \A q : KeepsAddress(r, q) /\ KeepsAddress(q, r)
<1>1. r.at \in {"idle", "consume"} /\ r.sub = None /\ (r.at = "idle" => r = OIDC!Rest)
      /\ (r.at # "idle" => r.flow \in Flows)
  BY RestTyped
<1>2. r.at \notin {"link"} \cup Found /\ r.at \notin Finding
  BY <1>1 DEF Finding, Found
<1> QED BY <1>1, <1>2 DEF ShapeOf, ToBeLinked, LinkedMeanwhile, FoundIsLinked, KeepsAddress, Found

LEMMA CallbackEnds ==
  ASSUME OTypes, Shape, UniqueEmails, Linking, NEW b \in Browsers, cb' = [cb EXCEPT ![b] = OIDC!Rest],
         UNCHANGED World
  PROVE  Shape' /\ UniqueEmails' /\ Linking'
BY CallbackMoves, BeginsOrEnds, RestTyped, ZenonT(60) DEF Moved

-----------------------------------------------------------------------------
(* The flows. *)

\* A callback goes on with its flow or ends.
LEMMA FlowMove ==
  ASSUME OTypes, FlowInv, NEW b, NEW r, Moved(b, r), r.flow \in {cb[b].flow, None},
         UNCHANGED <<states, issued, cookie, handoff, session>>
  PROVE  FlowInv'
<1>0. \A c \in Browsers : cb'[c] = IF c = b THEN r ELSE cb[c]
  BY MovedCallbacks DEF OTypes
<1>1. \A c \in Browsers : cb'[c].flow # None => cb'[c].flow = cb[c].flow
  BY <1>0
<1>2. \A c \in Browsers : FlowOf(cb[c])'
  BY <1>1 DEF FlowInv, FlowOf
<1> QED BY <1>1, <1>2 DEF FlowInv

\* States, handoff codes and sessions go away.
LEMMA FlowShrink ==
  ASSUME FlowInv, UNCHANGED <<issued, cookie, cb>>, DOMAIN states' \subseteq DOMAIN states,
         DOMAIN handoff' \subseteq DOMAIN handoff, session' \subseteq session
  PROVE  FlowInv'
<1>1. \A c \in Browsers : FlowOf(cb[c])'
  BY DEF FlowInv, FlowOf
<1> QED BY <1>1 DEF FlowInv

LEMMA WithoutDomain == \A fn, f : DOMAIN OIDC!Without(fn, f) = DOMAIN fn \ {f}
BY DEF OIDC!Without
LEMMA WithDomain == \A fn, f, v : DOMAIN OIDC!With(fn, f, v) = DOMAIN fn \cup {f}
BY DEF OIDC!With

\* Everything but the flows is as it was.
LEMMA OnlyFlows ==
  ASSUME Shape, UniqueEmails, Linking, UNCHANGED <<World, cb>>
  PROVE  Shape' /\ UniqueEmails' /\ Linking'
<1>1. /\ code' = code /\ identity' = identity /\ account' = account /\ claim' = claim /\ moved' = moved
      /\ cb' = cb
  BY DEF World
<1> QED BY <1>1 DEF Shape, ShapeOf, UniqueEmails, Linking, ToBeLinked, LinkedMeanwhile, FoundIsLinked, KeepsAddress

LEMMA AuthorizeKeeps ==
  ASSUME OInv, NEW b \in Browsers, OIDC!AuthorizeOidc(b)
  PROVE  OInv'
<1>0. OTypes /\ Shape /\ UniqueEmails /\ LiveRefs /\ Linking /\ Handed /\ FlowInv
  BY DEF OInv
<1>1. PICK f \in Flows : /\ issued[f] = None /\ states' = OIDC!With(states, f, b)
                         /\ issued' = [issued EXCEPT ![f] = b] /\ cookie' = [cookie EXCEPT ![b] = f]
  BY NoneIsNone DEF OIDC!AuthorizeOidc, OIDC!BeginLogin, OIDC!CreateLoginState
<1>2. UNCHANGED <<World, cb, handoff, session>>
  BY DEF OIDC!AuthorizeOidc, World
<1>n. None \notin Browsers /\ None \notin Flows
  BY NoneAssumption DEF None
<1>3. OTypes'
  <2>1. DOMAIN states' \subseteq Flows /\ \A g \in DOMAIN states' : states'[g] \in Browsers
    BY <1>0, <1>1 DEF OIDC!With, OTypes
  <2>2. issued' \in [Flows -> Browsers \cup {None}] /\ cookie' \in [Browsers -> Flows \cup {None}]
    BY <1>0, <1>1 DEF OTypes
  <2> QED BY <1>0, <1>2, <2>1, <2>2 DEF OTypes, World
<1>4. Shape' /\ UniqueEmails' /\ Linking'
  BY <1>0, <1>2, OnlyFlows
<1>5. LiveRefs' /\ Handed'
  BY <1>0, <1>2 DEF LiveRefs, Handed, World
<1>6. FlowInv'
  <2>1. \A g \in Flows : issued'[g] = IF g = f THEN b ELSE issued[g]
    BY <1>0, <1>1 DEF OTypes
  <2>2. \A c \in Browsers : cookie'[c] = IF c = b THEN f ELSE cookie[c]
    BY <1>0, <1>1 DEF OTypes
  <2>3. DOMAIN states' = DOMAIN states \cup {f}
    BY <1>1, WithDomain
  <2>4. /\ f \notin DOMAIN states /\ f \notin DOMAIN handoff /\ \A x \in session : x.flow # f
    BY <1>0, <1>1 DEF FlowInv
  <2>5. \A c \in Browsers : cb[c].flow \in Flows \cup {None} /\ cb[c].flow # f
    BY <1>0, <1>1, <1>n, CallbackFields DEF FlowInv, OTypes
  <2>6. \A c \in Browsers : cookie'[c] # None => issued'[cookie'[c]] = c
    BY <1>0, <1>n, <1>1, <2>1, <2>2 DEF FlowInv, OTypes
  <2>7. \A c \in Browsers : cb[c].flow # None => issued'[cb[c].flow] = c
    BY <1>0, <2>1, <2>5 DEF FlowInv
  <2>8. \A c \in Browsers : FlowOf(cb[c])'
    BY <1>0, <1>2, <2>3, <2>5 DEF FlowInv, FlowOf
  <2>9. \A g \in Flows : issued'[g] = None => /\ g \notin DOMAIN states' /\ g \notin DOMAIN handoff
                                              /\ \A x \in session : x.flow # g
    BY <1>0, <1>n, <2>1, <2>3 DEF FlowInv
  <2> QED BY <1>0, <1>2, <2>3, <2>4, <2>6, <2>7, <2>8, <2>9 DEF FlowInv
<1> QED BY <1>3, <1>4, <1>5, <1>6 DEF OInv

LEMMA AuthenticateKeeps ==
  ASSUME OInv, NEW f \in Flows, OIDC!Authenticate(f)
  PROVE  OInv'
<1>0. OTypes /\ Shape /\ UniqueEmails /\ LiveRefs /\ Linking /\ Handed /\ FlowInv
  BY DEF OInv
<1>1. PICK s \in Subjects : code' = [code EXCEPT ![f] = s]
  BY DEF OIDC!Authenticate
<1>2. /\ code[f] = None /\ UNCHANGED <<states, issued, cookie, identity, account, claim, cb, handoff, session, moved>>
  BY NoneIsNone DEF OIDC!Authenticate
<1>n. None \notin Subjects
  BY NoneAssumption DEF None
<1>3. OTypes'
  <2>1. code' \in [Flows -> Subjects \cup {None}]
    BY <1>0, <1>1 DEF OTypes
  <2> QED BY <1>0, <1>2, <2>1 DEF OTypes
<1>4. \A g \in Flows : code[g] # None => code'[g] = code[g]
  BY <1>0, <1>1, <1>2 DEF OTypes
<1>5. Shape'
  <2>1. ASSUME NEW c \in Browsers PROVE ShapeOf(cb[c])'
    <3>1. ShapeOf(cb[c])
      BY <1>0 DEF Shape
    <3>2. cb[c].at \notin {"idle", "consume"} => code'[cb[c].flow] = cb[c].sub
      BY <1>4, <1>n, <3>1 DEF ShapeOf
    <3> QED BY <1>2, <3>1, <3>2 DEF ShapeOf
  <2> QED BY <2>1 DEF Shape
<1>6. UniqueEmails' /\ Linking'
  BY <1>0, <1>2 DEF UniqueEmails, Linking, ToBeLinked, LinkedMeanwhile, FoundIsLinked, KeepsAddress
<1>7. LiveRefs' /\ Handed'
  <2>1. \A g \in DOMAIN handoff : g \in Flows /\ code[g] \in Subjects /\ code'[g] = code[g]
    BY <1>0, <1>4, <1>n DEF OTypes, LiveRefs
  <2> QED BY <1>0, <1>2, <2>1 DEF LiveRefs, Handed
<1>8. FlowInv'
  BY <1>0, <1>2, FlowShrink
<1> QED BY <1>3, <1>5, <1>6, <1>7, <1>8 DEF OInv

LEMMA CallbackKeeps ==
  ASSUME OInv, NEW b \in Browsers, NEW f \in Flows, OIDC!Callback(b, f)
  PROVE  OInv'
<1>0. OTypes /\ Shape /\ UniqueEmails /\ LiveRefs /\ Linking /\ Handed /\ FlowInv
  BY DEF OInv
<1> DEFINE r == IF f \in DOMAIN states /\ cookie[b] = f
                THEN [OIDC!Rest EXCEPT !.at = "consume", !.flow = f] ELSE OIDC!Rest
<1>1. /\ cookie' = [cookie EXCEPT ![b] = None] /\ states' = OIDC!Without(states, f)
      /\ cb' = [cb EXCEPT ![b] = r] /\ UNCHANGED <<issued, World, handoff, session>>
  BY NoneIsNone DEF OIDC!Callback, OIDC!ConsumeLoginState, World
<1>2. /\ r \in Callbacks /\ r.flow \in {f, None} /\ (r.flow = f => f \in DOMAIN states /\ cookie[b] = f)
      /\ r = OIDC!Rest \/ (r.at = "consume" /\ r.flow \in Flows /\ r.sub = None)
  BY RestTyped, NoneAssumption DEF Callbacks, OIDC!Rest, OIDC!None, None
<1> HIDE DEF r
<1>n. None \notin Browsers /\ None \notin Flows
  BY NoneAssumption DEF None
<1>m. Moved(b, r)
  BY <1>1, <1>2 DEF Moved
<1>3. OTypes'
  <2>1. DOMAIN states' \subseteq Flows /\ \A g \in DOMAIN states' : states'[g] \in Browsers
    BY <1>0, <1>1 DEF OIDC!Without, OTypes
  <2>2. cookie' \in [Browsers -> Flows \cup {None}] /\ cb' \in [Browsers -> Callbacks]
    BY <1>0, <1>1, <1>m, MovedCallbacks DEF OTypes
  <2> QED BY <1>0, <1>1, <2>1, <2>2 DEF OTypes, World
<1>4. Shape' /\ UniqueEmails' /\ Linking'
  BY <1>0, <1>1, <1>2, <1>m, BeginsOrEnds, CallbackMoves
<1>5. LiveRefs' /\ Handed'
  BY <1>0, <1>1 DEF LiveRefs, Handed, World
<1>6. FlowInv'
  <2>1. \A c \in Browsers : cb'[c] = IF c = b THEN r ELSE cb[c]
    BY <1>0, <1>m, MovedCallbacks DEF OTypes
  <2>2. \A c \in Browsers : cookie'[c] = IF c = b THEN None ELSE cookie[c]
    BY <1>0, <1>1 DEF OTypes
  <2>3. DOMAIN states' = DOMAIN states \ {f}
    BY <1>1, WithoutDomain
  <2>4. \A c \in Browsers : cb'[c].flow # None => issued[cb'[c].flow] = c
    BY <1>0, <1>2, <1>n, <2>1 DEF FlowInv
  <2>5. \A c \in Browsers : FlowOf(cb[c])'
    <3>1. ASSUME NEW c \in Browsers PROVE FlowOf(cb[c])'
      <4>1. CASE c = b
        BY <1>0, <1>1, <1>2, <2>1, <2>3, <4>1 DEF FlowInv, FlowOf
      <4>2. CASE c # b
        BY <1>0, <1>1, <2>1, <2>3, <4>2 DEF FlowInv, FlowOf
      <4> QED BY <4>1, <4>2
    <3> QED BY <3>1
  <2> QED BY <1>0, <1>1, <2>2, <2>3, <2>4, <2>5 DEF FlowInv
<1> QED BY <1>3, <1>4, <1>5, <1>6 DEF OInv

\* A callback takes a step that only reads, or ends.
LEMMA ReadingStep ==
  ASSUME OInv, NEW b, NEW r, Moved(b, r), UNCHANGED World, OIDC!Stays, r.flow \in {cb[b].flow, None},
         ShapeOf(r), ToBeLinked(r), LinkedMeanwhile(r), FoundIsLinked(r),
         \A c \in Browsers \ {b} : KeepsAddress(r, cb[c]) /\ KeepsAddress(cb[c], r)
  PROVE  OInv'
<1>0. OTypes /\ Shape /\ UniqueEmails /\ LiveRefs /\ Linking /\ Handed /\ FlowInv
  BY DEF OInv
<1>1. Shape' /\ UniqueEmails' /\ Linking'
  BY <1>0, CallbackMoves
<1>2. OTypes'
  <2>1. cb' \in [Browsers -> Callbacks]
    BY <1>0, MovedCallbacks DEF OTypes
  <2> QED BY <1>0, <2>1 DEF OTypes, World, OIDC!Stays
<1>3. LiveRefs' /\ Handed'
  BY <1>0 DEF LiveRefs, Handed, World, OIDC!Stays
<1>4. FlowInv'
  BY <1>0, FlowMove DEF OIDC!Stays
<1> QED BY <1>1, <1>2, <1>3, <1>4 DEF OInv

LEMMA EndingStep ==
  ASSUME OInv, NEW b \in Browsers, cb' = [cb EXCEPT ![b] = OIDC!Rest], UNCHANGED World, OIDC!Stays
  PROVE  OInv'
BY ReadingStep, BeginsOrEnds, RestTyped, ZenonT(60) DEF Moved

LEMMA CallbackFailsKeeps ==
  ASSUME OInv, NEW b \in Browsers, OIDC!CallbackFails(b)
  PROVE  OInv'
BY EndingStep DEF OIDC!CallbackFails, OIDC!Move, World, OIDC!Stays

LEMMA ExchangeKeeps ==
  ASSUME OInv, NEW b \in Browsers, OIDC!Exchange(b)
  PROVE  OInv'
<1>0. OTypes /\ Shape
  BY DEF OInv
<1>1. UNCHANGED World /\ OIDC!Stays /\ cb[b].at = "consume"
  BY DEF OIDC!Exchange, World, OIDC!Stays
<1>2. CASE cb' = [cb EXCEPT ![b] = OIDC!Rest]
  BY <1>1, <1>2, EndingStep
<1>3. ASSUME NEW g \in Flows, g = cb[b].flow, code[g] # None,
             cb' = [cb EXCEPT ![b] = [cb[b] EXCEPT !.at = "subject", !.sub = code[g], !.claim = claim[code[g]]]]
      PROVE  OInv'
  <2> DEFINE r == [cb[b] EXCEPT !.at = "subject", !.sub = code[g], !.claim = claim[code[g]]]
  <2>1. code[g] \in Subjects /\ claim[code[g]] \in OIDC!Claims /\ cb[b] \in Callbacks
    BY <1>0, <1>3 DEF OTypes
  <2>2. r \in Callbacks
    BY <2>1, CallbackEdits
  <2>3. r.at = "subject" /\ r.sub = code[g] /\ r.claim = claim[code[g]] /\ r.flow = g
    BY <1>3, <2>1 DEF Callbacks
  <2> HIDE DEF r
  <2>4. ShapeOf(r)
    BY <2>1, <2>3 DEF ShapeOf, Found
  <2>5. ToBeLinked(r) /\ LinkedMeanwhile(r) /\ FoundIsLinked(r) /\ \A q : KeepsAddress(r, q) /\ KeepsAddress(q, r)
    BY <2>3 DEF ToBeLinked, LinkedMeanwhile, FoundIsLinked, KeepsAddress, Finding, Found
  <2>6. Moved(b, r)
    BY <1>3, <2>2 DEF Moved, r
  <2> QED BY <1>1, <1>3, <2>3, <2>4, <2>5, <2>6, ReadingStep
<1> QED BY <1>2, <1>3, NoneIsNone DEF OIDC!Exchange, OIDC!Move

LEMMA GetBySubjectKeeps ==
  ASSUME OInv, NEW b \in Browsers, OIDC!GetBySubject(b)
  PROVE  OInv'
<1>0. OTypes /\ Shape /\ LiveRefs /\ Linking
  BY DEF OInv
<1>1. UNCHANGED World /\ OIDC!Stays /\ cb[b].at = "subject"
  BY DEF OIDC!GetBySubject, World, OIDC!Stays
<1> DEFINE s == cb[b].sub  a == identity[s]
<1>2. /\ cb[b] \in Callbacks /\ ShapeOf(cb[b]) /\ s \in Subjects /\ cb[b].flow \in Flows
      /\ a \in Accounts \cup {None}
  BY <1>0, <1>1 DEF Shape, ShapeOf, OTypes
<1>n. None \notin Accounts
  BY NoneAssumption DEF None
<1>3. CASE cb' = [cb EXCEPT ![b] = OIDC!Rest]
  BY <1>1, <1>3, EndingStep
<1>4. CASE a = None /\ cb' = [cb EXCEPT ![b] = [cb[b] EXCEPT !.at = "email"]]
  <2> DEFINE r == [cb[b] EXCEPT !.at = "email"]
  <2>0. r \in Callbacks
    BY <1>2, CallbackEdits
  <2>1. r.at = "email" /\ r.sub = s /\ r.claim = cb[b].claim /\ r.flow = cb[b].flow
    BY <1>2 DEF Callbacks
  <2> HIDE DEF r
  <2>2. ShapeOf(r)
    BY <1>1, <1>2, <2>1 DEF ShapeOf, Found
  <2>3. ToBeLinked(r) /\ LinkedMeanwhile(r) /\ FoundIsLinked(r) /\ \A q : KeepsAddress(r, q)
    BY <1>4, <2>1 DEF ToBeLinked, LinkedMeanwhile, FoundIsLinked, KeepsAddress, Found
  <2>4. ASSUME NEW c \in Browsers PROVE KeepsAddress(cb[c], r)
    <3>1. FoundIsLinked(cb[c]) /\ ShapeOf(cb[c])
      BY <1>0 DEF Linking, Shape
    <3> QED BY <1>4, <1>n, <2>1, <3>1 DEF KeepsAddress, FoundIsLinked, ShapeOf, Found
  <2>5. Moved(b, r)
    BY <1>4, <2>0 DEF Moved, r
  <2> QED BY <1>1, <2>1, <2>2, <2>3, <2>4, <2>5, ReadingStep
<1>5. CASE a # None /\ cb' = [cb EXCEPT ![b] = [cb[b] EXCEPT !.at = "sync", !.acct = a, !.row = account[a]]]
  <2> DEFINE r == [cb[b] EXCEPT !.at = "sync", !.acct = a, !.row = account[a]]
  <2>1. a \in Accounts /\ account[a] \in UserRows /\ account[a].email # None /\ account[a].email \in Emails
    BY <1>0, <1>2, <1>5 DEF LiveRefs, OTypes, UserRows
  <2>2. r \in Callbacks
    BY <1>2, <2>1, CallbackEdits
  <2>3. /\ r.at = "sync" /\ r.sub = s /\ r.claim = cb[b].claim /\ r.flow = cb[b].flow
        /\ r.acct = a /\ r.row = account[a]
    BY <1>2 DEF Callbacks
  <2> HIDE DEF r
  <2>4. account[a] # OIDC!NoAccount
    BY <2>1, NoneIsNone DEF OIDC!NoAccount
  <2>5. ShapeOf(r)
    BY <1>1, <1>2, <2>1, <2>3, <2>4 DEF ShapeOf, Found
  <2>6. ToBeLinked(r) /\ LinkedMeanwhile(r) /\ FoundIsLinked(r) /\ \A q : KeepsAddress(r, q) /\ KeepsAddress(q, r)
    BY <2>3 DEF ToBeLinked, LinkedMeanwhile, FoundIsLinked, KeepsAddress, Finding
  <2>7. Moved(b, r)
    BY <1>5, <2>2 DEF Moved, r
  <2> QED BY <1>1, <2>3, <2>5, <2>6, <2>7, ReadingStep
<1> QED
  <2>1. OIDC!Move(b, CASE a = OIDC!None -> [cb[b] EXCEPT !.at = "email"]
                       [] a # OIDC!None /\ account[a].disabled -> OIDC!Rest
                       [] OTHER -> [cb[b] EXCEPT !.at = "sync", !.acct = a, !.row = account[a]])
    BY DEF OIDC!GetBySubject
  <2> HIDE DEF a, s
  <2>2. CASE a = None
    BY <1>4, <2>1, <2>2, NoneIsNone DEF OIDC!Move, s
  <2>3. CASE a # None /\ account[a].disabled
    BY <1>3, <2>1, <2>3, NoneIsNone DEF OIDC!Move
  <2>4. CASE a # None /\ ~account[a].disabled
    BY <1>5, <2>1, <2>4, NoneIsNone DEF OIDC!Move
  <2> QED BY <2>2, <2>3, <2>4

LEMMA GetByEmailKeeps ==
  ASSUME OInv, NEW b \in Browsers, OIDC!GetByEmail(b)
  PROVE  OInv'
<1>0. OTypes /\ Shape /\ LiveRefs /\ Linking
  BY DEF OInv
<1>1. UNCHANGED World /\ OIDC!Stays /\ cb[b].at = "email"
  BY DEF OIDC!GetByEmail, World, OIDC!Stays
<1>2. /\ cb[b] \in Callbacks /\ ShapeOf(cb[b]) /\ cb[b].sub \in Subjects /\ cb[b].flow \in Flows
      /\ cb[b].claim \in OIDC!Claims /\ LinkedMeanwhile(cb[b])
  BY <1>0, <1>1 DEF Shape, ShapeOf, OTypes, Linking
<1>k. \A c \in Browsers : \A r : (r.at \in Finding /\ r.sub = cb[b].sub => KeepsAddress(cb[c], r))
  BY <1>0, <1>1 DEF Linking, KeepsAddress, Finding
<1>3. CASE cb' = [cb EXCEPT ![b] = OIDC!Rest]
  BY <1>1, <1>3, EndingStep
<1>4. CASE cb' = [cb EXCEPT ![b] = [cb[b] EXCEPT !.at = "create"]]
  <2> DEFINE r == [cb[b] EXCEPT !.at = "create"]
  <2>0. r \in Callbacks
    BY <1>2, CallbackEdits
  <2>1. r.at = "create" /\ r.sub = cb[b].sub /\ r.claim = cb[b].claim /\ r.flow = cb[b].flow
    BY <1>2 DEF Callbacks
  <2> HIDE DEF r
  <2>2. ShapeOf(r)
    BY <1>1, <1>2, <2>1 DEF ShapeOf, Found
  <2>3. ToBeLinked(r) /\ LinkedMeanwhile(r) /\ FoundIsLinked(r) /\ \A q : KeepsAddress(r, q)
    BY <1>1, <1>2, <2>1 DEF ToBeLinked, LinkedMeanwhile, FoundIsLinked, KeepsAddress, Finding, Found
  <2>4. \A c \in Browsers : KeepsAddress(cb[c], r)
    BY <1>k, <2>1 DEF Finding
  <2>5. Moved(b, r)
    BY <1>4, <2>0 DEF Moved, r
  <2> QED BY <1>1, <2>1, <2>2, <2>3, <2>4, <2>5, ReadingStep
<1>5. ASSUME NEW a \in OIDC!Holder(cb[b].claim.email),
             cb' = [cb EXCEPT ![b] = [cb[b] EXCEPT !.at = "link", !.acct = a, !.row = account[a]]]
      PROVE  OInv'
  <2> DEFINE r == [cb[b] EXCEPT !.at = "link", !.acct = a, !.row = account[a]]
  <2>1. /\ a \in Accounts /\ account[a] \in UserRows /\ account[a].email = cb[b].claim.email
        /\ account[a].email \in Emails /\ account[a].email # None
    BY <1>0, <1>2, <1>5, NoneAssumption DEF OTypes, OIDC!Holder, OIDC!Claims, None
  <2>2. r \in Callbacks
    BY <1>2, <2>1, CallbackEdits
  <2>3. /\ r.at = "link" /\ r.sub = cb[b].sub /\ r.claim = cb[b].claim /\ r.flow = cb[b].flow
        /\ r.acct = a /\ r.row = account[a]
    BY <1>2 DEF Callbacks
  <2> HIDE DEF r
  <2>4. account[a] # OIDC!NoAccount
    BY <2>1, NoneIsNone DEF OIDC!NoAccount
  <2>5. ShapeOf(r)
    BY <1>1, <1>2, <2>1, <2>3, <2>4 DEF ShapeOf, Found
  <2>6. ToBeLinked(r)
    BY <1>1, <1>2, <2>1, <2>3 DEF ToBeLinked, ShapeOf
  <2>7. LinkedMeanwhile(r) /\ FoundIsLinked(r) /\ \A q : KeepsAddress(r, q)
    BY <1>1, <1>2, <2>3 DEF LinkedMeanwhile, FoundIsLinked, KeepsAddress, Finding, Found
  <2>8. \A c \in Browsers : KeepsAddress(cb[c], r)
    BY <1>k, <2>3 DEF Finding
  <2>9. Moved(b, r)
    BY <1>5, <2>2 DEF Moved, r
  <2> QED BY <1>1, <2>3, <2>5, <2>6, <2>7, <2>8, <2>9, ReadingStep
<1> QED BY <1>3, <1>4, <1>5 DEF OIDC!GetByEmail, OIDC!Move

LEMMA SyncKeeps ==
  ASSUME OInv, NEW b \in Browsers, OIDC!Sync(b)
  PROVE  OInv'
<1>0. OTypes /\ Shape /\ LiveRefs /\ Linking /\ UniqueEmails
  BY DEF OInv
<1>1. UNCHANGED World /\ OIDC!Stays /\ cb[b].at = "sync"
  BY DEF OIDC!Sync, World, OIDC!Stays
<1> DEFINE q == cb[b]
<1>2. /\ q \in Callbacks /\ ShapeOf(q) /\ q.sub \in Subjects /\ q.flow \in Flows
      /\ q.claim \in OIDC!Claims /\ q.acct \in Accounts /\ FoundIsLinked(q)
      /\ q.row \in UserRows /\ q.row.email \in Emails /\ account[q.acct] # OIDC!NoAccount
  BY <1>0, <1>1, CallbackFields DEF Shape, ShapeOf, OTypes, Linking, Found
<1>c. q.claim.email \in Emails
  BY <1>2 DEF OIDC!Claims
<1> DEFINE new == [q.row EXCEPT !.verified = q.claim.verified \/ TrustEmailVerified,
                                !.email = IF OIDC!Holder(q.claim.email) \ {q.acct} = {} THEN q.claim.email ELSE @]
<1>3. /\ new \in UserRows /\ new.email \in Emails
      /\ new.email = IF OIDC!Holder(q.claim.email) \ {q.acct} = {} THEN q.claim.email ELSE q.row.email
  BY <1>2, <1>c DEF UserRows
<1>4. PICK at \in {"handoff", "update"} : /\ cb' = [cb EXCEPT ![b] = [q EXCEPT !.row = new, !.at = at]]
                                          /\ at = "handoff" => new = q.row
  BY DEF OIDC!Sync, OIDC!Move
<1> DEFINE r == [q EXCEPT !.row = new, !.at = at]
<1> HIDE DEF new
<1>5. r \in Callbacks
  BY <1>2, <1>3, <1>4, CallbackEdits
<1>6. /\ r.at = at /\ r.sub = q.sub /\ r.claim = q.claim /\ r.flow = q.flow /\ r.acct = q.acct /\ r.row = new
  BY <1>2 DEF Callbacks
<1>m. Moved(b, r)
  BY <1>4, <1>5 DEF Moved
<1> HIDE DEF r
<1>7. ShapeOf(r)
  BY <1>1, <1>2, <1>3, <1>4, <1>6 DEF ShapeOf, Found
<1>8. ToBeLinked(r) /\ LinkedMeanwhile(r) /\ FoundIsLinked(r) /\ \A x : KeepsAddress(x, r)
  BY <1>1, <1>2, <1>4, <1>6 DEF ToBeLinked, LinkedMeanwhile, FoundIsLinked, KeepsAddress, Finding, Found
<1>9. ASSUME NEW c \in Browsers PROVE KeepsAddress(r, cb[c])
  <2> SUFFICES ASSUME r.sub \notin moved, account[r.acct].email # None, cb[c].at \in Finding, cb[c].sub = r.sub
               PROVE  new.email = claim[q.sub].email
    BY <1>6 DEF KeepsAddress
  <2>1. identity[q.sub] = q.acct
    BY <1>1, <1>2, <1>6 DEF FoundIsLinked, Found
  <2>2. LinkedMeanwhile(cb[c])
    BY <1>0 DEF Linking
  <2>3. account[q.acct].email = claim[q.sub].email
    BY <1>2, <1>6, <2>1, <2>2, NoneAssumption DEF LinkedMeanwhile, None
  <2>4. q.claim = claim[q.sub]
    BY <1>1, <1>2, <1>6 DEF ShapeOf
  <2>5. OIDC!Holder(q.claim.email) \ {q.acct} = {}
    BY <1>0, <1>2, <1>6, <2>3, <2>4 DEF OIDC!Holder, UniqueEmails
  <2> QED BY <1>3, <2>4, <2>5
<1> QED BY <1>1, <1>6, <1>7, <1>8, <1>9, <1>m, ReadingStep

LEMMA CreateUserKeeps ==
  ASSUME OInv, NEW b \in Browsers, OIDC!CreateUser(b)
  PROVE  OInv'
<1>0. OTypes /\ Shape /\ UniqueEmails /\ LiveRefs /\ Linking /\ Handed /\ FlowInv
  BY DEF OInv
<1>1. UNCHANGED <<code, identity, claim, moved>> /\ OIDC!Stays /\ cb[b].at = "create"
  BY DEF OIDC!CreateUser, OIDC!Stays
<1> DEFINE q == cb[b]
<1>2. /\ q \in Callbacks /\ ShapeOf(q) /\ q.sub \in Subjects /\ q.flow \in Flows
      /\ q.claim \in OIDC!Claims /\ LinkedMeanwhile(q)
  BY <1>0, <1>1 DEF Shape, ShapeOf, OTypes, Linking
<1>c. q.claim.email \in Emails /\ q.claim.email # None
  BY <1>2, NoneAssumption DEF OIDC!Claims, None
<1>3. CASE cb' = [cb EXCEPT ![b] = OIDC!Rest] /\ UNCHANGED account
  BY <1>1, <1>3, EndingStep DEF World
<1>4. ASSUME NEW a \in Accounts, OIDC!Holder(q.claim.email) = {}, account[a] = OIDC!NoAccount,
             account' = [account EXCEPT ![a] = [email |-> q.claim.email, disabled |-> FALSE,
                                                verified |-> q.claim.verified \/ TrustEmailVerified]],
             OIDC!Move(b, [q EXCEPT !.at = "link", !.acct = a, !.row = account'[a]])
      PROVE  OInv'
  <2> DEFINE w == account'[a]  r == [q EXCEPT !.at = "link", !.acct = a, !.row = w]
  <2>1. /\ w \in UserRows /\ w.email = q.claim.email /\ w.email # None /\ w # OIDC!NoAccount
        /\ \A x \in Accounts : account'[x] = IF x = a THEN w ELSE account[x]
        /\ account' \in [Accounts -> UserRows]
    <3>1. w = [email |-> q.claim.email, disabled |-> FALSE, verified |-> q.claim.verified \/ TrustEmailVerified]
      BY <1>0, <1>4 DEF OTypes
    <3>2. w \in UserRows /\ w.email = q.claim.email
      BY <1>c, <3>1 DEF UserRows
    <3>3. w # OIDC!NoAccount
      BY <1>c, <3>2, NoneIsNone DEF OIDC!NoAccount
    <3> QED BY <1>0, <1>4, <1>c, <3>1, <3>2, <3>3 DEF OTypes
  <2> HIDE DEF w
  <2>2. r \in Callbacks
    BY <1>2, <2>1, CallbackEdits
  <2>3. /\ r.at = "link" /\ r.sub = q.sub /\ r.claim = q.claim /\ r.flow = q.flow /\ r.acct = a /\ r.row = w
    BY <1>2 DEF Callbacks
  <2>4. Moved(b, r)
    BY <1>4, <2>2 DEF Moved, OIDC!Move, w
  <2> HIDE DEF r
  <2>5. \A c \in Browsers : cb'[c] = IF c = b THEN r ELSE cb[c]
    BY <1>0, <2>4, MovedCallbacks DEF OTypes
  <2>6. account[a].email = None
    BY <1>4, NoneIsNone DEF OIDC!NoAccount
  <2>7. \A x \in Accounts : account[x].email # None => x # a /\ account'[x] = account[x]
    BY <2>1, <2>6
  <2>8. OTypes'
    <3>1. cb' \in [Browsers -> Callbacks]
      BY <1>0, <2>4, MovedCallbacks DEF OTypes
    <3> QED BY <1>0, <1>1, <2>1, <3>1 DEF OTypes, OIDC!Stays
  <2>9. Shape'
    <3>1. cb'[b] = r /\ code' = code /\ claim' = claim /\ moved' = moved /\ account'[a] = w
      BY <1>1, <2>1, <2>5
    <3>2. ASSUME NEW c \in Browsers \ {b} PROVE ShapeOf(cb[c])'
      <4>1. ShapeOf(cb[c]) /\ cb'[c] = cb[c]
        BY <1>0, <2>5 DEF Shape
      <4>2. cb[c].at \in {"link"} \cup Found => account'[cb[c].acct] # OIDC!NoAccount
        BY <2>1, <4>1 DEF ShapeOf
      <4> QED BY <1>1, <4>1, <4>2 DEF ShapeOf
    <3>3. ShapeOf(cb[b])'
      BY <1>1, <1>2, <1>c, <2>1, <2>3, <3>1 DEF ShapeOf, Found
    <3> QED BY <3>2, <3>3 DEF Shape
  <2>10. UniqueEmails'
    <3>1. \A x \in Accounts : account[x].email # q.claim.email
      BY <1>4 DEF OIDC!Holder
    <3> QED BY <1>0, <2>1, <3>1 DEF UniqueEmails
  <2>11. LiveRefs' /\ Handed'
    <3>1. LiveRefs'
      BY <1>0, <1>1, <2>7 DEF LiveRefs, OIDC!Stays, OTypes
    <3> QED BY <1>0, <1>1, <3>1 DEF Handed, OIDC!Stays
  <2>12. Linking'
    <3>1. ASSUME NEW c \in Browsers
          PROVE  (ToBeLinked(cb[c]) /\ LinkedMeanwhile(cb[c]) /\ FoundIsLinked(cb[c]))'
      <4>1. CASE c = b
        <5>1. cb'[c] = r
          BY <2>5, <4>1
        <5>2. r.sub \notin moved => q.claim = claim[q.sub]
          BY <1>1, <1>2, <2>3 DEF ShapeOf
        <5>3. ToBeLinked(cb[c])'
          BY <1>1, <2>1, <2>3, <5>1, <5>2 DEF ToBeLinked
        <5>4. LinkedMeanwhile(cb[c])'
          BY <1>0, <1>1, <1>2, <2>3, <2>7, <5>1 DEF LinkedMeanwhile, Finding, LiveRefs, OTypes
        <5>5. FoundIsLinked(cb[c])'
          BY <2>3, <5>1 DEF FoundIsLinked, Found
        <5> QED BY <5>3, <5>4, <5>5
      <4>2. CASE c # b
        <5>1. cb'[c] = cb[c] /\ ShapeOf(cb[c]) /\ ToBeLinked(cb[c]) /\ LinkedMeanwhile(cb[c]) /\ FoundIsLinked(cb[c])
          BY <1>0, <2>5, <4>2 DEF Shape, Linking
        <5>2. cb[c].at \in {"link"} \cup Found => cb[c].acct # a /\ account'[cb[c].acct] = account[cb[c].acct]
          BY <1>4, <2>1, <5>1 DEF ShapeOf
        <5>3. ToBeLinked(cb[c])' /\ FoundIsLinked(cb[c])'
          BY <1>1, <5>1, <5>2 DEF ToBeLinked, FoundIsLinked
        <5>4. cb[c].at \in Finding => cb[c].sub \in Subjects
          BY <5>1 DEF ShapeOf, Finding
        <5>5. LinkedMeanwhile(cb[c])'
          BY <1>0, <1>1, <2>7, <5>1, <5>4 DEF LinkedMeanwhile, LiveRefs, OTypes
        <5> QED BY <5>3, <5>5
      <4> QED BY <4>1, <4>2
    <3>2. ASSUME NEW c \in Browsers, NEW d \in Browsers PROVE KeepsAddress(cb[c], cb[d])'
      <4>1. CASE c = b
        BY <2>3, <2>5, <4>1 DEF KeepsAddress
      <4>2. CASE c # b
        <5>1. cb'[c] = cb[c] /\ ShapeOf(cb[c]) /\ KeepsAddress(cb[c], cb[d])
          BY <1>0, <2>5, <4>2 DEF Shape, Linking
        <5>2. cb[c].at = "update" => account'[cb[c].acct] = account[cb[c].acct]
          BY <1>4, <2>1, <5>1 DEF ShapeOf, Found
        <5>3. cb'[d].at \in Finding => cb[d].at \in Finding /\ cb[d].sub = cb'[d].sub
          BY <1>1, <2>3, <2>5 DEF Finding
        <5> QED BY <1>1, <5>1, <5>2, <5>3 DEF KeepsAddress
      <4> QED BY <4>1, <4>2
    <3> QED BY <3>1, <3>2 DEF Linking
  <2>13. FlowInv'
    BY <1>0, <1>1, <2>3, <2>4, FlowMove DEF OIDC!Stays
  <2> QED BY <2>8, <2>9, <2>10, <2>11, <2>12, <2>13 DEF OInv
<1> QED BY <1>3, <1>4 DEF OIDC!CreateUser, OIDC!Move

LEMMA LinkIdentityKeeps ==
  ASSUME OInv, NEW b \in Browsers, OIDC!LinkIdentity(b)
  PROVE  OInv'
<1>0. OTypes /\ Shape /\ UniqueEmails /\ LiveRefs /\ Linking /\ Handed /\ FlowInv
  BY DEF OInv
<1>1. UNCHANGED <<code, account, claim, moved>> /\ OIDC!Stays /\ cb[b].at = "link"
  BY DEF OIDC!LinkIdentity, OIDC!Stays
<1> DEFINE q == cb[b]  r == [q EXCEPT !.at = "sync"]
<1>2. /\ q \in Callbacks /\ ShapeOf(q) /\ q.sub \in Subjects /\ q.flow \in Flows /\ q.acct \in Accounts
      /\ LinkedMeanwhile(q) /\ ToBeLinked(q)
  BY <1>0, <1>1 DEF Shape, ShapeOf, OTypes, Linking
<1>n. None \notin Accounts
  BY NoneAssumption DEF None
<1>3. CASE cb' = [cb EXCEPT ![b] = OIDC!Rest] /\ UNCHANGED identity
  BY <1>1, <1>3, EndingStep DEF World
<1>4. CASE /\ account[q.acct].email # None /\ cb' = [cb EXCEPT ![b] = r]
           /\ identity' = [identity EXCEPT ![q.sub] = IF @ = None THEN q.acct ELSE @]
  <2>1. r \in Callbacks
    BY <1>2, CallbackEdits
  <2>2. /\ r.at = "sync" /\ r.sub = q.sub /\ r.claim = q.claim /\ r.flow = q.flow /\ r.acct = q.acct /\ r.row = q.row
    BY <1>2 DEF Callbacks
  <2>3. Moved(b, r)
    BY <1>4, <2>1 DEF Moved
  <2> HIDE DEF r
  <2>4. \A c \in Browsers : cb'[c] = IF c = b THEN r ELSE cb[c]
    BY <1>0, <2>3, MovedCallbacks DEF OTypes
  <2>5. /\ identity' \in [Subjects -> Accounts \cup {None}]
        /\ \A s \in Subjects : identity'[s] = IF s = q.sub /\ identity[s] = None THEN q.acct ELSE identity[s]
    BY <1>0, <1>2, <1>4 DEF OTypes
  <2>6. OTypes'
    <3>1. cb' \in [Browsers -> Callbacks]
      BY <1>0, <2>3, MovedCallbacks DEF OTypes
    <3> QED BY <1>0, <1>1, <2>5, <3>1 DEF OTypes, OIDC!Stays
  <2>7. Shape'
    <3>1. ASSUME NEW c \in Browsers PROVE ShapeOf(cb[c])'
      <4>1. CASE c = b
        <5>1. cb'[c] = r
          BY <2>4, <4>1
        <5> QED BY <1>1, <1>2, <2>2, <5>1 DEF ShapeOf, Found
      <4>2. CASE c # b
        <5>1. cb'[c] = cb[c] /\ ShapeOf(cb[c])
          BY <1>0, <2>4, <4>2 DEF Shape
        <5> QED BY <1>1, <5>1 DEF ShapeOf
      <4> QED BY <4>1, <4>2
    <3> QED BY <3>1 DEF Shape
  <2>8. UniqueEmails'
    BY <1>0, <1>1 DEF UniqueEmails
  <2>9. LiveRefs'
    BY <1>0, <1>1, <1>4, <2>5 DEF LiveRefs, OIDC!Stays
  <2>10. Handed'
    <3>1. ASSUME NEW f \in DOMAIN handoff, code[f] \notin moved PROVE identity'[code[f]] = handoff[f]
      <4>1. code[f] \in Subjects /\ identity[code[f]] = handoff[f] /\ handoff[f] \in Accounts
        BY <1>0, <3>1 DEF LiveRefs, Handed, OTypes
      <4> QED BY <1>n, <2>5, <4>1
    <3> QED BY <1>1, <3>1 DEF Handed, OIDC!Stays
  <2>11. Linking'
    \* Who is linked meanwhile is the account that was going to be linked: both have the address.
    <3>0. q.sub \notin moved => identity'[q.sub] = q.acct
      <4>1. CASE identity[q.sub] = None
        BY <1>2, <2>5, <4>1
      <4>2. CASE identity[q.sub] # None
        <5> SUFFICES ASSUME q.sub \notin moved PROVE identity[q.sub] = q.acct
          BY <1>2, <2>5, <4>2
        <5>1. account[identity[q.sub]].email = account[q.acct].email
          BY <1>1, <1>2, <1>4, <4>2 DEF LinkedMeanwhile, ToBeLinked, Finding
        <5>2. identity[q.sub] \in Accounts
          BY <1>0, <1>2, <4>2 DEF OTypes
        <5> QED BY <1>0, <1>2, <1>4, <5>1, <5>2 DEF UniqueEmails
      <4> QED BY <4>1, <4>2
    <3>1. ASSUME NEW c \in Browsers
          PROVE  (ToBeLinked(cb[c]) /\ LinkedMeanwhile(cb[c]) /\ FoundIsLinked(cb[c]))'
      <4>1. CASE c = b
        <5>1. cb'[c] = r
          BY <2>4, <4>1
        <5>2. FoundIsLinked(cb[c])'
          BY <1>1, <2>2, <3>0, <5>1 DEF FoundIsLinked
        <5>3. (ToBeLinked(cb[c]) /\ LinkedMeanwhile(cb[c]))'
          BY <2>2, <5>1 DEF ToBeLinked, LinkedMeanwhile, Finding
        <5> QED BY <5>2, <5>3
      <4>2. CASE c # b
        <5>1. cb'[c] = cb[c] /\ ShapeOf(cb[c]) /\ ToBeLinked(cb[c]) /\ LinkedMeanwhile(cb[c]) /\ FoundIsLinked(cb[c])
          BY <1>0, <2>4, <4>2 DEF Shape, Linking
        <5>2. ToBeLinked(cb[c])'
          BY <1>1, <5>1 DEF ToBeLinked
        <5>3. cb[c].at \in Finding \cup Found => cb[c].sub \in Subjects
          BY <5>1 DEF ShapeOf, Finding, Found
        <5>4. LinkedMeanwhile(cb[c])'
          <6> SUFFICES ASSUME cb[c].at \in Finding, cb[c].sub \notin moved, identity'[cb[c].sub] # None
                       PROVE  account[identity'[cb[c].sub]].email = claim[cb[c].sub].email
            BY <1>1, <5>1 DEF LinkedMeanwhile
          <6>1. CASE cb[c].sub = q.sub /\ identity[q.sub] = None
            BY <1>1, <1>2, <1>4, <2>5, <6>1 DEF ToBeLinked
          <6>2. CASE ~(cb[c].sub = q.sub /\ identity[q.sub] = None)
            BY <2>5, <5>1, <5>3, <6>2 DEF LinkedMeanwhile
          <6> QED BY <6>1, <6>2
        <5>5. FoundIsLinked(cb[c])'
          <6> SUFFICES ASSUME cb[c].at \in Found, cb[c].sub \notin moved, account[cb[c].acct].email # None
                       PROVE  identity'[cb[c].sub] = cb[c].acct
            BY <1>1, <5>1 DEF FoundIsLinked
          <6>1. identity[cb[c].sub] = cb[c].acct /\ cb[c].acct \in Accounts
            BY <5>1 DEF FoundIsLinked, ShapeOf
          <6> QED BY <1>n, <2>5, <5>3, <6>1
        <5> QED BY <5>2, <5>4, <5>5
      <4> QED BY <4>1, <4>2
    <3>2. ASSUME NEW c \in Browsers, NEW d \in Browsers PROVE KeepsAddress(cb[c], cb[d])'
      <4>1. KeepsAddress(cb[c], cb[d])
        BY <1>0 DEF Linking
      <4>2. CASE c = b \/ d = b
        BY <2>2, <2>4, <4>2 DEF KeepsAddress, Finding
      <4>3. CASE c # b /\ d # b
        BY <1>1, <2>4, <4>1, <4>3 DEF KeepsAddress
      <4> QED BY <4>2, <4>3
    <3> QED BY <3>1, <3>2 DEF Linking
  <2>12. FlowInv'
    BY <1>0, <1>1, <2>2, <2>3, FlowMove DEF OIDC!Stays
  <2> QED BY <2>6, <2>7, <2>8, <2>9, <2>10, <2>11, <2>12 DEF OInv
<1> QED BY <1>3, <1>4, NoneIsNone DEF OIDC!LinkIdentity, OIDC!Move, OIDC!Live

LEMMA UpdateUserKeeps ==
  ASSUME OInv, NEW b \in Browsers, OIDC!UpdateUser(b)
  PROVE  OInv'
<1>0. OTypes /\ Shape /\ UniqueEmails /\ LiveRefs /\ Linking /\ Handed /\ FlowInv
  BY DEF OInv
<1>1. UNCHANGED <<code, identity, claim>> /\ OIDC!Stays /\ cb[b].at = "update"
  BY DEF OIDC!UpdateUser, OIDC!Stays
<1> DEFINE q == cb[b]  r == [q EXCEPT !.at = "handoff"]
<1>2. /\ q \in Callbacks /\ ShapeOf(q) /\ q.sub \in Subjects /\ q.flow \in Flows /\ q.acct \in Accounts
      /\ q.row \in UserRows /\ q.row.email \in Emails /\ FoundIsLinked(q)
  BY <1>0, <1>1, CallbackFields DEF Shape, ShapeOf, OTypes, Linking, Found
<1>c. q.row.email # None
  BY <1>2, NoneAssumption DEF None
<1>3. CASE cb' = [cb EXCEPT ![b] = OIDC!Rest] /\ UNCHANGED <<account, moved>>
  BY <1>1, <1>3, EndingStep DEF World, OIDC!Stays
<1>4. CASE /\ account[q.acct].email # None /\ OIDC!Holder(q.row.email) \ {q.acct} = {}
           /\ account' = [account EXCEPT ![q.acct] = q.row] /\ cb' = [cb EXCEPT ![b] = r]
           /\ moved' = IF q.row.email = account[q.acct].email THEN moved ELSE moved \cup OIDC!Affected(q)
  <2>1. r \in Callbacks
    BY <1>2, CallbackEdits
  <2>2. /\ r.at = "handoff" /\ r.sub = q.sub /\ r.claim = q.claim /\ r.flow = q.flow /\ r.acct = q.acct
        /\ r.row = q.row
    BY <1>2 DEF Callbacks
  <2>3. Moved(b, r)
    BY <1>4, <2>1 DEF Moved
  <2> HIDE DEF r
  <2>4. \A c \in Browsers : cb'[c] = IF c = b THEN r ELSE cb[c]
    BY <1>0, <2>3, MovedCallbacks DEF OTypes
  <2>5. /\ account' \in [Accounts -> UserRows]
        /\ \A x \in Accounts : account'[x] = IF x = q.acct THEN q.row ELSE account[x]
    BY <1>0, <1>2, <1>4 DEF OTypes
  <2>6. moved \subseteq moved' /\ moved' \subseteq Subjects
    BY <1>0, <1>4 DEF OTypes, OIDC!Affected
  \* Another person whose account it is counts as moved, unless the address stays.
  <2>7. \A c \in Browsers : (/\ cb[c].sub \in Subjects /\ cb[c].sub # q.sub
                             /\ q.acct \in {identity[cb[c].sub], cb[c].acct}
                             /\ q.row.email # account[q.acct].email) => cb[c].sub \in moved'
    BY <1>4 DEF OIDC!Affected
  <2>8. \A x \in Accounts : account'[x].email # None <=> account[x].email # None
    <3>1. account'[q.acct].email # None /\ account[q.acct].email # None
      BY <1>2, <1>4, <1>c, <2>5
    <3> QED BY <2>5, <3>1
  <2>9. OTypes'
    <3>1. cb' \in [Browsers -> Callbacks]
      BY <1>0, <2>3, MovedCallbacks DEF OTypes
    <3> QED BY <1>0, <1>1, <2>5, <2>6, <3>1 DEF OTypes, OIDC!Stays
  <2>10. Shape'
    <3>0. q.row # OIDC!NoAccount
      BY <1>c, NoneIsNone DEF OIDC!NoAccount
    <3>1. ASSUME NEW c \in Browsers PROVE ShapeOf(cb[c])'
      <4>1. CASE c = b
        <5>1. cb'[c] = r /\ account'[q.acct] = q.row
          BY <1>2, <2>4, <2>5, <4>1
        <5> QED BY <1>1, <1>2, <2>2, <2>6, <3>0, <5>1 DEF ShapeOf, Found
      <4>2. CASE c # b
        <5>1. cb'[c] = cb[c] /\ ShapeOf(cb[c])
          BY <1>0, <2>4, <4>2 DEF Shape
        <5>2. cb[c].at \in {"link"} \cup Found => account'[cb[c].acct] # OIDC!NoAccount
          BY <2>5, <3>0, <5>1 DEF ShapeOf
        <5> QED BY <1>1, <2>6, <5>1, <5>2 DEF ShapeOf
      <4> QED BY <4>1, <4>2
    <3> QED BY <3>1 DEF Shape
  <2>11. UniqueEmails'
    <3>1. \A x \in Accounts \ {q.acct} : account[x].email # q.row.email
      BY <1>4 DEF OIDC!Holder
    <3> QED BY <1>0, <2>5, <3>1 DEF UniqueEmails
  <2>12. LiveRefs'
    BY <1>0, <1>1, <2>8 DEF LiveRefs, OIDC!Stays, OTypes
  <2>13. Handed'
    BY <1>0, <1>1, <2>6 DEF Handed, OIDC!Stays
  <2>14. Linking'
    <3>1. ASSUME NEW c \in Browsers
          PROVE  (ToBeLinked(cb[c]) /\ LinkedMeanwhile(cb[c]) /\ FoundIsLinked(cb[c]))'
      <4>1. CASE c = b
        <5>1. cb'[c] = r
          BY <2>4, <4>1
        <5>2. FoundIsLinked(cb[c])'
          BY <1>1, <1>2, <1>4, <2>2, <2>6, <5>1 DEF FoundIsLinked, Found
        <5>3. (ToBeLinked(cb[c]) /\ LinkedMeanwhile(cb[c]))'
          BY <2>2, <5>1 DEF ToBeLinked, LinkedMeanwhile, Finding
        <5> QED BY <5>2, <5>3
      <4>2. CASE c # b
        <5>1. /\ cb'[c] = cb[c] /\ ShapeOf(cb[c]) /\ ToBeLinked(cb[c]) /\ LinkedMeanwhile(cb[c])
              /\ FoundIsLinked(cb[c]) /\ KeepsAddress(q, cb[c])
          BY <1>0, <2>4, <4>2 DEF Shape, Linking
        <5>2. cb[c].at \in Finding \cup Found => cb[c].sub \in Subjects
          BY <5>1 DEF ShapeOf, Finding, Found
        \* The address of an account that concerns c is that of its person before and after.
        <5>3. ASSUME NEW x \in Accounts, x \in {identity[cb[c].sub], cb[c].acct}, cb[c].at \in Finding,
                     cb[c].sub \notin moved', account[x].email = claim[cb[c].sub].email
              PROVE  account'[x].email = claim[cb[c].sub].email
          <6>1. CASE x # q.acct
            BY <2>5, <5>3, <6>1
          <6>2. CASE x = q.acct /\ cb[c].sub # q.sub
            BY <2>5, <2>7, <5>2, <5>3, <6>2
          <6>3. CASE x = q.acct /\ cb[c].sub = q.sub
            BY <1>1, <1>4, <2>5, <2>6, <5>1, <5>3, <6>3 DEF KeepsAddress
          <6> QED BY <6>1, <6>2, <6>3
        <5>4. ToBeLinked(cb[c])'
          <6> SUFFICES ASSUME cb[c].at = "link", cb[c].sub \notin moved', account'[cb[c].acct].email # None
                       PROVE  account'[cb[c].acct].email = claim[cb[c].sub].email
            BY <1>1, <5>1 DEF ToBeLinked
          <6>1. cb[c].acct \in Accounts
            BY <5>1 DEF ShapeOf
          <6> QED BY <2>6, <2>8, <5>1, <5>3, <6>1 DEF ToBeLinked, Finding
        <5>5. LinkedMeanwhile(cb[c])'
          <6> SUFFICES ASSUME cb[c].at \in Finding, cb[c].sub \notin moved', identity[cb[c].sub] # None
                       PROVE  account'[identity[cb[c].sub]].email = claim[cb[c].sub].email
            BY <1>1, <5>1 DEF LinkedMeanwhile
          <6>1. identity[cb[c].sub] \in Accounts
            BY <1>0, <5>2 DEF OTypes
          <6> QED BY <2>6, <5>1, <5>3, <6>1 DEF LinkedMeanwhile
        <5>6. FoundIsLinked(cb[c])'
          <6> SUFFICES ASSUME cb[c].at \in Found, cb[c].sub \notin moved', account'[cb[c].acct].email # None
                       PROVE  identity[cb[c].sub] = cb[c].acct
            BY <1>1, <5>1 DEF FoundIsLinked
          <6>1. cb[c].acct \in Accounts
            BY <5>1 DEF ShapeOf
          <6> QED BY <2>6, <2>8, <5>1, <6>1 DEF FoundIsLinked
        <5> QED BY <5>4, <5>5, <5>6
      <4> QED BY <4>1, <4>2
    <3>2. ASSUME NEW c \in Browsers, NEW d \in Browsers PROVE KeepsAddress(cb[c], cb[d])'
      <4>1. CASE c = b \/ d = b
        BY <2>2, <2>4, <4>1 DEF KeepsAddress, Finding
      <4>2. CASE c # b /\ d # b
        <5>1. cb'[c] = cb[c] /\ cb'[d] = cb[d] /\ KeepsAddress(cb[c], cb[d]) /\ ShapeOf(cb[c])
          BY <1>0, <2>4, <4>2 DEF Linking, Shape
        <5>2. cb[c].at = "update" => cb[c].acct \in Accounts
          BY <5>1 DEF ShapeOf, Found
        <5> QED BY <1>1, <2>6, <2>8, <5>1, <5>2 DEF KeepsAddress
      <4> QED BY <4>1, <4>2
    <3> QED BY <3>1, <3>2 DEF Linking
  <2>15. FlowInv'
    BY <1>0, <1>1, <2>2, <2>3, FlowMove DEF OIDC!Stays
  <2> QED BY <2>9, <2>10, <2>11, <2>12, <2>13, <2>14, <2>15 DEF OInv
<1> QED BY <1>3, <1>4, NoneIsNone DEF OIDC!UpdateUser, OIDC!Move, OIDC!Live

LEMMA CreateHandoffKeeps ==
  ASSUME OInv, NEW b \in Browsers, OIDC!CreateHandoffCode(b)
  PROVE  OInv'
<1>0. OTypes /\ Shape /\ UniqueEmails /\ LiveRefs /\ Linking /\ Handed /\ FlowInv
  BY DEF OInv
<1>1. /\ UNCHANGED <<states, issued, cookie, session, World>> /\ cb[b].at = "handoff"
      /\ cb' = [cb EXCEPT ![b] = OIDC!Rest]
      /\ handoff' = handoff \/ (account[cb[b].acct].email # None /\ handoff' = OIDC!With(handoff, cb[b].flow, cb[b].acct))
  BY NoneIsNone DEF OIDC!CreateHandoffCode, OIDC!Move, OIDC!Live, World
<1>2. CASE handoff' = handoff
  BY <1>1, <1>2, EndingStep DEF World, OIDC!Stays
<1>3. CASE account[cb[b].acct].email # None /\ handoff' = OIDC!With(handoff, cb[b].flow, cb[b].acct)
  <2> DEFINE f == cb[b].flow  a == cb[b].acct
  <2>1. ShapeOf(cb[b]) /\ FoundIsLinked(cb[b])
    BY <1>0 DEF Shape, Linking
  <2>2. f \in Flows /\ a \in Accounts /\ code[f] = cb[b].sub /\ cb[b].sub \in Subjects
    BY <1>1, <2>1 DEF ShapeOf, Found
  <2>3. /\ DOMAIN handoff' = DOMAIN handoff \cup {f}
        /\ \A g \in DOMAIN handoff' : handoff'[g] = IF g = f THEN a ELSE handoff[g]
    BY <1>3 DEF OIDC!With
  <2>4. Moved(b, OIDC!Rest)
    BY <1>1, RestTyped DEF Moved
  <2>5. \A c \in Browsers : cb'[c] = IF c = b THEN OIDC!Rest ELSE cb[c]
    BY <1>0, <2>4, MovedCallbacks DEF OTypes
  <2>6. OTypes'
    <3>1. cb' \in [Browsers -> Callbacks]
      BY <1>0, <2>4, MovedCallbacks DEF OTypes
    <3>2. DOMAIN handoff' \subseteq Flows /\ \A g \in DOMAIN handoff' : handoff'[g] \in Accounts
      BY <1>0, <2>2, <2>3 DEF OTypes
    <3> QED BY <1>0, <1>1, <3>1, <3>2 DEF OTypes, World
  <2>7. Shape' /\ UniqueEmails' /\ Linking'
    BY <1>0, <1>1, CallbackEnds
  <2>8. LiveRefs'
    BY <1>0, <1>1, <1>3, <2>2, <2>3 DEF LiveRefs, World
  <2>9. Handed'
    <3>1. code[f] \notin moved => identity[code[f]] = a
      BY <1>1, <1>3, <2>1, <2>2 DEF FoundIsLinked, Found
    <3> QED BY <1>0, <1>1, <2>3, <3>1 DEF Handed, World
  <2>10. FlowInv'
    <3>n. f # None
      BY <2>2, NoneAssumption DEF None
    <3>1. f \notin DOMAIN states /\ (\A x \in session : x.flow # f) /\ issued[f] = b
      BY <1>0, <3>n DEF FlowInv, FlowOf
    <3>2. \A c \in Browsers : cb'[c].flow # None => cb'[c].flow = cb[c].flow /\ cb[c].flow # f
      BY <1>0, <2>5, <3>1, RestTyped DEF FlowInv
    <3>3. \A c \in Browsers : FlowOf(cb[c])'
      BY <1>0, <1>1, <2>3, <3>2 DEF FlowInv, FlowOf
    <3>4. issued[f] # None
      BY <3>1, NoneAssumption DEF None
    <3> QED BY <1>0, <1>1, <2>3, <3>1, <3>2, <3>3, <3>4 DEF FlowInv
  <2> QED BY <2>6, <2>7, <2>8, <2>9, <2>10 DEF OInv
<1> QED BY <1>1, <1>2, <1>3

LEMMA ExchangeCodeKeeps ==
  ASSUME OInv, NEW f \in Flows, OIDC!ExchangeOidcCode(f)
  PROVE  OInv'
<1>0. OTypes /\ Shape /\ UniqueEmails /\ LiveRefs /\ Linking /\ Handed /\ FlowInv
  BY DEF OInv
<1>1. /\ f \in DOMAIN handoff /\ handoff' = OIDC!Without(handoff, f)
      /\ UNCHANGED <<states, issued, cookie, cb, World>>
      /\ session' = session \cup {[flow |-> f, acct |-> handoff[f], at |-> "consumed"]}
  BY DEF OIDC!ExchangeOidcCode, OIDC!ConsumeHandoffCode, World
<1>2. /\ DOMAIN handoff' = DOMAIN handoff \ {f} /\ \A g \in DOMAIN handoff' : handoff'[g] = handoff[g]
  BY <1>1 DEF OIDC!Without
<1>3. OTypes'
  <2>1. session' \subseteq Exchanges
    BY <1>0, <1>1 DEF OTypes, Exchanges
  <2>2. DOMAIN handoff' \subseteq Flows /\ \A g \in DOMAIN handoff' : handoff'[g] \in Accounts
    BY <1>0, <1>2 DEF OTypes
  <2> QED BY <1>0, <1>1, <2>1, <2>2 DEF OTypes, World
<1>4. Shape' /\ UniqueEmails' /\ Linking'
  BY <1>0, <1>1, OnlyFlows
<1>5. LiveRefs' /\ Handed'
  BY <1>0, <1>1, <1>2 DEF LiveRefs, Handed, World
<1>6. FlowInv'
  <2>1. \A x \in session' : x \in session \/ x = [flow |-> f, acct |-> handoff[f], at |-> "consumed"]
    BY <1>1
  <2>2. \A x \in session' : x \in session \/ x.flow = f
    BY <2>1
  <2>3. f \notin DOMAIN states /\ (\A x \in session : x.flow # f) /\ issued[f] # None
    BY <1>0, <1>1 DEF FlowInv
  <2>4. \A c \in Browsers : FlowOf(cb[c])'
    <3>1. \A c \in Browsers : cb[c].flow # None => cb[c].flow # f
      BY <1>0, <1>1 DEF FlowInv, FlowOf
    <3> QED BY <1>0, <1>1, <1>2, <2>2, <3>1 DEF FlowInv, FlowOf
  <2>5. \A x, y \in session' : x.flow = y.flow => x = y
    BY <1>0, <2>1, <2>2, <2>3 DEF FlowInv
  <2>6. \A g \in Flows : issued[g] = None => /\ g \notin DOMAIN states /\ g \notin DOMAIN handoff'
                                             /\ \A x \in session' : x.flow # g
    BY <1>0, <1>2, <2>2, <2>3 DEF FlowInv
  <2>7. \A g \in DOMAIN states : g \notin DOMAIN handoff' /\ \A x \in session' : x.flow # g
    BY <1>0, <1>2, <2>2, <2>3 DEF FlowInv
  <2>8. \A g \in DOMAIN handoff' : \A x \in session' : x.flow # g
    BY <1>0, <1>2, <2>2 DEF FlowInv
  <2> QED BY <1>0, <1>1, <2>4, <2>5, <2>6, <2>7, <2>8 DEF FlowInv
<1> QED BY <1>3, <1>4, <1>5, <1>6 DEF OInv

\* An exchange goes on, or fails: it stays the only one of its flow.
LEMMA ExchangeHandoffKeeps ==
  ASSUME OInv, NEW x \in session, OIDC!ExchangeHandoff(x)
  PROVE  OInv'
<1>0. OTypes /\ Shape /\ UniqueEmails /\ LiveRefs /\ Linking /\ Handed /\ FlowInv
  BY DEF OInv
<1>1. UNCHANGED <<states, issued, cookie, cb, handoff, World>>
  BY DEF OIDC!ExchangeHandoff, World
<1>2. x \in Exchanges
  BY <1>0 DEF OTypes
<1>3. PICK y \in Exchanges : y.flow = x.flow /\ session' \subseteq (session \ {x}) \cup {y}
  <2>1. CASE session' = session \ {x}
    BY <1>2, <2>1
  <2>2. ASSUME NEW a \in {"checked", "open"}, session' = (session \ {x}) \cup {[x EXCEPT !.at = a]}
        PROVE  \E y \in Exchanges : y.flow = x.flow /\ session' \subseteq (session \ {x}) \cup {y}
    <3>1. [x EXCEPT !.at = a] \in Exchanges /\ [x EXCEPT !.at = a].flow = x.flow
      BY <1>2 DEF Exchanges
    <3> QED BY <2>2, <3>1
  <2> QED BY <2>1, <2>2 DEF OIDC!ExchangeHandoff
<1>4. OTypes'
  <2>1. session' \subseteq Exchanges
    BY <1>0, <1>3 DEF OTypes
  <2> QED BY <1>0, <1>1, <2>1 DEF OTypes, World
<1>5. Shape' /\ UniqueEmails' /\ Linking'
  BY <1>0, <1>1, OnlyFlows
<1>6. LiveRefs' /\ Handed'
  BY <1>0, <1>1 DEF LiveRefs, Handed, World
<1>7. FlowInv'
  <2>1. \A z \in session' : \E w \in session : z.flow = w.flow
    BY <1>3
  <2>2. \A z, w \in session' : z.flow = w.flow => z = w
    BY <1>0, <1>3 DEF FlowInv
  <2>3. \A c \in Browsers : FlowOf(cb[c])'
    BY <1>0, <1>1, <2>1 DEF FlowInv, FlowOf
  <2> QED BY <1>0, <1>1, <2>1, <2>2, <2>3 DEF FlowInv
<1> QED BY <1>4, <1>5, <1>6, <1>7 DEF OInv

LEMMA ExpireKeeps ==
  ASSUME OInv, NEW f \in Flows, OIDC!Expire(f)
  PROVE  OInv'
<1>0. OTypes /\ Shape /\ UniqueEmails /\ LiveRefs /\ Linking /\ Handed /\ FlowInv
  BY DEF OInv
<1>1. /\ states' = OIDC!Without(states, f) /\ handoff' = OIDC!Without(handoff, f)
      /\ UNCHANGED <<issued, cookie, cb, session, World>>
  BY DEF OIDC!Expire, World
<1>2. /\ DOMAIN handoff' = DOMAIN handoff \ {f} /\ \A g \in DOMAIN handoff' : handoff'[g] = handoff[g]
      /\ DOMAIN states' = DOMAIN states \ {f} /\ \A g \in DOMAIN states' : states'[g] = states[g]
  BY <1>1 DEF OIDC!Without
<1>3. OTypes'
  BY <1>0, <1>1, <1>2 DEF OTypes, World
<1>4. Shape' /\ UniqueEmails' /\ Linking'
  BY <1>0, <1>1, OnlyFlows
<1>5. LiveRefs' /\ Handed'
  BY <1>0, <1>1, <1>2 DEF LiveRefs, Handed, World
<1>6. FlowInv'
  BY <1>0, <1>1, <1>2, FlowShrink
<1> QED BY <1>3, <1>4, <1>5, <1>6 DEF OInv

LEMMA ChangeClaimKeeps ==
  ASSUME OInv, NEW s \in Subjects, OIDC!ChangeClaim(s)
  PROVE  OInv'
<1>0. OTypes /\ Shape /\ UniqueEmails /\ LiveRefs /\ Linking /\ Handed /\ FlowInv
  BY DEF OInv
<1>1. PICK c \in OIDC!Claims : claim' = [claim EXCEPT ![s] = c]
  BY DEF OIDC!ChangeClaim
<1>2. /\ moved' = IF \E b \in Browsers : cb[b].sub = s THEN moved \cup {s} ELSE moved
      /\ UNCHANGED <<states, issued, cookie, code, identity, account, cb, handoff, session>>
  BY DEF OIDC!ChangeClaim
<1>3. moved \subseteq moved' /\ moved' \subseteq Subjects /\ claim' \in [Subjects -> OIDC!Claims]
  BY <1>0, <1>1, <1>2 DEF OTypes
<1>4. \A b \in Browsers : cb[b].sub \in Subjects /\ cb[b].sub \notin moved' => claim'[cb[b].sub] = claim[cb[b].sub]
  BY <1>0, <1>1, <1>2 DEF OTypes
<1>5. OTypes'
  BY <1>0, <1>2, <1>3 DEF OTypes
<1>6. Shape'
  <2>1. ASSUME NEW b \in Browsers PROVE ShapeOf(cb[b])'
    <3>1. ShapeOf(cb[b])
      BY <1>0 DEF Shape
    <3> QED BY <1>2, <1>3, <1>4, <3>1 DEF ShapeOf
  <2> QED BY <2>1 DEF Shape
<1>7. UniqueEmails' /\ LiveRefs' /\ Handed'
  BY <1>0, <1>2, <1>3 DEF UniqueEmails, LiveRefs, Handed
<1>8. Linking'
  <2>1. ASSUME NEW b \in Browsers
        PROVE  (ToBeLinked(cb[b]) /\ LinkedMeanwhile(cb[b]) /\ FoundIsLinked(cb[b]))'
    <3>1. ShapeOf(cb[b]) /\ ToBeLinked(cb[b]) /\ LinkedMeanwhile(cb[b]) /\ FoundIsLinked(cb[b])
      BY <1>0 DEF Shape, Linking
    <3>2. cb[b].at \in Finding \cup Found => cb[b].sub \in Subjects
      BY <3>1 DEF ShapeOf, Finding, Found
    <3>3. ToBeLinked(cb[b])' /\ LinkedMeanwhile(cb[b])'
      BY <1>2, <1>3, <1>4, <3>1, <3>2 DEF ToBeLinked, LinkedMeanwhile, Finding
    <3>4. FoundIsLinked(cb[b])'
      BY <1>2, <1>3, <3>1 DEF FoundIsLinked
    <3> QED BY <3>3, <3>4
  <2>2. ASSUME NEW b \in Browsers, NEW d \in Browsers PROVE KeepsAddress(cb[b], cb[d])'
    <3>1. KeepsAddress(cb[b], cb[d]) /\ ShapeOf(cb[b])
      BY <1>0 DEF Linking, Shape
    <3>2. cb[b].at = "update" => cb[b].sub \in Subjects
      BY <3>1 DEF ShapeOf
    <3> QED BY <1>2, <1>3, <1>4, <3>1, <3>2 DEF KeepsAddress
  <2> QED BY <2>1, <2>2 DEF Linking
<1>9. FlowInv'
  BY <1>0, <1>2, FlowShrink
<1> QED BY <1>5, <1>6, <1>7, <1>8, <1>9 DEF OInv

LEMMA DisableUserKeeps ==
  ASSUME OInv, NEW a \in Accounts, OIDC!DisableUser(a)
  PROVE  OInv'
<1>0. OTypes /\ Shape /\ UniqueEmails /\ LiveRefs /\ Linking /\ Handed /\ FlowInv
  BY DEF OInv
<1>1. /\ account' = [account EXCEPT ![a].disabled = TRUE] /\ account[a].email # None
      /\ UNCHANGED <<states, issued, cookie, code, identity, claim, cb, handoff, session, moved>>
  BY NoneIsNone DEF OIDC!DisableUser, OIDC!Live
<1>2. /\ account' \in [Accounts -> UserRows] /\ \A x \in Accounts : account'[x].email = account[x].email
  BY <1>0, <1>1 DEF OTypes, UserRows
<1>3. \A x \in Accounts : account[x] # OIDC!NoAccount => account'[x] # OIDC!NoAccount
  <2>1. \A x \in Accounts \ {a} : account'[x] = account[x]
    BY <1>0, <1>1 DEF OTypes
  <2>2. account'[a] # OIDC!NoAccount
    BY <1>1, <1>2, NoneIsNone DEF OIDC!NoAccount
  <2> QED BY <2>1, <2>2
<1>4. OTypes'
  BY <1>0, <1>1, <1>2 DEF OTypes
<1>5. Shape'
  <2>1. ASSUME NEW b \in Browsers PROVE ShapeOf(cb[b])'
    <3>1. ShapeOf(cb[b])
      BY <1>0 DEF Shape
    <3> QED BY <1>1, <1>3, <3>1 DEF ShapeOf
  <2> QED BY <2>1 DEF Shape
<1>6. UniqueEmails' /\ LiveRefs' /\ Handed'
  <2>1. UniqueEmails'
    BY <1>0, <1>2 DEF UniqueEmails
  <2>2. LiveRefs'
    BY <1>0, <1>1, <1>2 DEF LiveRefs, OTypes
  <2> QED BY <1>0, <1>1, <2>1, <2>2 DEF Handed
<1>7. Linking'
  <2>1. ASSUME NEW b \in Browsers
        PROVE  (ToBeLinked(cb[b]) /\ LinkedMeanwhile(cb[b]) /\ FoundIsLinked(cb[b]))'
    <3>1. ShapeOf(cb[b]) /\ ToBeLinked(cb[b]) /\ LinkedMeanwhile(cb[b]) /\ FoundIsLinked(cb[b])
      BY <1>0 DEF Shape, Linking
    <3>2. cb[b].at \in {"link"} \cup Found => cb[b].acct \in Accounts
      BY <3>1 DEF ShapeOf
    <3>3. cb[b].at \in Finding => cb[b].sub \in Subjects
      BY <3>1 DEF ShapeOf, Finding
    <3>4. ToBeLinked(cb[b])' /\ FoundIsLinked(cb[b])'
      BY <1>1, <1>2, <3>1, <3>2 DEF ToBeLinked, FoundIsLinked
    <3>5. LinkedMeanwhile(cb[b])'
      BY <1>0, <1>1, <1>2, <3>1, <3>3 DEF LinkedMeanwhile, OTypes
    <3> QED BY <3>4, <3>5
  <2>2. ASSUME NEW b \in Browsers, NEW d \in Browsers PROVE KeepsAddress(cb[b], cb[d])'
    <3>1. KeepsAddress(cb[b], cb[d]) /\ ShapeOf(cb[b])
      BY <1>0 DEF Linking, Shape
    <3>2. cb[b].at = "update" => cb[b].acct \in Accounts
      BY <3>1 DEF ShapeOf, Found
    <3> QED BY <1>1, <1>2, <3>1, <3>2 DEF KeepsAddress
  <2> QED BY <2>1, <2>2 DEF Linking
<1>8. FlowInv'
  BY <1>0, <1>1, FlowShrink
<1> QED BY <1>4, <1>5, <1>6, <1>7, <1>8 DEF OInv

LEMMA DeleteUserKeeps ==
  ASSUME OInv, NEW a \in Accounts, OIDC!DeleteUser(a)
  PROVE  OInv'
<1>0. OTypes /\ Shape /\ UniqueEmails /\ LiveRefs /\ Linking /\ Handed /\ FlowInv
  BY DEF OInv
<1>1. /\ account' = [account EXCEPT ![a] = OIDC!Deleted] /\ account[a].email # None
      /\ identity' = [s \in Subjects |-> IF identity[s] = a THEN None ELSE identity[s]]
      /\ handoff' = [f \in {g \in DOMAIN handoff : handoff[g] # a} |-> handoff[f]]
      /\ session' = {x \in session : x.acct # a}
      /\ UNCHANGED <<states, issued, cookie, code, claim, cb, moved>>
  BY NoneIsNone DEF OIDC!DeleteUser, OIDC!Live
<1>2. OIDC!Deleted \in UserRows /\ OIDC!Deleted.email = None /\ OIDC!Deleted # OIDC!NoAccount
  BY DEF OIDC!Deleted, OIDC!NoAccount, OIDC!None, None, UserRows
<1>3. /\ account' \in [Accounts -> UserRows]
      /\ \A x \in Accounts : account'[x] = IF x = a THEN OIDC!Deleted ELSE account[x]
  BY <1>0, <1>1, <1>2 DEF OTypes
<1>4. /\ identity' \in [Subjects -> Accounts \cup {None}]
      /\ \A s \in Subjects : identity'[s] = IF identity[s] = a THEN None ELSE identity[s]
  BY <1>0, <1>1 DEF OTypes
<1>5. /\ DOMAIN handoff' \subseteq DOMAIN handoff
      /\ \A f \in DOMAIN handoff' : handoff'[f] = handoff[f] /\ handoff[f] # a
  BY <1>1
<1>6. \A x \in Accounts : account'[x].email # None => x # a /\ account[x].email # None /\ account'[x] = account[x]
  BY <1>2, <1>3
<1>7. OTypes'
  BY <1>0, <1>1, <1>3, <1>4, <1>5 DEF OTypes
<1>8. Shape'
  <2>1. ASSUME NEW b \in Browsers PROVE ShapeOf(cb[b])'
    <3>1. ShapeOf(cb[b])
      BY <1>0 DEF Shape
    <3>2. cb[b].at \in {"link"} \cup Found => account'[cb[b].acct] # OIDC!NoAccount
      BY <1>2, <1>3, <3>1 DEF ShapeOf
    <3> QED BY <1>1, <3>1, <3>2 DEF ShapeOf
  <2> QED BY <2>1 DEF Shape
<1>9. UniqueEmails'
  BY <1>0, <1>2, <1>3 DEF UniqueEmails
<1>10. LiveRefs'
  <2>1. \A s \in Subjects : identity'[s] # None => account'[identity'[s]].email # None
    BY <1>0, <1>3, <1>4 DEF LiveRefs, OTypes
  <2>2. \A f \in DOMAIN handoff' : account'[handoff'[f]].email # None /\ code[f] \in Subjects
    BY <1>0, <1>3, <1>5 DEF LiveRefs, OTypes
  <2> QED BY <1>1, <2>1, <2>2 DEF LiveRefs
<1>11. Handed'
  <2>1. \A f \in DOMAIN handoff' : code[f] \notin moved => identity'[code[f]] = handoff'[f]
    BY <1>0, <1>4, <1>5 DEF Handed, LiveRefs
  <2> QED BY <1>1, <2>1 DEF Handed
<1>12. Linking'
  <2>1. ASSUME NEW b \in Browsers
        PROVE  (ToBeLinked(cb[b]) /\ LinkedMeanwhile(cb[b]) /\ FoundIsLinked(cb[b]))'
    <3>1. ShapeOf(cb[b]) /\ ToBeLinked(cb[b]) /\ LinkedMeanwhile(cb[b]) /\ FoundIsLinked(cb[b])
      BY <1>0 DEF Shape, Linking
    <3>2. cb[b].at \in {"link"} \cup Found => cb[b].acct \in Accounts
      BY <3>1 DEF ShapeOf
    <3>3. cb[b].at \in Finding \cup Found => cb[b].sub \in Subjects
      BY <3>1 DEF ShapeOf, Finding, Found
    <3>4. ToBeLinked(cb[b])'
      BY <1>1, <1>6, <3>1, <3>2 DEF ToBeLinked
    <3>5. LinkedMeanwhile(cb[b])'
      BY <1>0, <1>1, <1>3, <1>4, <3>1, <3>3 DEF LinkedMeanwhile, OTypes
    <3>6. FoundIsLinked(cb[b])'
      BY <1>1, <1>4, <1>6, <3>1, <3>2, <3>3 DEF FoundIsLinked
    <3> QED BY <3>4, <3>5, <3>6
  <2>2. ASSUME NEW b \in Browsers, NEW d \in Browsers PROVE KeepsAddress(cb[b], cb[d])'
    <3>1. KeepsAddress(cb[b], cb[d]) /\ ShapeOf(cb[b])
      BY <1>0 DEF Linking, Shape
    <3>2. cb[b].at = "update" => cb[b].acct \in Accounts
      BY <3>1 DEF ShapeOf, Found
    <3> QED BY <1>1, <1>6, <3>1, <3>2 DEF KeepsAddress
  <2> QED BY <2>1, <2>2 DEF Linking
<1>13. FlowInv'
  BY <1>0, <1>1, <1>5, FlowShrink
<1> QED BY <1>7, <1>8, <1>9, <1>10, <1>11, <1>12, <1>13 DEF OInv

-----------------------------------------------------------------------------
(* The logins through a provider, put together. *)

LEMMA OInit == OIDC!Init => OInv
<1> SUFFICES ASSUME OIDC!Init PROVE OInv
  OBVIOUS
<1>1. /\ states = [f \in {} |-> None] /\ issued = [f \in Flows |-> None]
      /\ cookie = [b \in Browsers |-> None] /\ code = [f \in Flows |-> None]
      /\ identity = [s \in Subjects |-> None] /\ claim \in [Subjects -> OIDC!Claims]
      /\ cb = [b \in Browsers |-> OIDC!Rest] /\ handoff = [f \in {} |-> None]
      /\ session = {} /\ moved = {}
  BY NoneIsNone DEF OIDC!Init
<1>2. PICK a \in Accounts, e \in Emails :
        account \in {[x \in Accounts |-> OIDC!NoAccount],
                     [x \in Accounts |-> IF x = a THEN [OIDC!NoAccount EXCEPT !.email = e, !.verified = TRUE]
                                         ELSE OIDC!NoAccount]}
  BY DEF OIDC!Init
<1>3. /\ OIDC!NoAccount \in UserRows /\ OIDC!NoAccount.email = None
      /\ [OIDC!NoAccount EXCEPT !.email = e, !.verified = TRUE] \in UserRows
  BY DEF OIDC!NoAccount, OIDC!None, None, UserRows
<1>4. /\ account \in [Accounts -> UserRows]
      /\ \A x \in Accounts : account[x].email # None => x = a
  BY <1>2, <1>3
<1>5. DOMAIN states = {} /\ DOMAIN handoff = {}
  BY <1>1
<1>6. \A b \in Browsers : cb[b] = OIDC!Rest /\ cb[b].at = "idle" /\ cb[b].flow = None /\ cb[b].sub = None
  BY <1>1, RestTyped
<1>7. OTypes
  <2>1. cb \in [Browsers -> Callbacks]
    BY <1>1, RestTyped
  <2> QED BY <1>1, <1>4, <1>5, <2>1 DEF OTypes
<1>8. Shape
  BY <1>6, RestTyped DEF Shape, ShapeOf, Found
<1>9. UniqueEmails
  BY <1>4 DEF UniqueEmails
<1>10. LiveRefs /\ Handed
  BY <1>1, <1>5 DEF LiveRefs, Handed
<1>11. Linking
  BY <1>6 DEF Linking, ToBeLinked, LinkedMeanwhile, FoundIsLinked, KeepsAddress, Finding, Found
<1>12. FlowInv
  BY <1>1, <1>5, <1>6 DEF FlowInv, FlowOf
<1> QED BY <1>7, <1>8, <1>9, <1>10, <1>11, <1>12 DEF OInv

LEMMA ONext == OInv /\ OIDC!Next => OInv'
<1> SUFFICES ASSUME OInv, OIDC!Next PROVE OInv'
  OBVIOUS
<1>1. CASE \E b \in Browsers : \/ OIDC!AuthorizeOidc(b) \/ OIDC!Exchange(b) \/ OIDC!Provision(b)
                               \/ OIDC!CreateHandoffCode(b) \/ OIDC!CallbackFails(b)
                               \/ \E f \in Flows : OIDC!Callback(b, f)
  BY <1>1, AuthorizeKeeps, ExchangeKeeps, GetBySubjectKeeps, GetByEmailKeeps, CreateUserKeeps, LinkIdentityKeeps,
     SyncKeeps, UpdateUserKeeps, CreateHandoffKeeps, CallbackFailsKeeps, CallbackKeeps DEF OIDC!Provision
<1>2. CASE \E f \in Flows : OIDC!Authenticate(f) \/ OIDC!ExchangeOidcCode(f) \/ OIDC!Expire(f)
  BY <1>2, AuthenticateKeeps, ExchangeCodeKeeps, ExpireKeeps
<1>3. CASE \E s \in Subjects : OIDC!ChangeClaim(s)
  BY <1>3, ChangeClaimKeeps
<1>4. CASE \E a \in Accounts : OIDC!DisableUser(a) \/ OIDC!DeleteUser(a)
  BY <1>4, DisableUserKeeps, DeleteUserKeeps
<1>5. CASE \E x \in session : OIDC!ExchangeHandoff(x)
  BY <1>5, ExchangeHandoffKeeps
<1> QED BY <1>1, <1>2, <1>3, <1>4, <1>5 DEF OIDC!Next

\* A set without two different members has at most one.
LEMMA AtMostOne ==
  ASSUME NEW S, \A x, y \in S : x = y
  PROVE  Cardinality(S) \in Nat /\ Cardinality(S) <= 1 /\ (S = {} <=> Cardinality(S) = 0)
<1>1. CASE S = {}
  BY <1>1, FS_EmptySet
<1>2. CASE S # {}
  <2>1. PICK x \in S : S = {x}
    BY <1>2
  <2>2. Cardinality({x}) = 1
    BY FS_Singleton
  <2>3. Cardinality(S) = 1
    BY <2>1, <2>2
  <2> QED BY <1>2, <2>3
<1> QED BY <1>1, <1>2

LEMMA OIDCCardinality == \A S : OIDC!Cardinality(S) = Cardinality(S)
BY Zenon DEF OIDC!Cardinality, Cardinality

LEMMA OSafe == OInv => OIDC!TypeOK /\ OIDC!HandoffIsLinked /\ OIDC!OwnLogin /\ OIDC!OneUsePerFlow
<1> SUFFICES ASSUME OInv PROVE OIDC!TypeOK /\ OIDC!HandoffIsLinked /\ OIDC!OwnLogin /\ OIDC!OneUsePerFlow
  OBVIOUS
<1>0. OTypes /\ Handed /\ FlowInv
  BY DEF OInv
<1>1. OIDC!TypeOK
  <2>1. /\ \A a \in Accounts : account[a].email \in Emails \cup {None}
        /\ \A b \in Browsers : cb[b].at \in {"idle", "consume", "subject", "email", "create", "link", "sync",
                                             "update", "handoff"}
    BY <1>0 DEF OTypes, UserRows, Callbacks
  <2> QED BY <1>0, <2>1, NoneIsNone DEF OTypes, OIDC!TypeOK
<1>2. OIDC!HandoffIsLinked
  BY <1>0 DEF Handed, OIDC!HandoffIsLinked
<1>3. OIDC!OwnLogin
  BY <1>0, NoneIsNone DEF FlowInv, OIDC!OwnLogin
<1>4. OIDC!OneUsePerFlow
  <2> SUFFICES ASSUME NEW f \in Flows
               PROVE  OIDC!Cardinality({b \in Browsers : cb[b].flow = f})
                        + (IF f \in DOMAIN handoff THEN 1 ELSE 0)
                        + (IF f \in DOMAIN states THEN 1 ELSE 0)
                        + OIDC!Cardinality({x \in session : x.flow = f}) <= 1
    BY DEF OIDC!OneUsePerFlow
  <2> DEFINE B == {b \in Browsers : cb[b].flow = f}  X == {x \in session : x.flow = f}
  <2>1. f # None
    BY NoneAssumption DEF None
  <2>2. \A b, c \in B : b = c
    BY <1>0, <2>1 DEF FlowInv
  <2>3. \A x, y \in X : x = y
    BY <1>0 DEF FlowInv
  <2>4. /\ Cardinality(B) \in Nat /\ Cardinality(B) <= 1 /\ (B = {} <=> Cardinality(B) = 0)
        /\ Cardinality(X) \in Nat /\ Cardinality(X) <= 1 /\ (X = {} <=> Cardinality(X) = 0)
    BY <2>2, <2>3, AtMostOne
  <2>5. B # {} => X = {} /\ f \notin DOMAIN handoff /\ f \notin DOMAIN states
    BY <1>0, <2>1 DEF FlowInv, FlowOf
  <2>6. X # {} => f \notin DOMAIN handoff /\ f \notin DOMAIN states
    BY <1>0 DEF FlowInv
  <2>7. ~(f \in DOMAIN handoff /\ f \in DOMAIN states)
    BY <1>0 DEF FlowInv
  <2>8. OIDC!Cardinality(B) = Cardinality(B) /\ OIDC!Cardinality(X) = Cardinality(X)
    BY OIDCCardinality
  <2> HIDE DEF B, X
  <2>9. OIDC!Cardinality(B) + (IF f \in DOMAIN handoff THEN 1 ELSE 0)
          + (IF f \in DOMAIN states THEN 1 ELSE 0) + OIDC!Cardinality(X) <= 1
    BY <2>4, <2>5, <2>6, <2>7, <2>8
  <2> QED BY <2>9 DEF B, X
<1> QED BY <1>1, <1>2, <1>3, <1>4

-----------------------------------------------------------------------------
(* Passkeys. *)

Fins == [at : {"idle", "register", "login", "count", "token"}, user : Users \cup {None},
         cred : Creds \cup {None}, n : Nat]

KeyTypes ==
  /\ DOMAIN ceremony \subseteq Handles
  /\ \A h \in DOMAIN ceremony : /\ ceremony[h].user \in Users \cup {None}
                                /\ ceremony[h].kind \in {"registration", "login"}
  /\ begun \in Seq(Users \cup {None}) /\ evicting \in [Users -> Nat] /\ disabled \subseteq Users
  /\ cred \in [Creds -> Users \cup {None}]
  /\ count \in [Creds -> Nat] /\ device \in [Creds -> Nat]
  /\ fin \in [Handles -> Fins] /\ logins \subseteq [ceremony : Handles, user : Users \cup {None}]

\* Handles are given out in order; a row names the user its ceremony was begun for.
Begun(h) == h \in 1..Len(begun)
RowsBegun == \A h \in DOMAIN ceremony : Begun(h) /\ ceremony[h].user = begun[h]

\* A ceremony is open, being finished or done, each excluding the others.
Finishing == \A h \in Handles : fin[h] # Passkeys!Rest => /\ h \notin DOMAIN ceremony /\ Begun(h)
                                                          /\ begun[h] \in {None, fin[h].user}
LoggedIn == /\ \A l \in logins : /\ l.ceremony \notin DOMAIN ceremony /\ Begun(l.ceremony)
                                 /\ fin[l.ceremony] = Passkeys!Rest
            /\ \A l, m \in logins : l.ceremony = m.ceremony => l = m

KeyOpenOf(u) == {h \in DOMAIN ceremony : ceremony[h].user = u}
Bounded == \A u \in Users : Cardinality(KeyOpenOf(u)) <= MaxOpenCeremonies + evicting[u]

KeyInv == KeyTypes /\ RowsBegun /\ Finishing /\ LoggedIn /\ Bounded

-----------------------------------------------------------------------------
LEMMA KeysCardinality == \A S : Passkeys!Cardinality(S) = Cardinality(S)
BY Zenon DEF Passkeys!Cardinality, Cardinality

LEMMA KeysNone == Passkeys!None = None
BY DEF Passkeys!None, None

LEMMA NobodyIsNone == None \notin Users
BY NoneAssumption DEF None

LEMMA RestIsFin == Passkeys!Rest \in Fins
BY DEF Passkeys!Rest, Fins, Passkeys!None, None

\* Of a finite set of numbers at most n have fewer than n greater ones in the set: two of
\* them with the same number of greater ones would be the same.
LEMMA NewestBounded ==
  ASSUME NEW S \in SUBSET Nat, IsFiniteSet(S), NEW n \in Nat
  PROVE  Cardinality({h \in S : Cardinality({g \in S : g > h}) < n}) <= n
<1> DEFINE Above(h) == {g \in S : g > h}
           T == {h \in S : Cardinality(Above(h)) < n}
<1>1. \A h \in S : IsFiniteSet(Above(h)) /\ Cardinality(Above(h)) \in Nat
  BY FS_Subset, FS_CardinalityType
<1>2. IsFiniteSet(T) /\ Cardinality(T) \in Nat
  BY FS_Subset, FS_CardinalityType
<1>3. IsFiniteSet(0..(n - 1)) /\ Cardinality(0..(n - 1)) = n
  BY FS_Interval
<1>4. ASSUME NEW x \in S, NEW y \in S, x < y
      PROVE  Cardinality(Above(x)) # Cardinality(Above(y))
  <2>0. x \in Nat /\ y \in Nat /\ \A g \in S : g \in Nat
    OBVIOUS
  <2>1. Above(y) \cup {y} \in SUBSET Above(x) /\ y \notin Above(y)
    <3>1. \A g \in Above(y) : g \in Above(x)
      BY <1>4, <2>0
    <3>2. y \in Above(x) /\ y \notin Above(y)
      BY <1>4, <2>0
    <3> HIDE DEF Above
    <3> QED BY <3>1, <3>2
  <2> HIDE DEF Above
  <2>2. /\ IsFiniteSet(Above(y) \cup {y})
        /\ Cardinality(Above(y) \cup {y}) = Cardinality(Above(y)) + 1
    BY <1>1, <2>1, FS_AddElement
  <2>3. Cardinality(Above(y) \cup {y}) <= Cardinality(Above(x))
    BY <1>1, <2>1, FS_Subset
  <2> QED BY <1>1, <2>2, <2>3
<1>5. SUFFICES ASSUME Cardinality(T) > n PROVE FALSE
  BY <1>2 DEF Above
<1> DEFINE rank == [h \in T |-> Cardinality(Above(h))]
<1>6. rank \in [T -> 0..(n - 1)]
  <2>1. \A h \in T : h \in S /\ Cardinality(Above(h)) < n
    OBVIOUS
  <2> HIDE DEF T, Above
  <2>2. ASSUME NEW h \in T PROVE Cardinality(Above(h)) \in 0..(n - 1)
    <3> DEFINE k == Cardinality(Above(h))
    <3>1. k \in Nat /\ k < n
      BY <1>1, <2>1
    <3> HIDE DEF k
    <3>2. k \in 0..(n - 1)
      BY <3>1
    <3> QED BY <3>2 DEF k
  <2> QED BY <2>2
<1> HIDE DEF T
<1>7. \E x, y \in T : x # y /\ rank[x] = rank[y]
  <2> HIDE DEF rank
  <2> QED BY <1>2, <1>3, <1>5, <1>6, FS_PigeonHole
<1>8. PICK x \in T, y \in T : x # y /\ rank[x] = rank[y]
  BY <1>7
<1>9. x \in S /\ y \in S /\ Cardinality(Above(x)) = Cardinality(Above(y))
  BY <1>8 DEF T
<1> QED BY <1>4, <1>8, <1>9

LEMMA OpenFinite ==
  ASSUME KeyTypes, RowsBegun, NEW u
  PROVE  IsFiniteSet(KeyOpenOf(u)) /\ Cardinality(KeyOpenOf(u)) \in Nat /\ KeyOpenOf(u) \in SUBSET Nat
<1>1. Len(begun) \in Nat
  BY DEF KeyTypes
<1>2. IsFiniteSet(1..Len(begun))
  BY <1>1, FS_Interval
<1>3. KeyOpenOf(u) \in SUBSET (1..Len(begun))
  BY DEF KeyOpenOf, RowsBegun, Begun
<1> QED BY <1>1, <1>2, <1>3, FS_Subset, FS_CardinalityType

\* Rows that go leave the others as they are.
LEMMA RowsGo ==
  ASSUME KeyInv, begun' = begun, evicting' = evicting, DOMAIN ceremony' \subseteq DOMAIN ceremony,
         \A h \in DOMAIN ceremony' : ceremony'[h] = ceremony[h]
  PROVE  RowsBegun' /\ Bounded'
<1>0. KeyTypes /\ RowsBegun /\ Bounded
  BY DEF KeyInv
<1>1. RowsBegun'
  BY <1>0 DEF RowsBegun, Begun
<1>2. ASSUME NEW u \in Users PROVE Cardinality(KeyOpenOf(u)') <= MaxOpenCeremonies + evicting'[u]
  <2>1. KeyOpenOf(u)' \in SUBSET KeyOpenOf(u)
    BY DEF KeyOpenOf
  <2>2. /\ Cardinality(KeyOpenOf(u)') <= Cardinality(KeyOpenOf(u)) /\ IsFiniteSet(KeyOpenOf(u)')
        /\ Cardinality(KeyOpenOf(u)) \in Nat
    BY <1>0, <2>1, OpenFinite, FS_Subset
  <2>3. Cardinality(KeyOpenOf(u)') \in Nat
    BY <2>2, FS_CardinalityType
  <2>4. Cardinality(KeyOpenOf(u)) <= MaxOpenCeremonies + evicting[u] /\ evicting[u] \in Nat
    BY <1>0 DEF Bounded, KeyTypes
  <2> QED BY <2>2, <2>3, <2>4, CeremoniesAssumption
<1> QED BY <1>1, <1>2 DEF Bounded

LEMMA SaveSessionKeeps ==
  ASSUME KeyInv, NEW u \in Users \cup {None}, NEW kind \in {"registration", "login"},
         Passkeys!SaveSession(u, kind)
  PROVE  KeyInv'
<1> DEFINE h == Len(begun) + 1
<1>0. KeyTypes /\ RowsBegun /\ Finishing /\ LoggedIn /\ Bounded
  BY DEF KeyInv
<1>1. /\ h \in Handles /\ begun' = Append(begun, u)
      /\ ceremony' = [g \in DOMAIN ceremony \cup {h} |->
                        IF g = h THEN [user |-> u, kind |-> kind] ELSE ceremony[g]]
      /\ evicting' = (IF u = None THEN evicting ELSE [evicting EXCEPT ![u] = @ + 1])
      /\ UNCHANGED <<cred, count, device, disabled, fin, logins>>
  BY KeysNone DEF Passkeys!SaveSession
<1>2. /\ Len(begun) \in Nat /\ h \in Nat /\ h >= 1 /\ ~Begun(h) /\ h \notin DOMAIN ceremony
  BY <1>0 DEF KeyTypes, RowsBegun, Begun
<1>3. /\ begun' \in Seq(Users \cup {None}) /\ Len(begun') = h /\ begun'[h] = u
      /\ \A g \in 1..Len(begun) : begun'[g] = begun[g]
  BY <1>0, <1>1 DEF KeyTypes
<1>4. \A g : Begun(g) => Begun(g)'
  BY <1>2, <1>3 DEF Begun
<1> HIDE DEF h
<1>5. /\ DOMAIN ceremony' = DOMAIN ceremony \cup {h} /\ ceremony'[h].user = u /\ ceremony'[h].kind = kind
      /\ \A g \in DOMAIN ceremony : ceremony'[g] = ceremony[g]
  BY <1>1, <1>2
<1>6. evicting' \in [Users -> Nat]
  BY <1>0, <1>1 DEF KeyTypes
<1>7. KeyTypes'
  BY <1>0, <1>1, <1>3, <1>5, <1>6 DEF KeyTypes
<1>8. RowsBegun'
  <2>1. h \in 1..Len(begun')
    BY <1>2, <1>3
  <2>2. ASSUME NEW g \in DOMAIN ceremony PROVE g \in 1..Len(begun') /\ ceremony'[g].user = begun'[g]
    <3>1. Begun(g) /\ ceremony[g].user = begun[g]
      BY <1>0, <2>2 DEF RowsBegun
    <3>2. begun'[g] = begun[g]
      BY <1>3, <3>1 DEF Begun
    <3> QED BY <1>4, <1>5, <3>1, <3>2 DEF Begun
  <2> QED BY <1>3, <1>5, <2>1, <2>2 DEF RowsBegun, Begun
<1>9. Finishing'
  <2> SUFFICES ASSUME NEW g \in Handles, fin'[g] # Passkeys!Rest
               PROVE  g \notin DOMAIN ceremony' /\ Begun(g)' /\ begun'[g] \in {None, fin'[g].user}
    BY DEF Finishing
  <2>1. fin'[g] = fin[g] /\ g \notin DOMAIN ceremony /\ Begun(g) /\ begun[g] \in {None, fin[g].user}
    BY <1>0, <1>1 DEF Finishing
  <2>2. g # h
    BY <1>2, <2>1
  <2>3. begun'[g] = begun[g]
    BY <1>3, <2>1 DEF Begun
  <2> QED BY <1>4, <1>5, <2>1, <2>2, <2>3
<1>10. LoggedIn'
  <2>1. ASSUME NEW l \in logins'
        PROVE  l.ceremony \notin DOMAIN ceremony' /\ Begun(l.ceremony)' /\ fin'[l.ceremony] = Passkeys!Rest
    BY <1>0, <1>1, <1>2, <1>4, <1>5, <2>1 DEF LoggedIn
  <2>2. \A l, m \in logins' : l.ceremony = m.ceremony => l = m
    BY <1>0, <1>1 DEF LoggedIn
  <2> QED BY <2>1, <2>2 DEF LoggedIn
<1>11. ASSUME NEW v \in Users PROVE Cardinality(KeyOpenOf(v)') <= MaxOpenCeremonies + evicting'[v]
  <2>1. IsFiniteSet(KeyOpenOf(v)) /\ Cardinality(KeyOpenOf(v)) \in Nat
    BY <1>0, OpenFinite
  <2>2. Cardinality(KeyOpenOf(v)) <= MaxOpenCeremonies + evicting[v] /\ evicting[v] \in Nat
    BY <1>0 DEF Bounded, KeyTypes
  <2>3. CASE v # u
    <3>1. KeyOpenOf(v)' = KeyOpenOf(v)
      BY <1>2, <1>5, <2>3 DEF KeyOpenOf
    <3>2. evicting'[v] = evicting[v]
      BY <1>0, <1>1, <2>3 DEF KeyTypes
    <3> QED BY <2>2, <3>1, <3>2
  <2>4. CASE v = u
    <3>1. KeyOpenOf(v)' = KeyOpenOf(v) \cup {h} /\ h \notin KeyOpenOf(v)
      BY <1>2, <1>5, <2>4 DEF KeyOpenOf
    <3>2. Cardinality(KeyOpenOf(v)') = Cardinality(KeyOpenOf(v)) + 1
      BY <2>1, <3>1, FS_AddElement
    <3>3. evicting'[v] = evicting[v] + 1
      BY <1>0, <1>1, <2>4, NobodyIsNone DEF KeyTypes
    <3> QED BY <2>1, <2>2, <3>2, <3>3, CeremoniesAssumption
  <2> QED BY <2>3, <2>4
<1> QED BY <1>7, <1>8, <1>9, <1>10, <1>11 DEF KeyInv, Bounded

LEMMA DeleteOldestKeeps ==
  ASSUME KeyInv, NEW u \in Users, Passkeys!DeleteOldestForUser(u)
  PROVE  KeyInv'
<1>0. KeyTypes /\ RowsBegun /\ Finishing /\ LoggedIn /\ Bounded
  BY DEF KeyInv
<1>1. /\ evicting[u] > 0 /\ evicting' = [evicting EXCEPT ![u] = @ - 1]
      /\ ceremony' = [h \in DOMAIN ceremony \ Passkeys!Evicted(u) |-> ceremony[h]]
      /\ UNCHANGED <<begun, cred, count, device, disabled, fin, logins>>
  BY DEF Passkeys!DeleteOldestForUser
<1>2. Passkeys!Evicted(u) = {h \in KeyOpenOf(u) : Cardinality({g \in KeyOpenOf(u) : g > h}) >= MaxOpenCeremonies}
  BY KeysCardinality DEF Passkeys!Evicted, Passkeys!OpenOf, KeyOpenOf
<1>3. /\ DOMAIN ceremony' \subseteq DOMAIN ceremony
      /\ \A h \in DOMAIN ceremony' : ceremony'[h] = ceremony[h]
  BY <1>1
<1>4. /\ evicting' \in [Users -> Nat] /\ \A v \in Users \ {u} : evicting'[v] = evicting[v]
  BY <1>0, <1>1 DEF KeyTypes
<1>5. KeyTypes'
  BY <1>0, <1>1, <1>3, <1>4 DEF KeyTypes
<1>6. RowsBegun'
  BY <1>0, <1>1, <1>3 DEF RowsBegun, Begun
<1>7. Finishing'
  BY <1>0, <1>1, <1>3 DEF Finishing, Begun
<1>8. LoggedIn'
  BY <1>0, <1>1, <1>3 DEF LoggedIn, Begun
<1>9. ASSUME NEW v \in Users PROVE Cardinality(KeyOpenOf(v)') <= MaxOpenCeremonies + evicting'[v]
  <2>1. IsFiniteSet(KeyOpenOf(v)) /\ Cardinality(KeyOpenOf(v)) \in Nat /\ KeyOpenOf(v) \in SUBSET Nat
    BY <1>0, OpenFinite
  <2>2. CASE v # u
    <3>1. KeyOpenOf(v)' = KeyOpenOf(v)
      BY <1>1, <1>2, <2>2 DEF KeyOpenOf
    <3> QED BY <1>0, <1>4, <2>2, <3>1 DEF Bounded
  <2>3. CASE v = u
    <3> DEFINE S == KeyOpenOf(u)
               T == {h \in S : Cardinality({g \in S : g > h}) < MaxOpenCeremonies}
    <3>1. Cardinality(T) <= MaxOpenCeremonies
      BY <2>1, <2>3, NewestBounded, CeremoniesAssumption
    <3>2. \A h \in S : Cardinality({g \in S : g > h}) \in Nat
      <4>1. \A h \in S : {g \in S : g > h} \in SUBSET S
        OBVIOUS
      <4> HIDE DEF S
      <4> QED BY <2>1, <2>3, <4>1, FS_Subset, FS_CardinalityType DEF S
    <3>3. KeyOpenOf(u)' = S \ Passkeys!Evicted(u)
      BY <1>1 DEF KeyOpenOf
    <3>4. KeyOpenOf(u)' = T
      <4> HIDE DEF S
      <4> QED BY <1>2, <3>2, <3>3, CeremoniesAssumption DEF S
    <3>5. IsFiniteSet(T) /\ Cardinality(T) \in Nat
      BY <2>1, <2>3, FS_Subset, FS_CardinalityType
    <3> HIDE DEF S, T
    <3>6. evicting'[u] \in Nat
      BY <1>4
    <3> QED BY <2>3, <3>1, <3>4, <3>5, <3>6, CeremoniesAssumption
  <2> QED BY <2>2, <2>3
<1> QED BY <1>5, <1>6, <1>7, <1>8, <1>9 DEF KeyInv, Bounded

\* The end of a ceremony's row, by Consume or by time.
LEMMA ConsumeStep ==
  ASSUME KeyInv, NEW h \in DOMAIN ceremony, NEW r \in Fins,
         ceremony' = [g \in DOMAIN ceremony \ {h} |-> ceremony[g]],
         fin' = [fin EXCEPT ![h] = r] \/ fin' = fin, r # Passkeys!Rest => begun[h] \in {None, r.user},
         device' \in [Creds -> Nat],
         UNCHANGED <<begun, evicting, cred, count, disabled, logins>>
  PROVE  KeyInv'
<1>0. KeyTypes /\ RowsBegun /\ Finishing /\ LoggedIn /\ Bounded
  BY DEF KeyInv
<1>1. /\ DOMAIN ceremony' = DOMAIN ceremony \ {h}
      /\ \A g \in DOMAIN ceremony' : ceremony'[g] = ceremony[g]
  OBVIOUS
<1>2. RowsBegun' /\ Bounded'
  BY <1>1, RowsGo
<1>3. h \in Handles /\ Begun(h)
  BY <1>0 DEF KeyTypes, RowsBegun
<1>4. /\ fin' \in [Handles -> Fins] /\ \A g \in Handles : fin'[g] = IF g = h /\ fin' # fin THEN r ELSE fin[g]
  BY <1>0, <1>3 DEF KeyTypes
<1>5. KeyTypes'
  BY <1>0, <1>1, <1>4 DEF KeyTypes
<1>6. Finishing'
  <2> SUFFICES ASSUME NEW g \in Handles, fin'[g] # Passkeys!Rest
               PROVE  g \notin DOMAIN ceremony' /\ Begun(g)' /\ begun'[g] \in {None, fin'[g].user}
    BY DEF Finishing
  <2>1. CASE g = h /\ fin' # fin
    BY <1>1, <1>3, <1>4, <2>1 DEF Begun
  <2>2. CASE ~(g = h /\ fin' # fin)
    BY <1>0, <1>1, <1>4, <2>2 DEF Begun, Finishing
  <2> QED BY <2>1, <2>2
<1>7. LoggedIn'
  <2>1. ASSUME NEW l \in logins'
        PROVE  l.ceremony \notin DOMAIN ceremony' /\ Begun(l.ceremony)' /\ fin'[l.ceremony] = Passkeys!Rest
    <3>1. l \in logins /\ l.ceremony \notin DOMAIN ceremony /\ Begun(l.ceremony) /\ fin[l.ceremony] = Passkeys!Rest
      BY <1>0, <2>1 DEF LoggedIn
    <3>2. l.ceremony \in Handles /\ l.ceremony # h
      BY <1>0, <3>1 DEF KeyTypes
    <3> QED BY <1>1, <1>4, <3>1, <3>2 DEF Begun
  <2>2. \A l, m \in logins' : l.ceremony = m.ceremony => l = m
    BY <1>0 DEF LoggedIn
  <2> QED BY <2>1, <2>2 DEF LoggedIn
<1> QED BY <1>2, <1>5, <1>6, <1>7 DEF KeyInv

LEMMA KeyExpireKeeps ==
  ASSUME KeyInv, NEW h \in Handles, Passkeys!Expire(h)
  PROVE  KeyInv'
<1>1. /\ h \in DOMAIN ceremony /\ ceremony' = [g \in DOMAIN ceremony \ {h} |-> ceremony[g]]
      /\ UNCHANGED <<begun, evicting, cred, count, device, disabled, fin, logins>>
  BY DEF Passkeys!Expire, Passkeys!Open
<1>2. device' \in [Creds -> Nat]
  BY <1>1 DEF KeyInv, KeyTypes
<1> QED BY <1>1, <1>2, ConsumeStep, RestIsFin

LEMMA FinishRegistrationKeeps ==
  ASSUME KeyInv, NEW u \in Users, NEW h \in Handles, Passkeys!FinishRegistration(u, h)
  PROVE  KeyInv'
<1> DEFINE s == [Passkeys!Rest EXCEPT !.at = "register", !.user = u]
           r == IF ceremony[h].user = u THEN s ELSE Passkeys!Rest
<1>1. /\ h \in DOMAIN ceremony /\ ceremony' = [g \in DOMAIN ceremony \ {h} |-> ceremony[g]]
      /\ fin' = [fin EXCEPT ![h] = r]
      /\ UNCHANGED <<begun, evicting, cred, count, device, disabled, logins>>
  BY DEF Passkeys!FinishRegistration, Passkeys!Consume, Passkeys!Open
<1>2. s \in Fins /\ s.user = u
  BY RestIsFin DEF Fins
<1>3. ceremony[h].user = begun[h]
  BY <1>1 DEF KeyInv, RowsBegun
<1> HIDE DEF s
<1>4. r \in Fins /\ (r # Passkeys!Rest => begun[h] \in {None, r.user})
  BY <1>2, <1>3, RestIsFin
<1>5. device' \in [Creds -> Nat]
  BY <1>1 DEF KeyInv, KeyTypes
<1> HIDE DEF r
<1> QED BY <1>1, <1>4, <1>5, ConsumeStep

LEMMA FinishLoginKeeps ==
  ASSUME KeyInv, NEW h \in Handles, Passkeys!FinishLogin(h)
  PROVE  KeyInv'
<1>0. KeyTypes /\ RowsBegun
  BY DEF KeyInv
<1>1. /\ h \in DOMAIN ceremony /\ ceremony' = [g \in DOMAIN ceremony \ {h} |-> ceremony[g]]
      /\ UNCHANGED <<begun, evicting, cred, count, disabled, logins>>
  BY DEF Passkeys!FinishLogin, Passkeys!Consume, Passkeys!Open
<1>2. ceremony[h].user = begun[h]
  BY <1>0, <1>1 DEF RowsBegun
<1>3. PICK c \in Creds :
        \/ UNCHANGED <<fin, device>>
        \/ /\ cred[c] # None /\ ceremony[h].user \in {None, cred[c]}
           /\ fin' = [fin EXCEPT ![h] = [at |-> "count", user |-> cred[c], cred |-> c, n |-> device[c] + 1]]
           /\ device' = [device EXCEPT ![c] = @ + 1]
  BY KeysNone DEF Passkeys!FinishLogin
<1>4. device' \in [Creds -> Nat]
  <2>1. device' = device \/ device' = [device EXCEPT ![c] = device[c] + 1]
    BY <1>3
  <2>2. device \in [Creds -> Nat] /\ device[c] + 1 \in Nat
    BY <1>0 DEF KeyTypes
  <2> QED BY <2>1, <2>2
<1>5. CASE UNCHANGED <<fin, device>>
  BY <1>1, <1>4, <1>5, ConsumeStep, RestIsFin
<1>6. CASE /\ cred[c] # None /\ ceremony[h].user \in {None, cred[c]}
           /\ fin' = [fin EXCEPT ![h] = [at |-> "count", user |-> cred[c], cred |-> c, n |-> device[c] + 1]]
  <2> DEFINE r == [at |-> "count", user |-> cred[c], cred |-> c, n |-> device[c] + 1]
  <2>1. r \in Fins /\ r.user = cred[c]
    BY <1>0 DEF KeyTypes, Fins
  <2>2. fin' = [fin EXCEPT ![h] = r]
    BY <1>6
  <2> HIDE DEF r
  <2>3. begun[h] \in {None, r.user}
    BY <1>2, <1>6, <2>1
  <2> QED BY <1>1, <1>4, <2>1, <2>2, <2>3, ConsumeStep
<1> QED BY <1>3, <1>5, <1>6

\* A step of a finishing request: of the ceremonies only fin and logins move.
LEMMA FinStep ==
  ASSUME KeyInv, NEW h \in Handles, fin[h] # Passkeys!Rest, NEW r \in Fins, fin' = [fin EXCEPT ![h] = r],
         r # Passkeys!Rest => r.user = fin[h].user,
         \/ logins' = logins
         \/ r = Passkeys!Rest /\ logins' = logins \cup {[ceremony |-> h, user |-> fin[h].user]},
         cred' \in [Creds -> Users \cup {None}], count' \in [Creds -> Nat],
         UNCHANGED <<ceremony, begun, evicting, device, disabled>>
  PROVE  KeyInv'
<1>0. KeyTypes /\ RowsBegun /\ Finishing /\ LoggedIn /\ Bounded
  BY DEF KeyInv
<1>1. RowsBegun' /\ Bounded'
  BY RowsGo
<1>2. /\ fin' \in [Handles -> Fins] /\ fin'[h] = r /\ \A g \in Handles \ {h} : fin'[g] = fin[g]
      /\ fin[h].user \in Users \cup {None}
  BY <1>0 DEF KeyTypes, Fins
<1>3. h \notin DOMAIN ceremony /\ Begun(h) /\ begun[h] \in {None, fin[h].user}
  BY <1>0 DEF Finishing
<1>4. KeyTypes'
  BY <1>0, <1>2 DEF KeyTypes
<1>5. Finishing'
  <2> SUFFICES ASSUME NEW g \in Handles, fin'[g] # Passkeys!Rest
               PROVE  g \notin DOMAIN ceremony' /\ Begun(g)' /\ begun'[g] \in {None, fin'[g].user}
    BY DEF Finishing
  <2>1. CASE g = h
    BY <1>2, <1>3, <2>1 DEF Begun
  <2>2. CASE g # h
    BY <1>0, <1>2, <2>2 DEF Begun, Finishing
  <2> QED BY <2>1, <2>2
<1>6. \A l \in logins : l.ceremony \in Handles /\ l.ceremony # h
  BY <1>0 DEF LoggedIn, KeyTypes
<1>7. ASSUME NEW l \in logins
      PROVE  l.ceremony \notin DOMAIN ceremony' /\ Begun(l.ceremony)' /\ fin'[l.ceremony] = Passkeys!Rest
  BY <1>0, <1>2, <1>6, <1>7 DEF LoggedIn, Begun
<1>8. CASE logins' = logins
  BY <1>0, <1>1, <1>4, <1>5, <1>7, <1>8 DEF LoggedIn, KeyInv
<1>9. CASE r = Passkeys!Rest /\ logins' = logins \cup {[ceremony |-> h, user |-> fin[h].user]}
  <2> DEFINE n == [ceremony |-> h, user |-> fin[h].user]
  <2>1. n.ceremony = h /\ logins' = logins \cup {n}
    BY <1>9
  <2> HIDE DEF n
  <2>2. n.ceremony \notin DOMAIN ceremony' /\ Begun(h)' /\ fin'[n.ceremony] = Passkeys!Rest
    BY <1>2, <1>3, <1>9, <2>1 DEF Begun
  <2>3. \A l, m \in logins' : l.ceremony = m.ceremony => l = m
    BY <1>0, <1>6, <2>1 DEF LoggedIn
  <2>4. \A l \in logins' : l.ceremony \notin DOMAIN ceremony' /\ Begun(l.ceremony)' /\ fin'[l.ceremony] = Passkeys!Rest
    BY <1>7, <2>1, <2>2 DEF Begun
  <2> QED BY <1>1, <1>4, <1>5, <2>3, <2>4 DEF LoggedIn, KeyInv, Begun
<1> QED BY <1>8, <1>9

LEMMA CreateCredentialKeeps ==
  ASSUME KeyInv, NEW h \in Handles, Passkeys!CreateCredential(h)
  PROVE  KeyInv'
<1>0. KeyTypes
  BY DEF KeyInv
<1>1. /\ fin[h].at = "register" /\ fin' = [fin EXCEPT ![h] = Passkeys!Rest]
      /\ UNCHANGED <<ceremony, begun, evicting, device, disabled, logins>>
  BY DEF Passkeys!CreateCredential
<1>2. \/ UNCHANGED <<cred, count>>
      \/ \E c \in Creds : /\ cred' = [cred EXCEPT ![c] = fin[h].user] /\ count' = [count EXCEPT ![c] = device[c]]
  BY DEF Passkeys!CreateCredential
<1>3. fin[h].user \in Users \cup {None}
  BY <1>0 DEF KeyTypes, Fins
<1>4. cred' \in [Creds -> Users \cup {None}] /\ count' \in [Creds -> Nat]
  BY <1>0, <1>2, <1>3 DEF KeyTypes
<1>5. fin[h] # Passkeys!Rest
  BY <1>1 DEF Passkeys!Rest
<1> QED BY <1>1, <1>4, <1>5, FinStep, RestIsFin

LEMMA UpdateSignCountKeeps ==
  ASSUME KeyInv, NEW h \in Handles, Passkeys!UpdateSignCount(h)
  PROVE  KeyInv'
<1>0. KeyTypes
  BY DEF KeyInv
<1> DEFINE r == [fin[h] EXCEPT !.at = "token"]
<1>1. /\ fin[h].at = "count" /\ UNCHANGED <<ceremony, begun, evicting, cred, device, disabled, logins>>
  BY DEF Passkeys!UpdateSignCount
<1>2. fin' = [fin EXCEPT ![h] = r]
  BY DEF Passkeys!UpdateSignCount
<1>3. \/ count' = count
      \/ count' = [count EXCEPT ![fin[h].cred] = fin[h].n]
  BY DEF Passkeys!UpdateSignCount
<1>4. fin[h].n \in Nat
  BY <1>0 DEF KeyTypes, Fins
<1>5. count' \in [Creds -> Nat] /\ cred' \in [Creds -> Users \cup {None}]
  BY <1>0, <1>1, <1>3, <1>4 DEF KeyTypes
<1>6. fin[h] # Passkeys!Rest
  BY <1>1 DEF Passkeys!Rest
<1>7. r \in Fins /\ r.user = fin[h].user
  BY <1>0 DEF KeyTypes, Fins
<1> HIDE DEF r
<1> QED BY <1>1, <1>2, <1>5, <1>6, <1>7, FinStep

LEMMA GenerateTokensKeeps ==
  ASSUME KeyInv, NEW h \in Handles, Passkeys!GenerateTokens(h)
  PROVE  KeyInv'
<1>1. /\ fin[h].at = "token" /\ fin' = [fin EXCEPT ![h] = Passkeys!Rest]
      /\ logins' = logins \cup {[ceremony |-> h, user |-> fin[h].user]}
      /\ UNCHANGED <<ceremony, begun, evicting, cred, count, device, disabled>>
  BY DEF Passkeys!GenerateTokens
<1>2. count' \in [Creds -> Nat] /\ cred' \in [Creds -> Users \cup {None}]
  BY <1>1 DEF KeyInv, KeyTypes
<1>3. fin[h] # Passkeys!Rest
  BY <1>1 DEF Passkeys!Rest
<1> QED BY <1>1, <1>2, <1>3, FinStep, RestIsFin

\* Steps that leave the ceremonies alone.
LEMMA OtherKeyStep ==
  ASSUME KeyInv, cred' \in [Creds -> Users \cup {None}], disabled' \subseteq Users,
         UNCHANGED <<ceremony, begun, evicting, count, device, fin, logins>>
  PROVE  KeyInv'
<1>0. KeyTypes /\ RowsBegun /\ Finishing /\ LoggedIn /\ Bounded
  BY DEF KeyInv
<1>1. RowsBegun' /\ Bounded'
  BY RowsGo
<1>2. KeyTypes'
  BY <1>0 DEF KeyTypes
<1>3. Finishing' /\ LoggedIn'
  BY <1>0 DEF Finishing, LoggedIn, Begun
<1> QED BY <1>1, <1>2, <1>3 DEF KeyInv

LEMMA KeyInit == Passkeys!Init => KeyInv
<1> SUFFICES ASSUME Passkeys!Init PROVE KeyInv
  OBVIOUS
<1>1. /\ DOMAIN ceremony = {} /\ begun = <<>> /\ evicting = [u \in Users |-> 0]
      /\ cred = [c \in Creds |-> None] /\ count = [c \in Creds |-> 0] /\ device = count /\ disabled = {}
      /\ fin = [h \in Handles |-> Passkeys!Rest] /\ logins = {}
  BY KeysNone DEF Passkeys!Init
<1>2. fin \in [Handles -> Fins]
  BY <1>1, RestIsFin
<1>3. KeyTypes
  BY <1>1, <1>2 DEF KeyTypes
<1>4. RowsBegun /\ Finishing /\ LoggedIn
  BY <1>1 DEF RowsBegun, Finishing, LoggedIn
<1>5. Bounded
  <2>1. \A u : KeyOpenOf(u) = {}
    BY <1>1 DEF KeyOpenOf
  <2>2. \A u \in Users : Cardinality(KeyOpenOf(u)) = 0 /\ evicting[u] = 0
    BY <1>1, <2>1, FS_EmptySet
  <2> QED BY <2>2, CeremoniesAssumption DEF Bounded
<1> QED BY <1>3, <1>4, <1>5 DEF KeyInv

LEMMA KeyNext == KeyInv /\ Passkeys!Next => KeyInv'
<1> SUFFICES ASSUME KeyInv, Passkeys!Next PROVE KeyInv'
  OBVIOUS
<1>0. KeyTypes
  BY DEF KeyInv
<1>1. ASSUME NEW u \in Users, Passkeys!BeginRegistration(u) PROVE KeyInv'
  BY <1>1, SaveSessionKeeps DEF Passkeys!BeginRegistration
<1>2. ASSUME NEW u \in Users \cup {Passkeys!None}, Passkeys!BeginLogin(u) PROVE KeyInv'
  <2>1. PICK v \in Users \cup {None} : Passkeys!SaveSession(v, "login")
    BY <1>2, KeysNone DEF Passkeys!BeginLogin
  <2> QED BY <2>1, SaveSessionKeeps
<1>3. ASSUME NEW u \in Users, Passkeys!DisableUser(u) PROVE KeyInv'
  <2>1. /\ disabled' = disabled \cup {u}
        /\ UNCHANGED <<ceremony, begun, evicting, cred, count, device, fin, logins>>
    BY <1>3 DEF Passkeys!DisableUser
  <2>2. disabled' \subseteq Users /\ cred' \in [Creds -> Users \cup {None}]
    BY <1>0, <2>1 DEF KeyTypes
  <2> QED BY <2>1, <2>2, OtherKeyStep
<1>4. ASSUME NEW c \in Creds, Passkeys!DeleteCredential(c) PROVE KeyInv'
  <2>1. /\ cred' = [cred EXCEPT ![c] = None]
        /\ UNCHANGED <<ceremony, begun, evicting, count, device, disabled, fin, logins>>
    BY <1>4, KeysNone DEF Passkeys!DeleteCredential
  <2>2. cred' \in [Creds -> Users \cup {None}] /\ disabled' \subseteq Users
    BY <1>0, <2>1 DEF KeyTypes
  <2> QED BY <2>1, <2>2, OtherKeyStep
<1>5. CASE \E u \in Users : \/ Passkeys!BeginRegistration(u) \/ Passkeys!DeleteOldestForUser(u)
                            \/ Passkeys!DisableUser(u)
                            \/ \E h \in Handles : Passkeys!FinishRegistration(u, h)
  BY <1>1, <1>3, <1>5, DeleteOldestKeeps, FinishRegistrationKeeps
<1>6. CASE \E h \in Handles : \/ Passkeys!Expire(h) \/ Passkeys!CreateCredential(h) \/ Passkeys!FinishLogin(h)
                              \/ Passkeys!UpdateSignCount(h) \/ Passkeys!GenerateTokens(h)
  BY <1>6, KeyExpireKeeps, CreateCredentialKeeps, FinishLoginKeeps, UpdateSignCountKeeps, GenerateTokensKeeps
<1> QED BY <1>2, <1>4, <1>5, <1>6 DEF Passkeys!Next

LEMMA KeySafe == KeyInv => Passkeys!TypeOK /\ Passkeys!CeremoniesBounded /\ Passkeys!OwnCeremonyOnce
<1> SUFFICES ASSUME KeyInv PROVE Passkeys!TypeOK /\ Passkeys!CeremoniesBounded /\ Passkeys!OwnCeremonyOnce
  OBVIOUS
<1>0. KeyTypes /\ Finishing /\ LoggedIn /\ Bounded
  BY DEF KeyInv
<1>1. \A h \in Handles : fin[h].at \in {"idle", "register", "login", "count", "token"}
  BY <1>0 DEF KeyTypes, Fins
<1>2. Passkeys!TypeOK
  BY <1>0, <1>1, KeysNone DEF KeyTypes, Passkeys!TypeOK
<1>3. Passkeys!CeremoniesBounded
  BY <1>0, KeysCardinality DEF Bounded, KeyOpenOf, Passkeys!CeremoniesBounded, Passkeys!OpenOf
<1>4. Passkeys!OwnCeremonyOnce
  BY <1>0, KeysNone DEF Finishing, LoggedIn, Passkeys!OwnCeremonyOnce, Passkeys!Open
<1> QED BY <1>2, <1>3, <1>4

-----------------------------------------------------------------------------
(* Mail. *)

Tallies == {Mail!Cardinality(S) : S \in SUBSET Mail!Addresses}
Sent == [step : {"lookup", "deliver", "record", "suppress", "count", "set", "done"}, to : Spellings,
         status : Mail!Statuses \cup {"none"} \cup Tallies,
         blind : BOOLEAN, listed : BOOLEAN, cancelled : BOOLEAN]
NewMail == [step |-> "new"]

MailTypes ==
  /\ send \in [Sends -> Sent \cup {NewMail}] /\ suppressed \in [Mail!Addresses -> Nat]
  /\ events \in [Sends -> Mail!Statuses \cup {"none"}] /\ torn \in BOOLEAN /\ lifts \in Nat

\* How a send ended before it is recorded, and whom it suppresses.
Earned(p) == /\ send[p].step = "record" => /\ send[p].status \in Mail!Statuses
                                           /\ send[p].status = "hard_bounce" => Mail!To(p) \in refused
             /\ send[p].step = "suppress" => Mail!To(p) \in refused
\* A send notes that its address was suppressed as long as it is.
StillListed(p) == send[p].step # "new" /\ send[p].listed => Mail!To(p) \in Mail!Listed
NotSent(p) == send[p].step = "deliver" /\ send[p].listed => send[p].blind
\* What is recorded, until a statement fails, and whom it has silenced, until somebody is lifted.
Recorded(p) == ~torn /\ send[p].step \in {"suppress", "count", "set", "done"}
                 => /\ events[p] \in Mail!Statuses
                    /\ events[p] = "hard_bounce"
                         => /\ Mail!To(p) \in refused
                            /\ lifts = 0 /\ send[p].step # "suppress" => Mail!To(p) \in Mail!Listed
\* The refreshes of the gauge, until one is overtaken: one at a time sets what it counted, and
\* what it counted is true unless another one is going to count.
OneSetter == ~torn => \A p, q \in Sends : send[p].step = "set" /\ send[q].step = "set" => p = q
NoCounter == \A p \in Sends : send[p].step # "count"
SetterRight == ~torn /\ NoCounter
                 => \A p \in Sends : send[p].step = "set" => send[p].status = Mail!Cardinality(Mail!Listed)
GaugeRight == (~torn /\ \A p \in Sends : send[p].step \notin {"count", "set"})
                => gauge = Mail!Cardinality(Mail!Listed)

MailInv ==
  /\ MailTypes /\ Mail!Listed \subseteq refused
  /\ \A p \in Sends : Earned(p) /\ StillListed(p) /\ NotSent(p) /\ Recorded(p)
  /\ OneSetter /\ SetterRight /\ GaugeRight

-----------------------------------------------------------------------------
LEMMA SentFields ==
  ASSUME NEW r \in Sent
  PROVE  /\ r.step \in {"lookup", "deliver", "record", "suppress", "count", "set", "done"} /\ r.step # "new"
         /\ r.to \in Spellings /\ r.blind \in BOOLEAN /\ r.listed \in BOOLEAN /\ Normal[r.to] \in Mail!Addresses
BY DEF Sent, Mail!Addresses

LEMMA SentEdits ==
  ASSUME NEW r \in Sent, NEW x \in {"lookup", "deliver", "record", "suppress", "count", "set", "done"},
         NEW s \in Mail!Statuses \cup {"none"} \cup Tallies
  PROVE  /\ [r EXCEPT !.step = x] \in Sent /\ [r EXCEPT !.step = x, !.status = s] \in Sent
         /\ [r EXCEPT !.step = x, !.blind = TRUE, !.status = s] \in Sent
         /\ [r EXCEPT !.listed = FALSE] \in Sent /\ [r EXCEPT !.cancelled = TRUE] \in Sent
BY DEF Sent

LEMMA NewIsNew == NewMail.step = "new"
BY DEF NewMail

\* A step of one send that leaves the list and the gauge alone: it is enough to look at the send
\* itself, and that nobody comes to count or set.
LEMMA SendStep ==
  ASSUME MailInv, NEW p \in Sends, NEW r \in Sent, send' = [send EXCEPT ![p] = r],
         send[p].step \notin {"count", "set"}, r.step \notin {"count", "set"},
         UNCHANGED <<suppressed, gauge, lifts>>, refused \subseteq refused',
         torn' \in BOOLEAN, torn => torn', events' \in [Sends -> Mail!Statuses \cup {"none"}],
         \A q \in Sends \ {p} : events'[q] = events[q],
         (Earned(p) /\ StillListed(p) /\ NotSent(p) /\ Recorded(p))'
  PROVE  MailInv'
<1>0. /\ MailTypes /\ Mail!Listed \subseteq refused
      /\ \A q \in Sends : Earned(q) /\ StillListed(q) /\ NotSent(q) /\ Recorded(q)
      /\ OneSetter /\ SetterRight /\ GaugeRight
  BY DEF MailInv
<1>1. /\ send' \in [Sends -> Sent \cup {NewMail}] /\ send'[p] = r /\ \A q \in Sends \ {p} : send'[q] = send[q]
  BY <1>0 DEF MailTypes
<1>2. MailTypes'
  BY <1>0, <1>1 DEF MailTypes, Mail!Addresses, Tallies
<1>3. Mail!Listed' = Mail!Listed
  BY DEF Mail!Listed, Mail!Addresses
<1>4. \A q \in Sends \ {p} : Mail!To(q)' = Mail!To(q)
  BY <1>1 DEF Mail!To
<1>5. ASSUME NEW q \in Sends PROVE (Earned(q) /\ StillListed(q) /\ NotSent(q) /\ Recorded(q))'
  <2>1. CASE q = p
    BY <2>1
  <2>2. CASE q # p
    <3>1. /\ Earned(q) /\ StillListed(q) /\ NotSent(q) /\ Recorded(q)
          /\ send'[q] = send[q] /\ events'[q] = events[q] /\ Mail!To(q)' = Mail!To(q)
      BY <1>0, <1>1, <1>4, <2>2
    <3>2. Earned(q)'
      BY <3>1 DEF Earned, Mail!Statuses
    <3>3. StillListed(q)'
      BY <1>3, <3>1 DEF StillListed
    <3>4. NotSent(q)'
      BY <3>1 DEF NotSent
    <3>5. Recorded(q)'
      BY <1>3, <3>1 DEF Recorded, Mail!Statuses
    <3> QED BY <3>2, <3>3, <3>4, <3>5
  <2> QED BY <2>1, <2>2
<1>6. \A q \in Sends : /\ send'[q].step = "count" <=> send[q].step = "count"
                       /\ send'[q].step = "set" <=> send[q].step = "set"
                       /\ send'[q].step = "set" => send'[q] = send[q]
  BY <1>1
<1>7. OneSetter'
  BY <1>0, <1>6 DEF OneSetter
<1>8. SetterRight'
  BY <1>0, <1>3, <1>6 DEF SetterRight, NoCounter, Mail!Cardinality
<1>9. GaugeRight'
  BY <1>0, <1>3, <1>6 DEF GaugeRight, Mail!Cardinality
<1> QED BY <1>0, <1>2, <1>3, <1>5, <1>7, <1>8, <1>9 DEF MailInv

LEMMA ClassifyTyped ==
  ASSUME NEW r \in Mail!Replies
  PROVE  /\ Mail!classify(r) \in Mail!Statuses
         /\ Mail!classify(r) = "hard_bounce" => r.at = "rcpt" /\ r.code = 5
<1>1. CASE r \in [at : {"server", "rcpt", "data"}, code : {0, 4, 5}]
  <2>1. r.at \in {"server", "rcpt", "data"}
    BY <1>1
  <2>2. CASE r.at = "server"
    BY <2>2 DEF Mail!classify, Mail!Statuses
  <2>3. CASE r.at = "rcpt"
    BY <2>3 DEF Mail!classify, Mail!Statuses
  <2>4. CASE r.at = "data"
    BY <2>4 DEF Mail!classify, Mail!Statuses
  <2> QED BY <2>1, <2>2, <2>3, <2>4
<1>2. CASE r = [at |-> "accepted", code |-> 2]
  <2>1. r.at = "accepted"
    BY <1>2
  <2> QED BY <2>1 DEF Mail!classify, Mail!Statuses
<1> QED BY <1>1, <1>2 DEF Mail!Replies

LEMMA SendMessageKeeps ==
  ASSUME MailInv, NEW p \in Sends, Mail!SendMessage(p)
  PROVE  MailInv'
<1>0. MailTypes
  BY DEF MailInv
<1>1. PICK s \in Spellings :
        /\ send[p].step = "new"
        /\ send' = [send EXCEPT ![p] = [step |-> IF s \in Malformed THEN "record" ELSE "lookup", to |-> s,
                                        status |-> IF s \in Malformed THEN "invalid_address" ELSE "none",
                                        blind |-> FALSE, listed |-> suppressed[Normal[s]] > 0, cancelled |-> FALSE]]
        /\ UNCHANGED <<suppressed, events, gauge, lifts, refused, torn>>
  BY DEF Mail!SendMessage, Mail!At
<1> DEFINE r == [step |-> IF s \in Malformed THEN "record" ELSE "lookup", to |-> s,
                 status |-> IF s \in Malformed THEN "invalid_address" ELSE "none",
                 blind |-> FALSE, listed |-> suppressed[Normal[s]] > 0, cancelled |-> FALSE]
<1>2. (suppressed[Normal[s]] > 0) \in BOOLEAN
  OBVIOUS
<1>3. /\ r.step \in {"record", "lookup"} /\ r.to = s /\ r.listed = (suppressed[Normal[s]] > 0)
      /\ (r.step = "record" => r.status = "invalid_address")
  OBVIOUS
<1>4. r \in Sent
  BY <1>2 DEF Sent, Mail!Statuses
<1>5. send' = [send EXCEPT ![p] = r]
  BY <1>1
<1> HIDE DEF r
<1>6. send'[p] = r
  BY <1>0, <1>5 DEF MailTypes
<1>7. Mail!To(p)' = Normal[s]
  BY <1>3, <1>6 DEF Mail!To
<1>8. Earned(p)'
  BY <1>3, <1>6 DEF Earned, Mail!Statuses
<1>9. StillListed(p)'
  <2>1. Normal[s] \in Mail!Addresses
    BY DEF Mail!Addresses
  <2>2. r.listed => Normal[s] \in Mail!Listed
    BY <1>3, <2>1 DEF Mail!Listed
  <2>3. Mail!Listed' = Mail!Listed
    BY <1>1 DEF Mail!Listed, Mail!Addresses
  <2> QED BY <1>6, <1>7, <2>2, <2>3 DEF StillListed
<1>10. NotSent(p)' /\ Recorded(p)'
  BY <1>3, <1>6 DEF NotSent, Recorded
<1>11. torn' \in BOOLEAN /\ events' \in [Sends -> Mail!Statuses \cup {"none"}]
  BY <1>0, <1>1 DEF MailTypes
<1>12. r.step \notin {"count", "set"} /\ send[p].step \notin {"count", "set"}
  BY <1>1, <1>3
<1> QED BY <1>1, <1>4, <1>5, <1>8, <1>9, <1>10, <1>11, <1>12, SendStep

\* A send that has begun keeps its address.
LEMMA InSent ==
  ASSUME MailTypes, NEW p \in Sends, send[p].step # "new"
  PROVE  send[p] \in Sent
BY NewIsNew DEF MailTypes

\* A send moves on, for the same recipient.
LEMMA MoveOn ==
  ASSUME MailInv, NEW p \in Sends, send[p] \in Sent, NEW r \in Sent, send' = [send EXCEPT ![p] = r],
         r.to = send[p].to, r.listed = send[p].listed,
         send[p].step \notin {"count", "set"}, r.step \notin {"count", "set"},
         UNCHANGED <<suppressed, gauge, lifts>>, refused \subseteq refused',
         torn' \in BOOLEAN, torn => torn', events' \in [Sends -> Mail!Statuses \cup {"none"}],
         \A q \in Sends \ {p} : events'[q] = events[q],
         r.step = "record" => /\ r.status \in Mail!Statuses
                              /\ r.status = "hard_bounce" => Mail!To(p) \in refused',
         r.step = "suppress" => Mail!To(p) \in refused',
         r.step = "deliver" /\ r.listed => r.blind,
         ~torn' /\ r.step \in {"suppress", "done"}
           => /\ events'[p] \in Mail!Statuses
              /\ events'[p] = "hard_bounce" => Mail!To(p) \in refused' /\ r.step = "suppress"
  PROVE  MailInv'
<1>0. MailTypes /\ StillListed(p)
  BY DEF MailInv
<1>1. send'[p] = r /\ Mail!To(p)' = Mail!To(p)
  BY <1>0 DEF MailTypes, Mail!To
<1>2. Earned(p)'
  BY <1>1 DEF Earned, Mail!Statuses
<1>3. Mail!Listed' = Mail!Listed
  BY DEF Mail!Listed, Mail!Addresses
<1>4. StillListed(p)'
  BY <1>0, <1>1, <1>3, SentFields DEF StillListed
<1>5. NotSent(p)' /\ Recorded(p)'
  BY <1>1 DEF NotSent, Recorded, Mail!Statuses
<1> QED BY <1>2, <1>4, <1>5, SendStep

LEMMA LookupKeeps ==
  ASSUME MailInv, NEW p \in Sends, Mail!Lookup(p)
  PROVE  MailInv'
<1>0. MailTypes /\ StillListed(p)
  BY DEF MailInv
<1>1. /\ send[p].step = "lookup" /\ UNCHANGED <<suppressed, events, gauge, lifts, refused, torn>>
  BY DEF Mail!Lookup, Mail!At
<1>2. send[p] \in Sent
  BY <1>0, <1>1, InSent
<1>3. torn' \in BOOLEAN /\ events' \in [Sends -> Mail!Statuses \cup {"none"}]
  BY <1>0, <1>1 DEF MailTypes
<1>4. "suppressed" \in Mail!Statuses /\ "dry_run" \in Mail!Statuses
  BY DEF Mail!Statuses
<1>5. ASSUME NEW r \in Sent, send' = [send EXCEPT ![p] = r], r.to = send[p].to, r.listed = send[p].listed,
             \/ r.step = "record" /\ r.status \in {"suppressed", "dry_run"}
             \/ r.step = "deliver" /\ (r.listed => r.blind)
      PROVE  MailInv'
  BY <1>1, <1>2, <1>3, <1>4, <1>5, MoveOn
<1>6. ASSUME NEW s \in {"suppressed", "dry_run"}, Mail!fail(p, s) PROVE MailInv'
  <2> DEFINE r == [send[p] EXCEPT !.step = "record", !.status = s]
  <2>1. r \in Sent
    BY <1>2, <1>4, SentEdits
  <2>2. r.to = send[p].to /\ r.listed = send[p].listed /\ r.step = "record" /\ r.status = s
    BY <1>2 DEF Sent
  <2>3. send' = [send EXCEPT ![p] = r]
    BY <1>0, <1>6 DEF Mail!fail, MailTypes
  <2> HIDE DEF r
  <2> QED BY <1>5, <2>1, <2>2, <2>3
<1>7. ASSUME ~Mail!IsSuppressed(p), Mail!Goto(p, "deliver") PROVE MailInv'
  <2> DEFINE r == [send[p] EXCEPT !.step = "deliver"]
  <2>1. r \in Sent
    BY <1>2, SentEdits
  <2>2. r.to = send[p].to /\ r.listed = send[p].listed /\ r.step = "deliver"
    BY <1>2 DEF Sent
  <2>3. send' = [send EXCEPT ![p] = r]
    BY <1>0, <1>7 DEF Mail!Goto, MailTypes
  <2>4. ~send[p].listed
    BY <1>0, <1>1, <1>7 DEF StillListed, Mail!IsSuppressed
  <2> HIDE DEF r
  <2> QED BY <1>5, <2>1, <2>2, <2>3, <2>4
<1>8. ASSUME send' = [send EXCEPT ![p].step = IF Configured THEN "deliver" ELSE "record", ![p].blind = TRUE,
                                  ![p].status = IF Configured THEN "none" ELSE "dry_run"]
      PROVE  MailInv'
  <2> DEFINE x == IF Configured THEN "deliver" ELSE "record"
             s == IF Configured THEN "none" ELSE "dry_run"
             r == [send[p] EXCEPT !.step = x, !.blind = TRUE, !.status = s]
  <2>1. x \in {"deliver", "record"} /\ s \in {"none", "dry_run"} /\ (x = "record" => s = "dry_run")
    OBVIOUS
  <2>2. send' = [send EXCEPT ![p] = r]
    BY <1>0, <1>8 DEF MailTypes
  <2> HIDE DEF x, s
  <2>3. r \in Sent
    BY <1>2, <1>4, <2>1, SentEdits
  <2>4. r.to = send[p].to /\ r.listed = send[p].listed /\ r.step = x /\ r.status = s /\ r.blind
    BY <1>2 DEF Sent
  <2> HIDE DEF r
  <2> QED BY <1>5, <2>1, <2>2, <2>3, <2>4
<1> QED BY <1>6, <1>7, <1>8 DEF Mail!Lookup

LEMMA DeliverKeeps ==
  ASSUME MailInv, NEW p \in Sends, Mail!deliver(p)
  PROVE  MailInv'
<1>0. MailTypes
  BY DEF MailInv
<1>1. PICK a \in Mail!Replies :
        /\ send[p].step = "deliver" /\ Mail!fail(p, Mail!classify(a))
        /\ refused' = IF a.at = "rcpt" /\ a.code = 5 THEN refused \cup {Mail!To(p)} ELSE refused
        /\ UNCHANGED <<suppressed, events, gauge, lifts, torn>>
  BY DEF Mail!deliver, Mail!At
<1> DEFINE s == Mail!classify(a)
           r == [send[p] EXCEPT !.step = "record", !.status = s]
<1>2. send[p] \in Sent
  BY <1>0, <1>1, InSent
<1>3. s \in Mail!Statuses /\ (s = "hard_bounce" => Mail!To(p) \in refused') /\ refused \subseteq refused'
  BY <1>1, ClassifyTyped
<1>4. send' = [send EXCEPT ![p] = r]
  BY <1>0, <1>1 DEF Mail!fail, MailTypes
<1> HIDE DEF s
<1>5. r \in Sent
  BY <1>2, <1>3, SentEdits
<1>6. r.to = send[p].to /\ r.listed = send[p].listed /\ r.step = "record" /\ r.status = s
  BY <1>2 DEF Sent
<1>7. torn' \in BOOLEAN /\ events' \in [Sends -> Mail!Statuses \cup {"none"}]
  BY <1>0, <1>1 DEF MailTypes
<1> HIDE DEF r
<1> QED BY <1>1, <1>2, <1>3, <1>4, <1>5, <1>6, <1>7, MoveOn

LEMMA RecordEventKeeps ==
  ASSUME MailInv, NEW p \in Sends, Mail!RecordEvent(p)
  PROVE  MailInv'
<1>0. MailTypes /\ Earned(p)
  BY DEF MailInv
<1>1. /\ send[p].step = "record" /\ UNCHANGED <<suppressed, gauge, lifts, refused>>
      /\ \/ events' = [events EXCEPT ![p] = send[p].status] /\ torn' = torn
         \/ events' = events /\ torn' = TRUE
      /\ Mail!Goto(p, IF send[p].status = "hard_bounce" THEN "suppress" ELSE "done")
  BY DEF Mail!RecordEvent, Mail!At
<1>2. send[p].status \in Mail!Statuses /\ (send[p].status = "hard_bounce" => Mail!To(p) \in refused)
  BY <1>0, <1>1 DEF Earned
<1> DEFINE x == IF send[p].status = "hard_bounce" THEN "suppress" ELSE "done"
           r == [send[p] EXCEPT !.step = x]
<1>3. x \in {"suppress", "done"} /\ (x = "suppress" => Mail!To(p) \in refused)
      /\ (send[p].status = "hard_bounce" => x = "suppress")
  BY <1>2
<1>4. send' = [send EXCEPT ![p] = r]
  BY <1>0, <1>1 DEF Mail!Goto, MailTypes
<1> HIDE DEF x
<1>5. send[p] \in Sent
  BY <1>0, <1>1, InSent, SMTT(60)
<1>6. r \in Sent
  BY <1>3, <1>5, SentEdits
<1>7. r.to = send[p].to /\ r.listed = send[p].listed /\ r.step = x
  BY <1>5 DEF Sent
<1>8. events' \in [Sends -> Mail!Statuses \cup {"none"}] /\ \A q \in Sends \ {p} : events'[q] = events[q]
  BY <1>0, <1>1, <1>2 DEF MailTypes
<1>9. ~torn' => events'[p] = send[p].status
  BY <1>0, <1>1 DEF MailTypes
<1>10. torn' \in BOOLEAN /\ (torn => torn')
  <2>1. torn \in BOOLEAN /\ (torn' = torn \/ torn' = TRUE)
    BY <1>0, <1>1 DEF MailTypes
  <2> QED BY <2>1
<1> HIDE DEF r
<1> QED BY <1>1, <1>2, <1>3, <1>4, <1>5, <1>6, <1>7, <1>8, <1>9, <1>10, MoveOn

LEMMA CancelKeeps ==
  ASSUME MailInv, NEW p \in Sends, Mail!Cancel(p)
  PROVE  MailInv'
<1>0. MailTypes /\ Earned(p) /\ NotSent(p)
  BY DEF MailInv
<1>1. /\ send[p].step \in {"lookup", "deliver", "record"} /\ send' = [send EXCEPT ![p].cancelled = TRUE]
      /\ UNCHANGED <<suppressed, events, gauge, lifts, refused, torn>>
  BY DEF Mail!Cancel
<1> DEFINE r == [send[p] EXCEPT !.cancelled = TRUE]
<1>2. send[p] \in Sent
  BY <1>0, <1>1, InSent
<1>3. r \in Sent
  BY <1>2, SentEdits
<1>4. r.to = send[p].to /\ r.listed = send[p].listed /\ r.step = send[p].step /\ r.status = send[p].status
      /\ r.blind = send[p].blind
  BY <1>2 DEF Sent
<1>5. send' = [send EXCEPT ![p] = r]
  BY <1>0, <1>1 DEF MailTypes
<1>6. torn' \in BOOLEAN /\ events' \in [Sends -> Mail!Statuses \cup {"none"}]
  BY <1>0, <1>1 DEF MailTypes
<1>7. /\ send[p].step = "record" => /\ send[p].status \in Mail!Statuses
                                    /\ send[p].status = "hard_bounce" => Mail!To(p) \in refused
      /\ send[p].step = "deliver" /\ send[p].listed => send[p].blind
  BY <1>0 DEF Earned, NotSent
<1> HIDE DEF r
<1> QED BY <1>1, <1>2, <1>3, <1>4, <1>5, <1>6, <1>7, MoveOn, ZenonT(60)

\* A step of one send at the gauge, for the same recipient; the list only grows by an address the
\* server refused.
LEMMA GaugeStep ==
  ASSUME MailInv, NEW p \in Sends, send[p] \in Sent, NEW r \in Sent, send' = [send EXCEPT ![p] = r],
         r.to = send[p].to, r.listed = send[p].listed,
         send[p].step \in {"suppress", "count", "set"}, r.step \in {"count", "set", "done"},
         suppressed' \in [Mail!Addresses -> Nat], Mail!Listed \subseteq Mail!Listed', Mail!Listed' \subseteq refused,
         send[p].step = "suppress" => Mail!To(p) \in Mail!Listed',
         UNCHANGED <<events, lifts, refused>>, torn' \in BOOLEAN, torn => torn',
         OneSetter', SetterRight', GaugeRight'
  PROVE  MailInv'
<1>0. /\ MailTypes /\ \A q \in Sends : Earned(q) /\ StillListed(q) /\ NotSent(q) /\ Recorded(q)
  BY DEF MailInv
<1>1. /\ send' \in [Sends -> Sent \cup {NewMail}] /\ send'[p] = r /\ \A q \in Sends \ {p} : send'[q] = send[q]
  BY <1>0 DEF MailTypes
<1>2. MailTypes'
  BY <1>0, <1>1 DEF MailTypes, Mail!Addresses, Tallies
<1>3. \A q \in Sends : Mail!To(q)' = Mail!To(q)
  BY <1>1 DEF Mail!To
<1>4. ASSUME NEW q \in Sends PROVE (Earned(q) /\ StillListed(q) /\ NotSent(q) /\ Recorded(q))'
  <2>1. Earned(q) /\ StillListed(q) /\ NotSent(q) /\ Recorded(q) /\ Mail!To(q)' = Mail!To(q)
    BY <1>0, <1>3
  <2>2. CASE q = p
    <3>1. Earned(q)' /\ NotSent(q)'
      BY <1>1, <2>2 DEF Earned, NotSent
    <3>2. StillListed(q)'
      BY <1>1, <2>1, <2>2, SentFields DEF StillListed
    <3>3. Recorded(q)'
      BY <1>1, <2>1, <2>2 DEF Recorded, Mail!Statuses
    <3> QED BY <3>1, <3>2, <3>3
  <2>3. CASE q # p
    <3>0. send'[q] = send[q]
      BY <1>1, <2>3
    <3>1. Earned(q)'
      BY <2>1, <3>0 DEF Earned, Mail!Statuses
    <3>2. StillListed(q)'
      BY <2>1, <3>0 DEF StillListed
    <3>3. NotSent(q)'
      BY <2>1, <3>0 DEF NotSent
    <3>4. Recorded(q)'
      BY <2>1, <3>0 DEF Recorded, Mail!Statuses
    <3> QED BY <3>1, <3>2, <3>3, <3>4
  <2> QED BY <2>2, <2>3
<1> QED BY <1>2, <1>4 DEF MailInv

LEMMA SuppressKeeps ==
  ASSUME MailInv, NEW p \in Sends, Mail!Suppress(p)
  PROVE  MailInv'
<1>0. MailTypes /\ Mail!Listed \subseteq refused /\ Earned(p) /\ OneSetter
  BY DEF MailInv
<1>1. send[p].step = "suppress" /\ UNCHANGED <<events, gauge, lifts, refused>>
  BY DEF Mail!Suppress, Mail!At
<1>2. send[p] \in Sent
  BY <1>0, <1>1, InSent
<1>3. CASE suppressed' = [suppressed EXCEPT ![Mail!To(p)] = @ + 1] /\ Mail!Goto(p, "count") /\ torn' = torn
  <2> DEFINE r == [send[p] EXCEPT !.step = "count"]
  <2>1. r \in Sent
    BY <1>2, SentEdits
  <2>2. r.to = send[p].to /\ r.listed = send[p].listed /\ r.step = "count"
    BY <1>2 DEF Sent
  <2>3. send' = [send EXCEPT ![p] = r]
    BY <1>0, <1>3 DEF Mail!Goto, MailTypes
  <2> HIDE DEF r
  <2>4. Mail!To(p) \in Mail!Addresses /\ Mail!To(p) \in refused
    BY <1>0, <1>1, <1>2, SentFields DEF Mail!To, Earned
  <2>5. /\ suppressed' \in [Mail!Addresses -> Nat]
        /\ \A a \in Mail!Addresses : suppressed'[a] = IF a = Mail!To(p) THEN suppressed[a] + 1 ELSE suppressed[a]
    <3>1. suppressed' = [suppressed EXCEPT ![Mail!To(p)] = suppressed[Mail!To(p)] + 1]
      BY <1>3
    <3>2. suppressed \in [Mail!Addresses -> Nat] /\ suppressed[Mail!To(p)] + 1 \in Nat
      BY <1>0, <2>4 DEF MailTypes
    <3> QED BY <2>4, <3>1, <3>2
  <2>6. Mail!Listed' = Mail!Listed \cup {Mail!To(p)}
    <3>1. Mail!Listed' = {a \in Mail!Addresses : suppressed'[a] > 0}
      BY DEF Mail!Listed, Mail!Addresses
    <3>2. \A a \in Mail!Addresses : suppressed[a] \in Nat
      BY <1>0 DEF MailTypes
    <3> QED BY <2>4, <2>5, <3>1, <3>2 DEF Mail!Listed
  <2>7. send'[p].step = "count" /\ \A q \in Sends \ {p} : send'[q] = send[q]
    BY <1>0, <2>2, <2>3 DEF MailTypes
  <2>8. OneSetter' /\ SetterRight' /\ GaugeRight'
    <3>1. OneSetter'
      BY <1>0, <1>3, <2>7 DEF OneSetter
    <3>2. SetterRight'
      BY <2>7 DEF SetterRight, NoCounter
    <3>3. GaugeRight'
      BY <2>7 DEF GaugeRight
    <3> QED BY <3>1, <3>2, <3>3
  <2>9. torn' \in BOOLEAN /\ (torn => torn')
    BY <1>0, <1>3 DEF MailTypes
  <2> QED BY <1>0, <1>1, <1>2, <2>1, <2>2, <2>3, <2>4, <2>5, <2>6, <2>8, <2>9, GaugeStep
<1>4. CASE suppressed' = suppressed /\ Mail!Goto(p, "done") /\ torn' = TRUE
  <2> DEFINE r == [send[p] EXCEPT !.step = "done"]
  <2>1. r \in Sent
    BY <1>2, SentEdits
  <2>2. r.to = send[p].to /\ r.listed = send[p].listed /\ r.step = "done"
    BY <1>2 DEF Sent
  <2>3. send' = [send EXCEPT ![p] = r]
    BY <1>0, <1>4 DEF Mail!Goto, MailTypes
  <2> HIDE DEF r
  <2>4. events' \in [Sends -> Mail!Statuses \cup {"none"}]
    BY <1>0, <1>1 DEF MailTypes
  <2>5. torn' /\ torn' \in BOOLEAN
    BY <1>4
  <2> QED BY <1>1, <1>2, <1>4, <2>1, <2>2, <2>3, <2>4, <2>5, MoveOn
<1> QED BY <1>3, <1>4 DEF Mail!Suppress

LEMMA CountKeeps ==
  ASSUME MailInv, NEW p \in Sends, Mail!CountSuppressions(p)
  PROVE  MailInv'
<1>0. MailTypes /\ Mail!Listed \subseteq refused
  BY DEF MailInv
<1> DEFINE n == Mail!Cardinality(Mail!Listed)
           r == [send[p] EXCEPT !.step = "set", !.status = n]
<1>1. /\ send[p].step = "count" /\ UNCHANGED <<suppressed, events, gauge, lifts, refused>>
      /\ send' = [send EXCEPT ![p].step = "set", ![p].status = Mail!Cardinality(Mail!Listed)]
  BY DEF Mail!CountSuppressions, Mail!At
<1>2. torn' = (torn \/ \E q \in Sends \ {p} : send[q].step \in {"suppress", "count", "set"})
  BY DEF Mail!CountSuppressions
<1>3. send[p] \in Sent
  BY <1>0, <1>1, InSent
<1>4. n \in Tallies
  BY DEF Tallies, Mail!Listed
<1>5. send' = [send EXCEPT ![p] = r]
  BY <1>0, <1>1 DEF MailTypes
<1>6. Mail!Listed' = Mail!Listed /\ Mail!Cardinality(Mail!Listed') = n
  BY <1>1 DEF Mail!Listed, Mail!Addresses
<1> HIDE DEF n
<1>7. r \in Sent
  BY <1>3, <1>4, SentEdits
<1>8. r.to = send[p].to /\ r.listed = send[p].listed /\ r.step = "set" /\ r.status = n
  BY <1>3 DEF Sent
<1> HIDE DEF r
<1>9. torn' \in BOOLEAN /\ (torn => torn') /\ (~torn' => \A q \in Sends \ {p} : send[q].step \notin {"count", "set"})
  <2>1. torn \in BOOLEAN
    BY <1>0 DEF MailTypes
  <2> QED BY <1>2, <2>1
<1>10. send'[p] = r /\ \A q \in Sends \ {p} : send'[q] = send[q]
  BY <1>0, <1>5 DEF MailTypes
<1>11. OneSetter'
  BY <1>9, <1>10 DEF OneSetter
<1>12. SetterRight'
  <2>1. ASSUME ~torn', NEW q \in Sends, send'[q].step = "set" PROVE send'[q].status = n
    BY <1>8, <1>9, <1>10, <2>1
  <2>2. (Mail!Cardinality(Mail!Listed))' = n
    BY <1>6 DEF Mail!Cardinality
  <2> QED BY <2>1, <2>2 DEF SetterRight
<1>13. GaugeRight'
  BY <1>8, <1>10 DEF GaugeRight
<1>14. suppressed' \in [Mail!Addresses -> Nat]
  BY <1>0, <1>1 DEF MailTypes
<1> QED BY <1>0, <1>1, <1>3, <1>5, <1>6, <1>7, <1>8, <1>9, <1>11, <1>12, <1>13, <1>14, GaugeStep

LEMMA SetGaugeKeeps ==
  ASSUME MailInv, NEW p \in Sends, Mail!SetGauge(p)
  PROVE  MailInv'
<1>0. MailTypes /\ Mail!Listed \subseteq refused /\ OneSetter /\ SetterRight
  BY DEF MailInv
<1> DEFINE r == [send[p] EXCEPT !.step = "done"]
<1>1. /\ send[p].step = "set" /\ gauge' = send[p].status /\ Mail!Goto(p, "done")
      /\ UNCHANGED <<suppressed, events, lifts, refused, torn>>
  BY DEF Mail!SetGauge, Mail!At
<1>2. send[p] \in Sent
  BY <1>0, <1>1, InSent, SMTT(60)
<1>3. r \in Sent
  BY <1>2, SentEdits
<1>4. r.to = send[p].to /\ r.listed = send[p].listed /\ r.step = "done"
  BY <1>2 DEF Sent
<1>5. send' = [send EXCEPT ![p] = r]
  BY <1>0, <1>1 DEF Mail!Goto, MailTypes
<1> HIDE DEF r
<1>6. Mail!Listed' = Mail!Listed /\ (Mail!Cardinality(Mail!Listed))' = Mail!Cardinality(Mail!Listed)
  BY <1>1 DEF Mail!Listed, Mail!Addresses, Mail!Cardinality
<1>7. send'[p] = r /\ \A q \in Sends \ {p} : send'[q] = send[q]
  BY <1>0, <1>5 DEF MailTypes
<1>8. OneSetter'
  BY <1>0, <1>1, <1>4, <1>7 DEF OneSetter
<1>9. \A q \in Sends : send'[q].step # "count" => send[q].step # "count"
  BY <1>1, <1>7
<1>10. SetterRight'
  BY <1>0, <1>1, <1>4, <1>6, <1>7, <1>9 DEF SetterRight, NoCounter
<1>11. GaugeRight'
  <2> SUFFICES ASSUME ~torn', \A q \in Sends : send'[q].step \notin {"count", "set"}
               PROVE  gauge' = (Mail!Cardinality(Mail!Listed))'
    BY DEF GaugeRight
  <2>1. ~torn /\ NoCounter
    BY <1>1, <1>9 DEF NoCounter
  <2> QED BY <1>0, <1>1, <1>6, <2>1 DEF SetterRight
<1>12. suppressed' \in [Mail!Addresses -> Nat] /\ torn' \in BOOLEAN
  BY <1>0, <1>1 DEF MailTypes
<1> QED BY <1>0, <1>1, <1>2, <1>3, <1>4, <1>5, <1>6, <1>8, <1>10, <1>11, <1>12, GaugeStep

LEMMA UnsuppressKeeps ==
  ASSUME MailInv, NEW a \in Mail!Addresses, Mail!Unsuppress(a)
  PROVE  MailInv'
<1>0. /\ MailTypes /\ Mail!Listed \subseteq refused
      /\ \A q \in Sends : Earned(q) /\ StillListed(q) /\ NotSent(q) /\ Recorded(q)
  BY DEF MailInv
<1>1. /\ suppressed' = [suppressed EXCEPT ![a] = 0] /\ gauge' = Mail!Cardinality(Mail!Listed \ {a})
      /\ send' = [p \in Sends |-> IF send[p].step # "new" /\ Mail!To(p) = a
                                  THEN [send[p] EXCEPT !.listed = FALSE] ELSE send[p]]
      /\ lifts' = lifts + 1 /\ UNCHANGED <<events, refused>>
  BY DEF Mail!Unsuppress
<1>2. torn' = (torn \/ \E p \in Sends : send[p].step \in {"suppress", "count", "set"})
  BY DEF Mail!Unsuppress
<1>3. torn' \in BOOLEAN /\ (torn => torn') /\ (~torn' => \A q \in Sends : send[q].step \notin {"count", "set"})
  <2>1. torn \in BOOLEAN
    BY <1>0 DEF MailTypes
  <2> QED BY <1>2, <2>1
<1>4. /\ suppressed' \in [Mail!Addresses -> Nat]
      /\ \A b \in Mail!Addresses : suppressed'[b] = IF b = a THEN 0 ELSE suppressed[b]
  BY <1>0, <1>1 DEF MailTypes
<1>5. Mail!Listed' = Mail!Listed \ {a}
  <2>1. Mail!Listed' = {b \in Mail!Addresses : suppressed'[b] > 0}
    BY DEF Mail!Listed, Mail!Addresses
  <2> QED BY <1>4, <2>1 DEF Mail!Listed
<1>6. ASSUME NEW q \in Sends
      PROVE  /\ send'[q] \in Sent \cup {NewMail} /\ send'[q].step = send[q].step
             /\ send[q].step # "new" =>
                  /\ send'[q].to = send[q].to /\ send'[q].status = send[q].status /\ send'[q].blind = send[q].blind
                  /\ send'[q].listed => send[q].listed /\ Mail!To(q) # a
  <2>1. CASE send[q].step # "new" /\ Mail!To(q) = a
    <3> DEFINE r == [send[q] EXCEPT !.listed = FALSE]
    <3>1. send'[q] = r
      BY <1>1, <2>1
    <3>2. send[q] \in Sent
      BY <1>0, <2>1, InSent, SMTT(60)
    <3>3. r \in Sent
      BY <3>2, SentEdits
    <3>4. r.step = send[q].step /\ r.to = send[q].to /\ r.status = send[q].status /\ r.blind = send[q].blind /\ ~r.listed
      BY <3>2 DEF Sent
    <3> HIDE DEF r
    <3> QED BY <3>1, <3>3, <3>4
  <2>2. CASE ~(send[q].step # "new" /\ Mail!To(q) = a)
    <3>1. send'[q] = send[q]
      BY <1>1, <2>2
    <3> QED BY <1>0, <2>2, <3>1 DEF MailTypes
  <2> QED BY <2>1, <2>2
<1>7. MailTypes'
  <2>1. send' \in [Sends -> Sent \cup {NewMail}]
    BY <1>1, <1>6
  <2> QED BY <1>0, <1>1, <1>3, <1>4, <2>1 DEF MailTypes, Mail!Addresses, Tallies
<1>8. ASSUME NEW q \in Sends PROVE (Earned(q) /\ StillListed(q) /\ NotSent(q) /\ Recorded(q))'
  <2>0. Earned(q) /\ StillListed(q) /\ NotSent(q) /\ Recorded(q)
    BY <1>0
  <2>1. send[q].step # "new" => Mail!To(q)' = Mail!To(q)
    BY <1>6 DEF Mail!To
  <2>2. Earned(q)'
    BY <1>1, <1>6, <2>0, <2>1 DEF Earned, Mail!Statuses
  <2>3. StillListed(q)'
    BY <1>5, <1>6, <2>0, <2>1 DEF StillListed
  <2>4. NotSent(q)'
    BY <1>6, <2>0 DEF NotSent
  <2>5. Recorded(q)'
    <3>1. lifts' # 0
      BY <1>0, <1>1 DEF MailTypes
    <3> QED BY <1>1, <1>3, <1>6, <2>0, <2>1, <3>1 DEF Recorded, Mail!Statuses
  <2> QED BY <2>2, <2>3, <2>4, <2>5
<1>9. OneSetter' /\ SetterRight'
  BY <1>3, <1>6 DEF OneSetter, SetterRight
<1>10. GaugeRight'
  <2>1. gauge' = (Mail!Cardinality(Mail!Listed))'
    BY <1>1, <1>5 DEF Mail!Cardinality
  <2> QED BY <2>1 DEF GaugeRight
<1> QED BY <1>0, <1>1, <1>5, <1>7, <1>8, <1>9, <1>10 DEF MailInv

LEMMA MailInitInv == Mail!MailInit => MailInv
<1> SUFFICES ASSUME Mail!MailInit PROVE MailInv
  OBVIOUS
<1>1. /\ send = [p \in Sends |-> NewMail] /\ suppressed = [a \in Mail!Addresses |-> 0]
      /\ events = [p \in Sends |-> "none"] /\ gauge = 0 /\ torn = FALSE /\ lifts = 0
  BY DEF Mail!MailInit, NewMail
<1>2. MailTypes
  BY <1>1 DEF MailTypes
<1>3. Mail!Listed = {}
  BY <1>1 DEF Mail!Listed
<1>4. \A p \in Sends : send[p].step = "new"
  BY <1>1, NewIsNew
<1>5. \A p \in Sends : Earned(p) /\ StillListed(p) /\ NotSent(p) /\ Recorded(p)
  BY <1>4 DEF Earned, StillListed, NotSent, Recorded
<1>6. Mail!Cardinality({}) = Cardinality({})
  BY Zenon DEF Mail!Cardinality, Cardinality
<1>7. gauge = Mail!Cardinality(Mail!Listed)
  BY <1>1, <1>3, <1>6, FS_EmptySet
<1>8. OneSetter /\ SetterRight /\ GaugeRight
  BY <1>4, <1>7 DEF OneSetter, SetterRight, GaugeRight
<1> QED BY <1>2, <1>3, <1>5, <1>8 DEF MailInv

LEMMA MailNextInv == MailInv /\ Mail!MailNext => MailInv'
BY SendMessageKeeps, LookupKeeps, DeliverKeeps, RecordEventKeeps, SuppressKeeps, CountKeeps, SetGaugeKeeps,
   CancelKeeps, UnsuppressKeeps DEF Mail!MailNext

LEMMA MailSafe ==
  MailInv => Mail!SuppressionEarned /\ Mail!NoMailToSuppressed /\ Mail!AttemptsRecorded /\ Mail!GaugeTrue
<1> SUFFICES ASSUME MailInv
             PROVE  Mail!SuppressionEarned /\ Mail!NoMailToSuppressed /\ Mail!AttemptsRecorded /\ Mail!GaugeTrue
  OBVIOUS
<1>1. Mail!SuppressionEarned
  BY DEF MailInv, Recorded, Mail!SuppressionEarned, Mail!At
<1>2. Mail!NoMailToSuppressed
  BY DEF MailInv, NotSent, Mail!NoMailToSuppressed
<1>3. Mail!AttemptsRecorded
  BY DEF MailInv, Recorded, Mail!AttemptsRecorded, Mail!At
<1>4. Mail!GaugeTrue
  BY DEF MailInv, GaugeRight, Mail!GaugeTrue
<1> QED BY <1>1, <1>2, <1>3, <1>4

-----------------------------------------------------------------------------
(* The identity subsystem.  A behaviour exercises one part; its invariant is *)
(* kept by the steps of that part and by nobody else's.                      *)

IdentityInv == /\ part = "account" => AccInv
               /\ part = "roles" => RolesInv
               /\ part # "roles" => had = FALSE
               /\ part = "oidc" => OInv
               /\ part = "passkeys" => KeyInv
               /\ part = "mail" => MailInv

LEMMA IdentityInitInv == IdentityInit => IdentityInv
<1> SUFFICES ASSUME IdentityInit PROVE IdentityInv
  OBVIOUS
<1>1. CASE part = "account" /\ Acc!Init /\ NoRoles
  BY <1>1, AccInit DEF IdentityInv, NoRoles
<1>2. CASE part = "roles" /\ Init
  BY <1>2, RolesInit DEF IdentityInv
<1>3. CASE part = "oidc" /\ OIDC!Init /\ NoRoles
  BY <1>3, OInit DEF IdentityInv, NoRoles
<1>4. CASE part = "passkeys" /\ Passkeys!Init /\ NoRoles
  BY <1>4, KeyInit DEF IdentityInv, NoRoles
<1>5. CASE part = "mail" /\ Mail!MailInit /\ NoRoles
  BY <1>5, MailInitInv DEF IdentityInv, NoRoles
<1> QED BY <1>1, <1>2, <1>3, <1>4, <1>5 DEF IdentityInit

\* A step that touches nothing of a part keeps its invariant.
LEMMA AccountRests == AccInv /\ UNCHANGED accountVars => AccInv'
<1> SUFFICES ASSUME AccInv, UNCHANGED accountVars PROVE AccInv'
  OBVIOUS
<1>0. /\ row' = row /\ fails' = fails /\ locked' = locked /\ vtoks' = vtoks /\ rtok' = rtok /\ sess' = sess
      /\ challenge' = challenge /\ pc' = pc /\ cp' = cp /\ old' = old /\ todo' = todo /\ arg' = arg /\ link' = link
      /\ ops' = ops /\ stale' = stale /\ proven' = proven /\ shown' = shown /\ spent' = spent /\ handed' = handed
      /\ lockSeen' = lockSeen /\ died' = died
  BY DEF accountVars
<1>1. Acc!TypeOK'
  BY <1>0 DEF AccInv, Acc!TypeOK, Acc!Rows, Acc!Steps
<1>2. SecretInv'
  BY <1>0 DEF AccInv, SecretInv
<1>3. CodesInv'
  BY <1>0 DEF AccInv, CodesInv, CodesLive, CodesHanded, Fresh
<1>4. LockInv'
  <2>1. Early' = Early /\ Locking' = Locking
    BY <1>0 DEF Early, Locking
  <2> QED BY <1>0, <2>1 DEF AccInv, LockInv
<1> QED BY <1>1, <1>2, <1>3, <1>4 DEF AccInv

LEMMA OIDCRests == OInv /\ UNCHANGED oidcVars => OInv'
<1> SUFFICES ASSUME OInv, UNCHANGED oidcVars PROVE OInv'
  OBVIOUS
<1>0. /\ states' = states /\ issued' = issued /\ cookie' = cookie /\ code' = code /\ identity' = identity
      /\ account' = account /\ claim' = claim /\ cb' = cb /\ handoff' = handoff /\ session' = session /\ moved' = moved
  BY DEF oidcVars
<1>1. OTypes' /\ UniqueEmails' /\ LiveRefs' /\ Handed'
  BY <1>0 DEF OInv, OTypes, UniqueEmails, LiveRefs, Handed
<1>2. Shape'
  BY <1>0 DEF OInv, Shape, ShapeOf
<1>3. Linking'
  BY <1>0 DEF OInv, Linking, ToBeLinked, LinkedMeanwhile, FoundIsLinked, KeepsAddress
<1>4. FlowInv'
  BY <1>0, FlowShrink DEF OInv
<1> QED BY <1>1, <1>2, <1>3, <1>4 DEF OInv

LEMMA PasskeysRest == KeyInv /\ UNCHANGED keyVars => KeyInv'
<1> SUFFICES ASSUME KeyInv, UNCHANGED keyVars PROVE KeyInv'
  OBVIOUS
<1>1. UNCHANGED <<ceremony, begun, evicting, cred, count, device, disabled, fin, logins>>
  BY DEF keyVars
<1>2. cred' \in [Creds -> Users \cup {None}] /\ disabled' \subseteq Users
  BY <1>1 DEF KeyInv, KeyTypes
<1> QED BY <1>1, <1>2, OtherKeyStep

LEMMA MailRests == MailInv /\ UNCHANGED mailVars => MailInv'
<1> SUFFICES ASSUME MailInv, UNCHANGED mailVars PROVE MailInv'
  OBVIOUS
<1>0. /\ send' = send /\ suppressed' = suppressed /\ events' = events /\ gauge' = gauge /\ refused' = refused
      /\ torn' = torn /\ lifts' = lifts
  BY DEF mailVars
<1>1. MailTypes' /\ Mail!Listed' = Mail!Listed
  BY <1>0 DEF MailInv, MailTypes, Mail!Listed, Mail!Addresses
<1>2. ASSUME NEW p \in Sends PROVE (Earned(p) /\ StillListed(p) /\ NotSent(p) /\ Recorded(p))'
  <2>1. Mail!To(p)' = Mail!To(p)
    BY <1>0 DEF Mail!To
  <2> QED BY <1>0, <1>1, <2>1 DEF MailInv, Earned, StillListed, NotSent, Recorded, Mail!Statuses
<1>3. OneSetter' /\ SetterRight' /\ GaugeRight'
  BY <1>0, <1>1 DEF MailInv, OneSetter, SetterRight, NoCounter, GaugeRight, Mail!Cardinality
<1> QED BY <1>0, <1>1, <1>2, <1>3 DEF MailInv

LEMMA IdentityNextInv == IdentityInv /\ [IdentityNext]_allVars => IdentityInv'
<1> SUFFICES ASSUME IdentityInv, [IdentityNext]_allVars PROVE IdentityInv'
  OBVIOUS
<1>1. CASE part = "account" /\ Acc!Next /\ UNCHANGED <<part, vars>>
  BY <1>1, AccNext DEF IdentityInv, vars
<1>2. CASE part = "roles" /\ Next /\ UNCHANGED part
  BY <1>2, RolesNext DEF IdentityInv
<1>3. CASE part = "oidc" /\ OIDC!Next /\ UNCHANGED <<part, vars>>
  BY <1>3, ONext DEF IdentityInv, vars
<1>4. CASE part = "passkeys" /\ Passkeys!Next /\ UNCHANGED <<part, vars>>
  BY <1>4, KeyNext DEF IdentityInv, vars
<1>5. CASE part = "mail" /\ Mail!MailNext /\ UNCHANGED <<part, vars>>
  BY <1>5, MailNextInv DEF IdentityInv, vars
<1>6. CASE UNCHANGED allVars
  <2>1. part' = part /\ UNCHANGED accountVars /\ UNCHANGED vars /\ UNCHANGED oidcVars /\ UNCHANGED keyVars /\ UNCHANGED mailVars
    BY <1>6 DEF allVars
  <2>2. had' = had
    BY <2>1 DEF vars
  <2> QED BY <2>1, <2>2, AccountRests, RolesNext, OIDCRests, PasskeysRest, MailRests DEF IdentityInv
<1> QED BY <1>1, <1>2, <1>3, <1>4, <1>5, <1>6 DEF IdentityNext

LEMMA IdentityHolds == IdentitySpec => []IdentityInv
BY IdentityInitInv, IdentityNextInv, PTL DEF IdentitySpec

\* The account row, for any number of overlapping requests, passwords, secrets, recovery codes and
\* addresses: the lock comes in time, a recovery code is accepted once unless a stale write brought
\* it back, and an active second factor was proven (Login, ValidateTOTP, VerifyAndEnable, Update);
\* and every part keeps its types.
THEOREM AccountIsSafe == IdentitySpec => []AccountSafe
<1>1. IdentityInv => AccountSafe
  BY AccSafe, OSafe, KeySafe DEF IdentityInv, AccountSafe, TypesOK, RolesInv
<1> QED BY <1>1, IdentityHolds, PTL

\* The last active admin is never revoked, disabled, deleted or left with an unverified
\* address by any interleaving of the guarded requests (guardedWrite, ErrLastAdmin), for
\* every number of accounts and of overlapping requests.
THEOREM LastAdminStays == IdentitySpec => []LastAdminKept
<1>1. IdentityInv => LastAdminKept
  <2> SUFFICES ASSUME IdentityInv PROVE LastAdminKept
    OBVIOUS
  <2>1. CASE part = "roles"
    BY <2>1 DEF IdentityInv, RolesInv
  <2>2. CASE part # "roles"
    BY <2>2 DEF IdentityInv, LastAdminKept
  <2> QED BY <2>1, <2>2
<1> QED BY <1>1, IdentityHolds, PTL

\* Logins, for any number of browsers, flows, people and accounts: a login through the provider ends
\* in the account that is linked to the person unless an address moved meanwhile, belongs to the
\* browser that began it and is used once (HandleOidcCallback, provisionUser, ExchangeOidcCode); a
\* user's open passkey ceremonies stay within the limit and each is finished once, for the user
\* it was begun for (DeleteOldestForUser, Consume).
THEOREM LoginsAreSafe == IdentitySpec => []LoginsSafe
<1>1. IdentityInv => LoginsSafe
  BY OSafe, KeySafe DEF IdentityInv, LoginsSafe
<1> QED BY <1>1, IdentityHolds, PTL

\* Mail, for any number of sends and addresses: only an address that the server refused for good is
\* suppressed, no mail goes to an address suppressed when the send began, every send leaves its
\* event, and the gauge shows the list (SendMessage, RecordAttempt, refreshSuppressionGauge).
THEOREM MailIsAccountedFor == IdentitySpec => []MailAccountedFor
<1>1. IdentityInv => MailAccountedFor
  BY MailSafe DEF IdentityInv, MailAccountedFor
<1> QED BY <1>1, IdentityHolds, PTL
=============================================================================
