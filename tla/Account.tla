------------------------------ MODULE Account ------------------------------
(***************************************************************************)
(* One row of the users table: password, second factor, recovery codes,   *)
(* lockout counter, address and its verification, and the tokens that are  *)
(* mailed for a password reset and for a verification.                     *)
(*                                                                         *)
(* Requests run statement by statement.  Some statements touch one column  *)
(* (the counter, the lock, a recovery code, the verified flag), but        *)
(* UserRepository.Update writes back every other column from a copy read   *)
(* by an earlier statement; cp[p] is the row request p is going to write.  *)
(***************************************************************************)
EXTENDS Naturals, FiniteSets

CONSTANTS Procs,     \* requests under way
          Pwds,      \* passwords
          Secrets,   \* TOTP secrets
          Codes,     \* recovery codes that generateRecoveryCodes may draw
          Mails,     \* mail addresses of the user
          Links,     \* password reset tokens
          NoSecret,
          Max,       \* maxFailedLoginAttempts
          MaxOps     \* bound: requests started

VARIABLES row,     \* the columns Update writes
          fails,   \* failed_login_attempts
          locked,  \* locked_until lies in the future
          vtoks,   \* live verification tokens, by the address they were mailed to
          rtok,    \* password_reset_tokens: absent, live or used
          sess,    \* live sessions, by the password they were opened with
          challenge, \* a 2FA token was handed out and is valid
          pc, cp, old, todo, arg, link, ops,
          stale,   \* history: some Update undid a change it had not seen
          proven,  \* history: addresses whose link was followed
          shown,   \* history: secrets the user entered a valid code for
          spent,   \* history: how often a recovery code was accepted
          handed,  \* history: recovery codes that were drawn
          lockSeen, \* history: the lock was set since the last reset
          died     \* history: requests that ended when they were about to lock

rowVars == <<row, fails, locked>>
hist == <<stale, proven, shown, spent, handed, lockSeen, died>>
vars == <<rowVars, vtoks, rtok, sess, challenge, pc, cp, old, todo, arg, link, ops, hist>>

Rows == [email : Mails, pwd : Pwds, verified : BOOLEAN, enabled : BOOLEAN,
         secret : Secrets \cup {NoSecret}, codes : SUBSET Codes, disabled : BOOLEAN]

Steps == {"idle", "count", "count2fa", "recount", "lock", "reset", "open", "consume", "consumereset",
          "reread", "update", "markverified", "useverify", "uselink", "revoke",
          "dropverify", "mintverify", "droplinks", "mintlink"}

TypeOK == /\ row \in Rows /\ fails \in Nat /\ locked \in BOOLEAN
          /\ vtoks \subseteq Mails /\ rtok \in [Links -> {"absent", "live", "used"}]
          /\ sess \subseteq Pwds /\ challenge \in BOOLEAN
          /\ pc \in [Procs -> Steps] /\ cp \in [Procs -> Rows] /\ old \in [Procs -> Rows]
          /\ todo \in [Procs -> {"none", "session", "challenge", "lock", "password", "link", "revoke", "verify"}]
          /\ arg \in [Procs -> Pwds \cup Codes \cup Mails] /\ link \in [Procs -> Links]
          /\ ops \in Nat
          /\ stale \in BOOLEAN /\ proven \subseteq Mails /\ shown \subseteq Secrets
          /\ spent \in [Codes -> Nat] /\ handed \subseteq Codes /\ lockSeen \in BOOLEAN /\ died \in Nat

\* An account right after its registration, one that is in use, and one with a second factor.
FreshRow == [email |-> CHOOSE m \in Mails : TRUE, pwd |-> CHOOSE w \in Pwds : TRUE,
             verified |-> FALSE, enabled |-> FALSE, secret |-> NoSecret, codes |-> {},
             disabled |-> FALSE]

Init ==
  /\ \/ /\ row = FreshRow
        /\ vtoks = {FreshRow.email} /\ proven = {} /\ shown = {}
     \/ \E s \in Secrets, new \in SUBSET Codes :
          /\ row \in {[FreshRow EXCEPT !.verified = TRUE],
                      [FreshRow EXCEPT !.verified = TRUE, !.enabled = TRUE,
                                       !.secret = s, !.codes = new]}
          /\ vtoks = {} /\ proven = {row.email} /\ shown = {row.secret} \ {NoSecret}
  /\ fails = 0 /\ locked = FALSE
  /\ rtok = [l \in Links |-> "absent"] /\ sess = {} /\ challenge = row.enabled
  /\ pc = [p \in Procs |-> "idle"] /\ cp = [p \in Procs |-> row] /\ old = [p \in Procs |-> row]
  /\ todo = [p \in Procs |-> "none"] /\ arg = [p \in Procs |-> row.pwd] /\ ops = 0
  /\ link = [p \in Procs |-> CHOOSE l \in Links : TRUE]
  /\ stale = FALSE /\ spent = [c \in Codes |-> 0] /\ handed = row.codes /\ lockSeen = FALSE /\ died = 0

-----------------------------------------------------------------------------
(* Request bookkeeping. *)

\* A request begins; its first statement reads the row.
BeginWith(p, l) == /\ pc[p] = "idle" /\ ops < MaxOps /\ ops' = ops + 1
                   /\ old' = [old EXCEPT ![p] = row] /\ link' = [link EXCEPT ![p] = l]
Begin(p) == BeginWith(p, link[p])

Go(p, step, next) == /\ pc' = [pc EXCEPT ![p] = step] /\ todo' = [todo EXCEPT ![p] = next]

At(p, step) == pc[p] = step /\ UNCHANGED <<ops, old, link>>

Quiet == UNCHANGED <<rowVars, vtoks, rtok, sess, challenge, hist>>

-----------------------------------------------------------------------------
(* AuthService.Login *)

\* The presented password is wrong: the failure will be counted, and the count
\* read before the comparison decides whether the account is locked.
LoginWrong(p) ==
  /\ Begin(p) /\ ~locked
  /\ Go(p, "count", IF fails + 1 >= Max THEN "lock" ELSE "none")
  /\ cp' = [cp EXCEPT ![p] = row]
  /\ UNCHANGED arg /\ Quiet

\* The password is right and the account may log in.
LoginRight(p) ==
  /\ Begin(p) /\ ~locked /\ ~row.disabled /\ row.verified
  /\ Go(p, IF fails > 0 THEN "reset" ELSE IF row.enabled THEN "idle" ELSE "open",
           IF row.enabled THEN "challenge" ELSE "session")
  /\ challenge' = (challenge \/ (row.enabled /\ fails = 0))
  /\ cp' = [cp EXCEPT ![p] = row] /\ arg' = [arg EXCEPT ![p] = row.pwd]
  /\ UNCHANGED <<rowVars, vtoks, rtok, sess, hist>>

LoginUser(p) == LoginWrong(p) \/ LoginRight(p)

\* The errors of the three statements on the counter and the lock are ignored: the
\* request goes on, here and below.
IncrementFailedLoginAttempts(p) ==
  /\ At(p, "count") /\ fails' \in {fails, fails + 1}
  /\ Go(p, IF todo[p] = "lock" THEN "lock" ELSE "idle", "none")
  /\ UNCHANGED <<row, locked, vtoks, rtok, sess, challenge, cp, arg, hist>>

LockAccount(p) ==
  /\ At(p, "lock") /\ locked' = TRUE /\ lockSeen' = TRUE
  /\ Go(p, "idle", "none")
  /\ UNCHANGED <<row, fails, vtoks, rtok, sess, challenge, cp, arg, stale, proven, shown, spent, handed, died>>

\* A successful factor clears the counter and the lock.
ResetFailedLoginAttempts(p) ==
  /\ At(p, "reset")
  /\ \/ fails' = 0 /\ locked' = FALSE /\ lockSeen' = FALSE
     \/ UNCHANGED <<fails, locked, lockSeen>>
  /\ Go(p, CASE todo[p] = "session" -> "open" [] todo[p] = "password" -> "reread"
             [] OTHER -> "idle", todo[p])
  /\ challenge' = (challenge \/ todo[p] = "challenge")
  /\ UNCHANGED <<row, vtoks, rtok, sess, cp, arg, stale, proven, shown, spent, handed, died>>

\* startSession and RecordLogin.
StartSession(p) ==
  /\ At(p, "open") /\ sess' = sess \cup {cp[p].pwd}
  /\ Go(p, "idle", "none")
  /\ UNCHANGED <<rowVars, vtoks, rtok, challenge, cp, arg, hist>>

LockExpires == locked /\ locked' = FALSE
               /\ UNCHANGED <<row, fails, vtoks, rtok, sess, challenge, pc, cp, old, todo, arg, link, ops, hist>>

\* AdminRepository.UnlockUser
UnlockUser == /\ ops < MaxOps /\ ops' = ops + 1
              /\ fails' = 0 /\ locked' = FALSE /\ lockSeen' = FALSE
              /\ UNCHANGED <<row, vtoks, rtok, sess, challenge, pc, cp, old, todo, arg, link,
                             stale, proven, shown, spent, handed, died>>

-----------------------------------------------------------------------------
(* TwoFactorService.ValidateTOTP, for a login and for a password reset.    *)
(* The first statement reads the row and refuses a locked account; what    *)
(* follows a success is in next.                                           *)

AcceptTOTP(p, next) ==
  /\ Go(p, IF fails > 0 THEN "reset" ELSE IF next = "session" THEN "open" ELSE "reread", next)
  /\ UNCHANGED arg

MatchCode(p, next) ==
  \E c \in row.codes : /\ Go(p, IF fails > 0 THEN "consumereset" ELSE "consume", next)
                       /\ arg' = [arg EXCEPT ![p] = c]

WrongCode(p) == Go(p, "count2fa", "none") /\ UNCHANGED arg

ValidateTOTP(p, next) ==
  /\ row.enabled /\ ~locked
  /\ cp' = [cp EXCEPT ![p] = row]
  /\ AcceptTOTP(p, next) \/ MatchCode(p, next) \/ WrongCode(p)

\* The handler of the second step of a login; it looks at the challenge and at
\* the code, not at disabled or verified.
Login2FA(p) == Begin(p) /\ challenge /\ ValidateTOTP(p, "session") /\ Quiet

\* The conditional UPDATE that removes a code and says whether it was there; the
\* counter is cleared if it was not zero when the request read the row.
ConsumeRecoveryCode(p) ==
  /\ pc[p] \in {"consume", "consumereset"} /\ At(p, pc[p])
  /\ IF arg[p] \in row.codes
       THEN /\ row' = [row EXCEPT !.codes = @ \ {arg[p]}]
            /\ spent' = [spent EXCEPT ![arg[p]] = @ + 1]
            /\ Go(p, IF pc[p] = "consumereset" THEN "reset"
                     ELSE IF todo[p] = "session" THEN "open" ELSE "reread", todo[p])
       ELSE Go(p, "count2fa", "none") /\ UNCHANGED <<row, spent>>
  /\ UNCHANGED <<fails, locked, vtoks, rtok, sess, challenge, cp, arg,
                 stale, proven, shown, handed, lockSeen, died>>

\* recordFailedAttempt: increment, read the count again, lock.
CountFailedCode(p) ==
  /\ At(p, "count2fa") /\ fails' \in {fails, fails + 1}
  /\ Go(p, "recount", "none")
  /\ UNCHANGED <<row, locked, vtoks, rtok, sess, challenge, cp, arg, hist>>

RereadCount(p) ==
  /\ At(p, "recount")
  /\ Go(p, IF fails >= Max THEN "lock" ELSE "idle", "none")
  /\ UNCHANGED <<cp, arg>> /\ Quiet

-----------------------------------------------------------------------------
(* Read-modify-write requests.  The row to be written is prepared when the *)
(* row is read, because nothing it depends on is read later.               *)

Prepare(p, r, next) == /\ Begin(p) /\ cp' = [cp EXCEPT ![p] = r]
                       /\ Go(p, "update", next) /\ UNCHANGED arg /\ Quiet

ChangePassword(p) == \E w \in Pwds \ {row.pwd} :
                       Prepare(p, [row EXCEPT !.pwd = w], "revoke")

SetupTOTP(p) == ~row.enabled /\ \E s \in Secrets :
                  Prepare(p, [row EXCEPT !.secret = s], "none")

\* Mutant: 2FA is enabled on the row without a look at the secret of the copy.
VerifyWithoutSecret(p) ==
  /\ ~row.enabled
  /\ Begin(p) /\ cp' = [cp EXCEPT ![p] = [row EXCEPT !.enabled = TRUE]]
  /\ Go(p, "update", "none")
  /\ UNCHANGED <<arg, rowVars, vtoks, rtok, sess, challenge, hist>>

\* The user proves the secret of the row that was read; its copy is written, with
\* recovery codes nobody was given before.
VerifyAndEnable(p) ==
  /\ ~row.enabled /\ row.secret # NoSecret
  /\ Begin(p)
  /\ \E new \in SUBSET (Codes \ handed) :
       /\ cp' = [cp EXCEPT ![p] = [row EXCEPT !.enabled = TRUE, !.codes = new]]
       /\ handed' = handed \cup new
  /\ Go(p, "update", "none") /\ shown' = shown \cup {row.secret}
  /\ UNCHANGED <<arg, rowVars, vtoks, rtok, sess, challenge, stale, proven, spent, lockSeen, died>>

Without2FA(r) == [r EXCEPT !.enabled = FALSE, !.secret = NoSecret, !.codes = {}]

Disable(p) == row.enabled /\ Prepare(p, Without2FA(row), "none")

\* Administration: reset of the second factor, which also purges the sessions.
ResetUser2fa(p) == row.enabled /\ Prepare(p, Without2FA(row), "revoke")

EnableUser(p) == Prepare(p, [row EXCEPT !.disabled = FALSE], "none")

\* PATCH /users/me: settings only, or a new address that must be verified again.
UpdateSettings(p) == Prepare(p, row, "none")
ChangeEmail(p) == \E m \in Mails \ {row.email} :
                    Prepare(p, [row EXCEPT !.email = m, !.verified = FALSE], "verify")

UpdateCurrentUser(p) == UpdateSettings(p) \/ ChangeEmail(p)

\* UserRepository.Update: every column the copy holds.
Update(p) ==
  /\ At(p, "update")
  /\ row' = cp[p] /\ stale' = (stale \/ row # old[p])
  /\ Go(p, CASE todo[p] = "revoke" -> "revoke" [] todo[p] = "verify" -> "dropverify"
             [] todo[p] = "link" -> "uselink" [] OTHER -> "idle", todo[p])
  /\ UNCHANGED <<fails, locked, vtoks, rtok, sess, challenge, cp, arg,
                 proven, shown, spent, handed, lockSeen, died>>

\* RevokeAllForUser and, for the administrator's purge, DeleteForUser.
RevokeAll(p) ==
  /\ At(p, "revoke") /\ sess' = {}
  /\ Go(p, "idle", "none")
  /\ UNCHANGED <<rowVars, vtoks, rtok, challenge, cp, arg, hist>>

\* AdminRepository.DisableUser is one guarded statement; the purge follows.
DisableUser(p) ==
  /\ Begin(p) /\ row' = [row EXCEPT !.disabled = TRUE]
  /\ Go(p, "revoke", "none")
  /\ UNCHANGED <<fails, locked, vtoks, rtok, sess, challenge, cp, arg, hist>>

-----------------------------------------------------------------------------
(* Verification of the address. *)

\* createEmailVerificationToken: delete the old tokens, store a new one; its
\* mail goes to the address of the copy.
DropVerifyTokens(p) ==
  /\ At(p, "dropverify") /\ vtoks' = {}
  /\ Go(p, "mintverify", todo[p])
  /\ UNCHANGED <<rowVars, rtok, sess, challenge, cp, arg, hist>>

MintVerifyToken(p) ==
  /\ At(p, "mintverify") /\ vtoks' = vtoks \cup {cp[p].email}
  /\ Go(p, "idle", "none")
  /\ UNCHANGED <<rowVars, rtok, sess, challenge, cp, arg, hist>>

ResendVerification(p) ==
  /\ ~row.verified /\ Begin(p)
  /\ cp' = [cp EXCEPT ![p] = row] /\ Go(p, "dropverify", "none")
  /\ UNCHANGED arg /\ Quiet

\* The user follows the link mailed to address m.
VerifyEmail(p) ==
  \E m \in vtoks :
    /\ Begin(p) /\ cp' = [cp EXCEPT ![p] = row] /\ arg' = [arg EXCEPT ![p] = m]
    /\ Go(p, IF row.verified THEN "useverify" ELSE "markverified", "session")
    /\ proven' = proven \cup {m}
    /\ UNCHANGED <<rowVars, vtoks, rtok, sess, challenge, stale, shown, spent, handed, lockSeen, died>>

MarkEmailVerified(p) ==
  /\ At(p, "markverified") /\ row' = [row EXCEPT !.verified = TRUE]
  /\ Go(p, "useverify", todo[p])
  /\ UNCHANGED <<fails, locked, vtoks, rtok, sess, challenge, cp, arg, hist>>

\* MarkAsUsed finds the token or ends the request.
UseVerifyToken(p) ==
  /\ At(p, "useverify") /\ vtoks' = vtoks \ {arg[p]}
  /\ Go(p, IF arg[p] \in vtoks THEN "open" ELSE "idle", "session")
  /\ UNCHANGED <<rowVars, rtok, sess, challenge, cp, arg, hist>>

-----------------------------------------------------------------------------
(* Password reset. *)

RequestPasswordReset(p) ==
  /\ Begin(p) /\ Go(p, "droplinks", "none") /\ UNCHANGED <<cp, arg>> /\ Quiet

DropLinks(p) ==
  /\ At(p, "droplinks") /\ rtok' = [l \in Links |-> "absent"]
  /\ Go(p, "mintlink", "none")
  /\ UNCHANGED <<rowVars, vtoks, sess, challenge, cp, arg, hist>>

MintLink(p) ==
  /\ At(p, "mintlink")
  /\ \E l \in Links : rtok[l] = "absent" /\ rtok' = [rtok EXCEPT ![l] = "live"]
  /\ Go(p, "idle", "none")
  /\ UNCHANGED <<rowVars, vtoks, sess, challenge, cp, arg, hist>>

\* ResetPassword without a second factor: the token and the row are read, the
\* new password is in the copy.
ResetPassword(p) ==
  \E l \in Links, w \in Pwds :
    /\ rtok[l] = "live" /\ ~row.enabled /\ BeginWith(p, l)
    /\ cp' = [cp EXCEPT ![p] = [row EXCEPT !.pwd = w]]
    /\ Go(p, "update", "link") /\ UNCHANGED arg /\ Quiet

\* With a second factor: first the code, then the row is read again.
ResetPassword2FA(p) ==
  /\ \E l \in Links : rtok[l] = "live" /\ BeginWith(p, l)
  /\ ValidateTOTP(p, "password") /\ Quiet

CompletePasswordReset(p) == ResetPassword(p) \/ ResetPassword2FA(p)

RereadForReset(p) ==
  /\ pc[p] = "reread" /\ UNCHANGED <<ops, arg, link>>
  /\ \E w \in Pwds : cp' = [cp EXCEPT ![p] = [row EXCEPT !.pwd = w]]
  /\ old' = [old EXCEPT ![p] = row]
  /\ Go(p, "update", "link") /\ Quiet

\* MarkAsUsed: a token deleted meanwhile ends the request before the revocation.
UseLink(p) ==
  /\ At(p, "uselink")
  /\ rtok' = [rtok EXCEPT ![link[p]] = IF @ = "absent" THEN @ ELSE "used"]
  /\ Go(p, IF rtok[link[p]] = "absent" THEN "idle" ELSE "revoke", "none")
  /\ UNCHANGED <<rowVars, vtoks, sess, challenge, cp, arg, hist>>

\* DeleteExpiredPasswordResetTokens
DeleteUsedLinks == /\ \E l \in Links : rtok[l] = "used"
                   /\ rtok' = [l \in Links |-> IF rtok[l] = "used" THEN "absent" ELSE rtok[l]]
                   /\ UNCHANGED <<rowVars, vtoks, sess, challenge, pc, cp, old, todo, arg, link, ops, hist>>

\* A request ends between two statements: its context is over or a statement fails.
Fail(p) == /\ pc[p] # "idle" /\ Go(p, "idle", "none")
           /\ died' = IF pc[p] \in {"lock", "recount"} THEN died + 1 ELSE died
           /\ UNCHANGED <<ops, old, cp, arg, link, rowVars, vtoks, rtok, sess, challenge,
                          stale, proven, shown, spent, handed, lockSeen>>

-----------------------------------------------------------------------------
(* The endpoints, each of which is one service call whose mails and        *)
(* answers are left out.                                                   *)

Setup2FA(p) == SetupTOTP(p)
Verify2FA(p) == VerifyAndEnable(p)
Disable2FA(p) == Disable(p)
ChangeOwnPassword(p) == ChangePassword(p)
FollowVerificationLink(p) == VerifyEmail(p)
ResendVerificationEmail(p) == ResendVerification(p)
ForgotPassword(p) == RequestPasswordReset(p)

Next ==
  \/ \E p \in Procs :
       \/ LoginUser(p) \/ IncrementFailedLoginAttempts(p) \/ LockAccount(p)
       \/ ResetFailedLoginAttempts(p) \/ StartSession(p)
       \/ Login2FA(p) \/ ConsumeRecoveryCode(p) \/ CountFailedCode(p) \/ RereadCount(p)
       \/ ChangeOwnPassword(p) \/ Setup2FA(p) \/ Verify2FA(p) \/ Disable2FA(p)
       \/ ResetUser2fa(p) \/ EnableUser(p) \/ UpdateCurrentUser(p)
       \/ Update(p) \/ RevokeAll(p) \/ DisableUser(p)
       \/ DropVerifyTokens(p) \/ MintVerifyToken(p) \/ ResendVerificationEmail(p)
       \/ FollowVerificationLink(p)
       \/ MarkEmailVerified(p) \/ UseVerifyToken(p)
       \/ ForgotPassword(p) \/ DropLinks(p) \/ MintLink(p) \/ CompletePasswordReset(p)
       \/ RereadForReset(p) \/ UseLink(p) \/ Fail(p)
  \/ LockExpires \/ UnlockUser \/ DeleteUsedLinks

Spec == Init /\ [][Next]_vars

-----------------------------------------------------------------------------
(* Properties *)

\* Overlapping wrong passwords compare counts read before they were counted, so
\* the lock can come late, but each request under way delays it by at most one
\* failure: before the first lock, and with nobody about to lock, the counter
\* stays below Max plus the number of requests that overlap, and of those
\* that ended before they could lock.
LockComesInTime ==
  (~lockSeen /\ \A p \in Procs : pc[p] \notin {"lock", "recount"})
    => fails <= Max + Cardinality(Procs) - 2 + died

\* A recovery code is accepted at most once, as long as no whole-row write put
\* back codes that were removed after it had read the row.
CodesOnceUnlessStale == ~stale => \A c \in Codes : spent[c] <= 1

\* Whatever copies are written back, an active second factor uses a secret the
\* user has proven to hold, so nobody is locked out by a secret of a second
\* setup that replaced the one the user scanned.
SecretIsProven == \A r \in {row} \cup {cp[p] : p \in Procs} :
                    r.enabled => r.secret \in shown

(* Promises of comments and documents that the code does not keep.         *)

\* docs/AUTHENTICATION.md: recovery codes are single-use.
CodesOnce == \A c \in Codes : spent[c] <= 1

\* handlers/user.go:70: after a change the new address must be verified again.
VerifiedIsProven == row.verified => row.email \in proven

\* A disabled account is enabled only by an administrator.
DisabledStays == [][(row.disabled /\ ~row'.disabled) =>
                     \E p \in Procs : pc[p] = "update" /\ old[p].disabled]_vars

\* auth.go:841: a change of the password forces a new login on all devices.
OldSessionsOut == (\A p \in Procs : pc[p] = "idle") => sess \subseteq {row.pwd}
=============================================================================
