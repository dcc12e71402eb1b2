----------------------------- MODULE MCIdentity -----------------------------
(***************************************************************************)
(* The parts of the identity subsystem on one small instance each: the     *)
(* account row (Account), the administrators (AdminRoles), logins through  *)
(* a provider (OIDCLogin) and with passkeys (WebAuthn), and the mail that  *)
(* reaches the users (EmailDelivery).  A behaviour exercises one part; the *)
(* variables of the others stay unused.                                    *)
(***************************************************************************)
EXTENDS AdminRoles, Naturals, Sequences, FiniteSets, TLC

CONSTANTS Procs, Pwds, Secrets, Codes, Mails, Links, NoSecret, Max, MaxOps,
          Browsers, Flows, Subjects, Accounts, Emails, LinkByVerifiedEmail, TrustEmailVerified,
          Creds, Handles, MaxOpenCeremonies,
          Sends, Spellings, Malformed, Normal, Configured, MaxLifts

\* maxFailedLoginAttempts and maxOpenCeremonies are positive in the code; a lock after the first failure
\* is not meant.  The requests under way at a time are finitely many.
ASSUME MaxAssumption == Max \in Nat /\ Max >= 2
ASSUME ProcsAssumption == IsFiniteSet(Procs)
ASSUME CeremoniesAssumption == MaxOpenCeremonies \in Nat
\* An account has an address and a password, and the absence of a value is none of the values.
ASSUME UsersAssumption == Users # {}
ASSUME AccountAssumption == Mails # {} /\ Pwds # {} /\ Links # {} /\ NoSecret \notin Secrets
ASSUME NoneAssumption == "none" \notin Browsers \cup Flows \cup Subjects \cup Accounts \cup Emails \cup Users

VARIABLES part,
          row, fails, locked, vtoks, rtok, sess, challenge, pc, cp, old, todo, arg, link, ops,
          stale, proven, shown, spent, handed, lockSeen, died,
          states, issued, cookie, code, identity, account, claim, cb, handoff, session, moved,
          ceremony, begun, evicting, cred, count, device, disabled, fin, logins,
          send, suppressed, events, gauge, lifts, refused, torn

\* Logins and requests are interchangeable.
Symmetry == Permutations(Flows) \cup Permutations(Requests)

Acc == INSTANCE Account
OIDC == INSTANCE OIDCLogin
Passkeys == INSTANCE WebAuthn
Mail == INSTANCE EmailDelivery

Unused == "unused"
NoRoles == /\ user = Unused /\ rstep = Unused /\ caller = Unused /\ target = Unused
           /\ copy = Unused /\ had = FALSE /\ unguarded = FALSE
NoAccount == /\ row = Unused /\ fails = Unused /\ locked = Unused /\ vtoks = Unused
             /\ rtok = Unused /\ sess = Unused /\ challenge = Unused /\ pc = Unused
             /\ cp = Unused /\ old = Unused /\ todo = Unused /\ arg = Unused
             /\ link = Unused /\ ops = Unused /\ stale = Unused /\ proven = Unused
             /\ shown = Unused /\ spent = Unused /\ handed = Unused /\ lockSeen = Unused /\ died = Unused
NoOIDC == /\ states = Unused /\ issued = Unused /\ cookie = Unused /\ code = Unused
          /\ identity = Unused /\ account = Unused /\ claim = Unused /\ cb = Unused
          /\ handoff = Unused /\ session = Unused /\ moved = Unused
NoPasskeys == /\ ceremony = Unused /\ begun = Unused /\ evicting = Unused /\ cred = Unused
              /\ count = Unused /\ device = Unused /\ disabled = Unused /\ fin = Unused
              /\ logins = Unused
NoMail == /\ send = Unused /\ suppressed = Unused /\ events = Unused /\ gauge = Unused
          /\ lifts = Unused /\ refused = Unused /\ torn = Unused

IdentityInit ==
  \/ part = "account" /\ Acc!Init /\ NoRoles /\ NoOIDC /\ NoPasskeys /\ NoMail
  \/ /\ NoAccount
     /\ \/ part = "roles" /\ Init /\ NoOIDC /\ NoPasskeys /\ NoMail
        \/ part = "oidc" /\ OIDC!Init /\ NoRoles /\ NoPasskeys /\ NoMail
        \/ part = "passkeys" /\ Passkeys!Init /\ NoRoles /\ NoOIDC /\ NoMail
        \/ part = "mail" /\ Mail!MailInit /\ NoRoles /\ NoOIDC /\ NoPasskeys

accountVars == <<row, fails, locked, vtoks, rtok, sess, challenge, pc, cp, old, todo, arg, link, ops,
                 stale, proven, shown, spent, handed, lockSeen, died>>
oidcVars == <<states, issued, cookie, code, identity, account, claim, cb, handoff, session, moved>>
keyVars == <<ceremony, begun, evicting, cred, count, device, disabled, fin, logins>>
mailVars == <<send, suppressed, events, gauge, lifts, refused, torn>>
allVars == <<part, accountVars, vars, oidcVars, keyVars, mailVars>>

IdentityNext ==
  \/ part = "account" /\ Acc!Next /\ UNCHANGED <<part, vars, oidcVars, keyVars, mailVars>>
  \/ part = "roles" /\ Next /\ UNCHANGED <<part, accountVars, oidcVars, keyVars, mailVars>>
  \/ part = "oidc" /\ OIDC!Next /\ UNCHANGED <<part, accountVars, vars, keyVars, mailVars>>
  \/ part = "passkeys" /\ Passkeys!Next /\ UNCHANGED <<part, accountVars, vars, oidcVars, mailVars>>
  \/ part = "mail" /\ Mail!MailNext /\ UNCHANGED <<part, accountVars, vars, oidcVars, keyVars>>

IdentitySpec == IdentityInit /\ [][IdentityNext]_allVars

-----------------------------------------------------------------------------
TypesOK == /\ part = "account" => Acc!TypeOK
           /\ part = "roles" => TypeOK
           /\ part = "oidc" => OIDC!TypeOK
           /\ part = "passkeys" => Passkeys!TypeOK

\* An account's row, whatever requests overlap on it: the lock comes no later
\* than the attempts allow, a recovery code is used once unless its list was read
\* before, and the second factor that is on was proven by a code of its secret.
AccountSafe ==
  /\ part = "account" => Acc!LockComesInTime /\ Acc!CodesOnceUnlessStale /\ Acc!SecretIsProven
  /\ TypesOK

\* A login through the provider ends in the account linked to the person, is
\* completed only by the browser that began it and is used once; passkey
\* ceremonies stay bounded and each is finished once, for the user who began it.
LoginsSafe ==
  /\ part = "oidc" => OIDC!HandoffIsLinked /\ OIDC!OwnLogin /\ OIDC!OneUsePerFlow
  /\ part = "passkeys" => Passkeys!CeremoniesBounded /\ Passkeys!OwnCeremonyOnce

\* Mail is accounted for: only an address the server refused for good is
\* suppressed, no mail goes to a suppressed one, every send leaves its event and
\* the gauge shows the list.
MailAccountedFor ==
  part = "mail" => /\ Mail!SuppressionEarned /\ Mail!NoMailToSuppressed
                   /\ Mail!AttemptsRecorded /\ Mail!GaugeTrue

\* The instance.
MCNormal == [s \in Spellings |-> IF s = "A" THEN "a" ELSE s]
=============================================================================
