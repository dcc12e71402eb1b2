------------------------- MODULE UnverifiedAccounts -------------------------
(***************************************************************************)
(* The reaper of accounts that never verified their address: every replica *)
(* sweeps on its own ticker; a sweep lists a batch of due accounts, mails  *)
(* each a fresh link, stamps it, and then deletes what was stamped longer  *)
(* than the retention ago.  Accounts are verified, logged into and changed *)
(* in between.  Times are kept as the two comparisons the code makes.      *)
(***************************************************************************)
EXTENDS Naturals, Sequences

CONSTANTS N,         \* accounts 1..N, in the order of created_at
          Replicas,
          BatchSize

Accounts == 1..N

VARIABLES acct,      \* the columns the reaper looks at
          sweep,     \* per replica: where its sweep stands and whom it has still to remind
          told       \* history: a reminder was mailed to the account, or refused for good

reaperVars == <<acct, sweep, told>>

\* age: created_at against ReminderAfter; stamp: verification_reminder_sent_at
\* absent, within, or older than Retention; used: last_login_at is set.
Row == [there : BOOLEAN, verified : BOOLEAN, used : BOOLEAN, identity : BOOLEAN,
        age : {"new", "due"}, stamp : {"none", "recent", "past"}]

Absent == [there |-> FALSE, verified |-> FALSE, used |-> FALSE, identity |-> FALSE,
           age |-> "new", stamp |-> "none"]

\* What is left of a deleted account: an id that is never given again.
Deleted == [Absent EXCEPT !.age = "due"]

Idle == [at |-> "idle", list |-> <<>>]

ReaperTypeOK == /\ acct \in [Accounts -> Row] /\ told \subseteq Accounts
          /\ \A r \in Replicas : /\ sweep[r].at \in {"idle", "mint", "mail", "stamp", "delete"}
                                 /\ sweep[r].list \in Seq(Accounts)

\* Accounts to come, and accounts a provider logged in before OIDC was switched off.
ReaperInit == /\ acct \in [Accounts -> {Absent, [Absent EXCEPT !.there = TRUE, !.identity = TRUE, !.age = "due"]}]
        /\ sweep = [r \in Replicas |-> Idle] /\ told = {}

\* unverifiedAccountGuards
Abandoned(a) == a.there /\ ~a.verified /\ ~a.used /\ ~a.identity

Due(u) == Abandoned(acct[u]) /\ acct[u].stamp = "none" /\ acct[u].age = "due"

\* ListUnverifiedForReminder: the oldest first, at most a batch of them.
FirstOf(S) == LET all == SelectSeq([i \in 1..N |-> i], LAMBDA u : u \in S)
              IN  SubSeq(all, 1, IF Len(all) < BatchSize THEN Len(all) ELSE BatchSize)

SweepAt(r, step, list) == [at |-> IF list = <<>> THEN "delete" ELSE step, list |-> list]

For(r, u) == sweep[r].list # <<>> /\ Head(sweep[r].list) = u

\* Mutant: a sweep with nobody to remind returns before the deletion.
SweepOnlyDue(r) == /\ sweep[r] = Idle /\ \E u \in Accounts : Due(u)
                   /\ sweep' = [sweep EXCEPT ![r] = SweepAt(r, "mint", FirstOf({u \in Accounts : Due(u)}))]
                   /\ UNCHANGED <<acct, told>>

\* Sweep, on the ticker and with SMTP configured.
Sweep(r) == /\ sweep[r] = Idle
            /\ sweep' = [sweep EXCEPT ![r] = SweepAt(r, "mint", FirstOf({u \in Accounts : Due(u)}))]
            /\ UNCHANGED <<acct, told>>

\* CreateEmailVerificationToken; without a token the account is left for the next sweep.
Mint(r) == /\ sweep[r].at = "mint"
           /\ \/ acct[Head(sweep[r].list)].there /\ sweep' = [sweep EXCEPT ![r].at = "mail"]
              \/ sweep' = [sweep EXCEPT ![r] = SweepAt(r, "mint", Tail(@.list))]
           /\ UNCHANGED <<acct, told>>

\* SendMessage: delivered, refused for good, or to be tried again by a later sweep.
MailDecided(r) == /\ sweep[r].at = "mail" /\ sweep' = [sweep EXCEPT ![r].at = "stamp"]
                  /\ told' = told \cup {Head(sweep[r].list)} /\ UNCHANGED acct
MailDeferred(r) == /\ sweep[r].at = "mail"
                   /\ sweep' = [sweep EXCEPT ![r] = SweepAt(r, "mint", Tail(@.list))]
                   /\ UNCHANGED <<acct, told>>

\* MarkVerificationReminderSent stamps only what has no stamp; zero rows are no error.
Stamp(r) ==
  LET u == Head(sweep[r].list) IN
  /\ sweep[r].at = "stamp"
  /\ acct' = IF acct[u].there /\ acct[u].stamp = "none"
             THEN [acct EXCEPT ![u].stamp = "recent"] ELSE acct
  /\ sweep' = [sweep EXCEPT ![r] = SweepAt(r, "mint", Tail(@.list))]
  /\ UNCHANGED told

StampFails(r) == /\ sweep[r].at = "stamp"
                 /\ sweep' = [sweep EXCEPT ![r] = SweepAt(r, "mint", Tail(@.list))]
                 /\ UNCHANGED <<acct, told>>

\* DeleteUnverifiedRemindedBefore: one statement that checks the guards again.
Expired(u) == Abandoned(acct[u]) /\ acct[u].stamp = "past"
\* Mutant: the deletion trusts the stamp.
DeleteStamped(r) ==
  /\ sweep[r].at = "delete" /\ sweep' = [sweep EXCEPT ![r] = Idle]
  /\ acct' = [u \in Accounts |-> IF acct[u].stamp = "past" THEN Deleted ELSE acct[u]]
  /\ UNCHANGED told

DeleteExpired(r) ==
  /\ sweep[r].at = "delete" /\ sweep' = [sweep EXCEPT ![r] = Idle]
  /\ acct' = [u \in Accounts |-> IF Expired(u) THEN Deleted ELSE acct[u]]
  /\ UNCHANGED told

\* The process ends in the middle of a sweep, or its context does.
Stop(r) == sweep[r] # Idle /\ sweep' = [sweep EXCEPT ![r] = Idle] /\ UNCHANGED <<acct, told>>

\* ReminderAfter and Retention pass.
TimePasses(u) ==
  /\ acct[u].there
  /\ \/ acct[u].age = "new" /\ acct' = [acct EXCEPT ![u].age = "due"]
     \/ acct[u].stamp = "recent" /\ acct' = [acct EXCEPT ![u].stamp = "past"]
  /\ UNCHANGED <<sweep, told>>

\* What the owner and the rest of the server do to the account.
Register(u) == /\ acct[u] = Absent /\ \A v \in 1..(u - 1) : acct[v] # Absent
               /\ acct' = [acct EXCEPT ![u] = [Absent EXCEPT !.there = TRUE]]
               /\ UNCHANGED <<sweep, told>>
MarkEmailVerified(u) == /\ acct[u].there /\ ~acct[u].verified
                        /\ acct' = [acct EXCEPT ![u].verified = TRUE] /\ UNCHANGED <<sweep, told>>
\* A stamp that fails is logged and swallowed, so a session may come without it.
RecordLogin(u) == /\ acct[u].there /\ acct[u].verified /\ ~acct[u].used
                  /\ acct' = [acct EXCEPT ![u].used = TRUE] /\ UNCHANGED <<sweep, told>>
ChangeEmail(u) == /\ acct[u].there /\ acct[u].verified
                  /\ acct' = [acct EXCEPT ![u].verified = FALSE] /\ UNCHANGED <<sweep, told>>
\* UserRepository.Update writes a copy of the row, read before a verification or a
\* login, and with it the columns as they were; the stamp is not among them.
UpdateUser(u) == /\ acct[u].there
                 /\ \/ acct' = [acct EXCEPT ![u].verified = FALSE]
                    \/ acct' = [acct EXCEPT ![u].used = FALSE]
                    \/ acct' = [acct EXCEPT ![u] = [@ EXCEPT !.verified = FALSE, !.used = FALSE]]
                 /\ UNCHANGED <<sweep, told>>

SweepStep(r) == Mint(r) \/ MailDecided(r) \/ MailDeferred(r) \/ Stamp(r) \/ StampFails(r)
ReaperNext == \/ \E r \in Replicas : Sweep(r) \/ SweepStep(r) \/ DeleteExpired(r) \/ Stop(r)
        \/ \E u \in Accounts : TimePasses(u) \/ Register(u) \/ MarkEmailVerified(u)
                               \/ RecordLogin(u) \/ ChangeEmail(u) \/ UpdateUser(u)

\* Time passes, some replica's ticker ticks and its sweep goes on, and neither the
\* mail server nor the database nor the processes fail every time.
ReaperFairness ==
  /\ WF_reaperVars(\E r \in Replicas : Sweep(r)) /\ WF_reaperVars(\E r \in Replicas : SweepStep(r))
  /\ SF_reaperVars(\E r \in Replicas : DeleteExpired(r))
  /\ \A u \in Accounts :
       /\ WF_reaperVars(TimePasses(u))
       /\ SF_reaperVars(\E r \in Replicas : Mint(r) /\ For(r, u) /\ sweep'[r].at = "mail")
       /\ SF_reaperVars(\E r \in Replicas : MailDecided(r) /\ For(r, u))
       /\ SF_reaperVars(\E r \in Replicas : Stamp(r) /\ For(r, u))

ReaperSpec == ReaperInit /\ [][ReaperNext]_reaperVars /\ ReaperFairness

-----------------------------------------------------------------------------
(* Properties *)

\* Between listing, mailing, stamping and deleting the owner may come back: no
\* account is deleted while its row says that it is verified, was logged into or
\* belongs to a provider's user, and none whose reminder was not mailed or refused
\* for good.
OnlyAbandonedDeletedStep ==
  \A u \in Accounts : (acct[u].there /\ ~acct'[u].there) => Abandoned(acct[u]) /\ u \in told
OnlyAbandonedDeleted == [][OnlyAbandonedDeletedStep]_reaperVars

\* A stamp always stands for a reminder that went out.
StampMeansTold == \A u \in Accounts : acct[u].stamp # "none" => u \in told

\* An account that stays unverified and unused is deleted in the end, however
\* many newer and older accounts share the batches with it.
AbandonedAreDeleted == \A u \in Accounts : Abandoned(acct[u]) ~> ~Abandoned(acct[u])

\* docs/AUTHENTICATION.md: "Confirming at any point during the window flips
\* email_verified and removes the account from scope permanently."  It is back in
\* scope when a copy of the row from before is written, or when the address is
\* changed in a session whose login was not stamped.
ConfirmedForGood == \A u \in Accounts : [](acct[u].verified => []acct[u].there)
=============================================================================
