----------------------------- MODULE AdminRoles -----------------------------
(***************************************************************************)
(* Admin rights: the per-account flag, the ADMIN_EMAIL address whose       *)
(* verified holder is always an admin, and the guarded transactions that   *)
(* keep the last active admin.  A request first checks its caller on a     *)
(* copy of the row (requireAdmin) and acts in later statements; other      *)
(* requests read a row and write the whole of it back, except is_admin.    *)
(***************************************************************************)
EXTENDS FiniteSets

CONSTANTS Users, Requests

VARIABLES user,      \* the users table: the columns that decide who is an admin
          rstep,     \* where a request stands
          caller,    \* its authenticated user
          target,    \* the account it is about
          copy,      \* the row it read
          had,       \* history: there was an active admin
          unguarded  \* history: a write outside guardedWrite took an active admin away

vars == <<user, rstep, caller, target, copy, had, unguarded>>

\* Of the mail address only counts whether it is ADMIN_EMAIL.
Row == [exists : BOOLEAN, boot : BOOLEAN, verified : BOOLEAN, disabled : BOOLEAN, flag : BOOLEAN]

Gone == [exists |-> FALSE, boot |-> FALSE, verified |-> FALSE, disabled |-> FALSE, flag |-> FALSE]

Nobody == CHOOSE u \in Users : TRUE

Ops == {"grant", "revoke", "disable", "delete", "enable"}

Kinds == {"idle", "persist", "email", "write"} \cup Ops

TypeOK == /\ user \in [Users -> Row] /\ copy \in [Requests -> Row]
          /\ rstep \in [Requests -> Kinds]
          /\ caller \in [Requests -> Users] /\ target \in [Requests -> Users]
          /\ had \in BOOLEAN /\ unguarded \in BOOLEAN

\* IsBootstrapAdmin and IsAdmin, of a copy as of a row.
Bootstrap(r) == r.verified /\ r.boot
Active(r) == r.exists /\ r.verified /\ ~r.disabled /\ (r.flag \/ r.boot)

CountAdmins(t) == Cardinality({u \in Users : Active(t[u])})
SomeAdmin(t) == \E u \in Users : Active(t[u])

OneHolder(t) == \A u, v \in Users : t[u].boot /\ t[v].boot => u = v

\* Any table of accounts after the migrations: the address is unique.
Init == /\ user \in [Users -> {[r EXCEPT !.exists = TRUE] : r \in Row}] /\ OneHolder(user)
        /\ rstep = [q \in Requests |-> "idle"]
        /\ caller = [q \in Requests |-> Nobody] /\ target = caller
        /\ copy = [q \in Requests |-> Gone]
        /\ had = SomeAdmin(user) /\ unguarded = FALSE

\* What every write does to the two history variables.
Note(guarded) ==
  /\ had' = (had \/ SomeAdmin(user'))
  /\ unguarded' = (unguarded \/ (~guarded /\ \E u \in Users : Active(user[u]) /\ ~Active(user'[u])))

Step(q, from, to) == /\ rstep[q] = from /\ rstep' = [rstep EXCEPT ![q] = to]

\* A request ends and what it had read is forgotten.
Forget(q) == /\ caller' = [caller EXCEPT ![q] = Nobody] /\ target' = [target EXCEPT ![q] = Nobody]
             /\ copy' = [copy EXCEPT ![q] = Gone]
Ends(q, step) == Step(q, step, "idle") /\ Forget(q)

-----------------------------------------------------------------------------
(* AdminRepository *)

\* SetAdmin: one conditional UPDATE.
SetAdmin(u) ==
  IF user[u].exists /\ user[u].verified /\ ~user[u].disabled /\ ~user[u].flag
  THEN user' = [user EXCEPT ![u].flag = TRUE] ELSE UNCHANGED user

\* guardedWrite: the target and all admin rows are locked, so the guards and the
\* write see one state.  The ADMIN_EMAIL account and the last admin are refused.
Refused(u, refuseBootstrap) ==
  \/ ~user[u].exists
  \/ refuseBootstrap /\ Bootstrap(user[u])
  \/ Active(user[u]) /\ \A v \in Users \ {u} : ~Active(user[v])

\* Mutant: the guard counts the target among the admins that remain.
GuardedWriteCountsTarget(u, r, refuseBootstrap) ==
  IF ~user[u].exists \/ (refuseBootstrap /\ Bootstrap(user[u])) \/ ~SomeAdmin(user)
  THEN UNCHANGED user ELSE user' = [user EXCEPT ![u] = r]

GuardedWrite(u, r, refuseBootstrap) ==
  IF Refused(u, refuseBootstrap) THEN UNCHANGED user ELSE user' = [user EXCEPT ![u] = r]

RevokeAdmin(u) == GuardedWrite(u, [user[u] EXCEPT !.flag = FALSE], TRUE)
DisableRow(u) == GuardedWrite(u, [user[u] EXCEPT !.disabled = TRUE, !.flag = FALSE], TRUE)
DeleteRow(u) == GuardedWrite(u, Gone, TRUE)
ChangeEmailRow(u, boot) ==
  /\ boot => \A v \in Users \ {u} : ~user[v].boot
  /\ GuardedWrite(u, [user[u] EXCEPT !.boot = boot, !.verified = FALSE], FALSE)

\* PromoteVerifiedByEmail, at every start of a server.
PromoteBootstrap ==
  /\ \E u \in Users : /\ Bootstrap(user[u]) /\ ~user[u].disabled /\ ~user[u].flag
                      /\ user' = [user EXCEPT ![u].flag = TRUE]
  /\ Note(TRUE) /\ UNCHANGED <<rstep, caller, target, copy>>

-----------------------------------------------------------------------------
(* Administration requests *)

\* requireAdmin: the caller's row is read; an unflagged ADMIN_EMAIL holder is
\* flagged in a statement of its own.
RequireAdmin(q) ==
  /\ rstep[q] = "idle"
  /\ \E a, u \in Users, op \in Ops :
       /\ Active(user[a]) /\ user[u].exists
       /\ op \in {"disable", "delete"} => u # a
       /\ caller' = [caller EXCEPT ![q] = IF user[a].flag THEN Nobody ELSE a]
       /\ target' = [target EXCEPT ![q] = u]
       /\ copy' = [copy EXCEPT ![q] = IF op = "enable" THEN user[u] ELSE Gone]
       /\ rstep' = [rstep EXCEPT ![q] = IF user[a].flag THEN op ELSE "persist"]
  /\ UNCHANGED <<user, had, unguarded>>

PersistBootstrap(q) ==
  /\ \E op \in Ops : Step(q, "persist", op) /\ (op \in {"disable", "delete"} => target[q] # caller[q])
  /\ SetAdmin(caller[q]) /\ Note(TRUE)
  /\ copy' = [copy EXCEPT ![q] = IF rstep'[q] = "enable" THEN user[target[q]] ELSE Gone]
  /\ caller' = [caller EXCEPT ![q] = Nobody] /\ UNCHANGED target

GrantUserAdmin(q) == Ends(q, "grant") /\ SetAdmin(target[q]) /\ Note(TRUE)
RevokeUserAdmin(q) == Ends(q, "revoke") /\ RevokeAdmin(target[q]) /\ Note(TRUE)
DisableUser(q) == Ends(q, "disable") /\ DisableRow(target[q]) /\ Note(TRUE)
DeleteUser(q) == Ends(q, "delete") /\ DeleteRow(target[q]) /\ Note(TRUE)

\* EnableUser changes the copy it read and writes it back later.
EnableUser(q) ==
  /\ Step(q, "enable", "write")
  /\ copy' = [copy EXCEPT ![q].disabled = FALSE]
  /\ UNCHANGED <<user, caller, target, had, unguarded>>

-----------------------------------------------------------------------------
(* Requests of the account itself *)

\* PATCH /users/me reads the row.  With a new address an admin (by the copy) is
\* checked under the guard; anybody else only changes the copy.
UpdateCurrentUser(q) ==
  /\ rstep[q] = "idle"
  /\ \E u \in Users, r \in Row :
       /\ user[u].exists
       /\ \/ r = user[u] /\ rstep' = [rstep EXCEPT ![q] = "write"]
          \/ /\ r = [user[u] EXCEPT !.verified = FALSE, !.boot = r.boot]
             /\ rstep' = [rstep EXCEPT ![q] = IF Active(user[u]) THEN "email" ELSE "write"]
       /\ target' = [target EXCEPT ![q] = u] /\ UNCHANGED caller
       /\ copy' = [copy EXCEPT ![q] = r]
  /\ UNCHANGED <<user, had, unguarded>>

ChangeOwnEmail(q) ==
  /\ ChangeEmailRow(target[q], copy[q].boot) /\ Note(TRUE)
  /\ IF Refused(target[q], FALSE) THEN Ends(q, "email")
     ELSE Step(q, "email", "write") /\ UNCHANGED <<caller, target, copy>>

\* UserRepository.Update: every column but is_admin, as the copy has it.
Update(q) ==
  LET u == target[q] IN
  /\ Ends(q, "write")
  /\ copy[q].boot => \A v \in Users \ {u} : ~user[v].boot
  /\ user' = IF user[u].exists THEN [user EXCEPT ![u] = [copy[q] EXCEPT !.flag = user[u].flag]]
             ELSE user
  /\ Note(FALSE)

\* The unique index refuses the address, or a statement fails.
RequestFails(q) == /\ rstep[q] # "idle" /\ Ends(q, rstep[q])
                   /\ UNCHANGED <<user, had, unguarded>>

\* DELETE /users/me is not guarded.
DeleteCurrentUser(u) ==
  /\ user[u].exists /\ user' = [user EXCEPT ![u] = Gone]
  /\ Note(FALSE) /\ UNCHANGED <<rstep, caller, target, copy>>

VerifyEmail(u) ==
  /\ user[u].exists /\ ~user[u].verified
  /\ user' = [user EXCEPT ![u].verified = TRUE]
  /\ Note(TRUE) /\ UNCHANGED <<rstep, caller, target, copy>>

-----------------------------------------------------------------------------
AdminRequest(q) == \/ RequireAdmin(q) \/ PersistBootstrap(q) \/ GrantUserAdmin(q)
                   \/ RevokeUserAdmin(q) \/ DisableUser(q) \/ DeleteUser(q) \/ EnableUser(q)

OwnRequest(q) == UpdateCurrentUser(q) \/ ChangeOwnEmail(q) \/ Update(q) \/ RequestFails(q)

Next == \/ \E q \in Requests : AdminRequest(q) \/ OwnRequest(q)
        \/ \E u \in Users : DeleteCurrentUser(u) \/ VerifyEmail(u)
        \/ PromoteBootstrap

Spec == Init /\ [][Next]_vars

-----------------------------------------------------------------------------
(* Properties *)

\* ErrLastAdmin: whatever admins do to each other at the same time, the last active
\* admin is not revoked, disabled, deleted or left with an unverified address.  Only
\* writes outside the guard (self-deletion, a whole-row write) can end all admins.
LastAdminKept == had /\ ~unguarded => SomeAdmin(user)
=============================================================================
