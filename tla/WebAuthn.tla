------------------------------ MODULE WebAuthn ------------------------------
(***************************************************************************)
(* Passkeys: a ceremony is begun (a session row, with the user unless the  *)
(* login is discoverable), answered by an authenticator, and finished in   *)
(* several statements.  Old ceremonies of a user are evicted, expired ones *)
(* reaped; credentials are registered, used, counted and deleted.          *)
(***************************************************************************)
EXTENDS Naturals, FiniteSets, Sequences

CONSTANTS Users, Creds,
          Handles,            \* ceremonies, in the order of their numbers
          MaxOpenCeremonies

None == "none"

VARIABLES ceremony,  \* webauthn_sessions by handle
          begun,     \* history: for whom each ceremony was begun; handles are not used twice
          evicting,  \* users whose new ceremony is stored and whose old ones are not evicted yet
          cred,      \* webauthn_credentials: the owner of a credential
          count,     \* its stored sign count
          device,    \* the authenticator's own counter
          disabled,  \* disabled accounts
          fin,       \* per handle: the finishing request under way
          logins     \* history: who got a session from which ceremony

vars == <<ceremony, begun, evicting, cred, count, device, disabled, fin, logins>>

Open(h) == h \in DOMAIN ceremony
Rest == [at |-> "idle", user |-> None, cred |-> None, n |-> 0]

TypeOK ==
  /\ DOMAIN ceremony \subseteq Handles
  /\ \A h \in DOMAIN ceremony : /\ ceremony[h].user \in Users \cup {None}
                                /\ ceremony[h].kind \in {"registration", "login"}
  /\ begun \in Seq(Users \cup {None}) /\ evicting \in [Users -> Nat] /\ disabled \subseteq Users
  /\ cred \in [Creds -> Users \cup {None}]
  /\ count \in [Creds -> Nat] /\ device \in [Creds -> Nat]
  /\ \A h \in Handles : fin[h].at \in {"idle", "register", "login", "count", "token"}

Init == /\ ceremony = [h \in {} |-> Rest] /\ begun = <<>> /\ evicting = [u \in Users |-> 0]
        /\ cred = [c \in Creds |-> None]
        /\ count = [c \in Creds |-> 0] /\ device = count /\ disabled = {}
        /\ fin = [h \in Handles |-> Rest] /\ logins = {}

OpenOf(u) == {h \in DOMAIN ceremony : ceremony[h].user = u}

\* saveSession, with the handle of the next number.
SaveSession(user, kind) ==
  LET h == Len(begun) + 1 IN
  /\ h \in Handles /\ begun' = Append(begun, user)
  /\ ceremony' = [g \in DOMAIN ceremony \cup {h} |->
                    IF g = h THEN [user |-> user, kind |-> kind] ELSE ceremony[g]]
  /\ evicting' = IF user = None THEN evicting ELSE [evicting EXCEPT ![user] = @ + 1]
  /\ UNCHANGED <<cred, count, device, disabled, fin, logins>>

BeginRegistration(u) == SaveSession(u, "registration")

\* A login of an unknown address, without an address or without a passkey is discoverable.
BeginLogin(u) == SaveSession(IF u # None /\ \E c \in Creds : cred[c] = u THEN u ELSE None, "login")

\* DeleteOldestForUser: a statement of its own after the insert; an error is only logged.
Evicted(u) == {h \in OpenOf(u) : Cardinality({g \in OpenOf(u) : g > h}) >= MaxOpenCeremonies}
DeleteOldestForUser(u) ==
  /\ evicting[u] > 0 /\ evicting' = [evicting EXCEPT ![u] = @ - 1]
  /\ ceremony' = [h \in DOMAIN ceremony \ Evicted(u) |-> ceremony[h]]
  /\ UNCHANGED <<begun, cred, count, device, disabled, fin, logins>>

\* DeleteExpired, and rows Consume no longer returns.
Expire(h) == /\ Open(h) /\ ceremony' = [g \in DOMAIN ceremony \ {h} |-> ceremony[g]]
             /\ UNCHANGED <<begun, evicting, cred, count, device, disabled, fin, logins>>

\* Consume: the row of this ceremony is deleted and returned, or there is none.
Consume(h, kind) == /\ Open(h) /\ ceremony[h].kind = kind
                    /\ ceremony' = [g \in DOMAIN ceremony \ {h} |-> ceremony[g]]

\* FinishRegistration by user u: the session must be this user's own.
FinishRegistration(u, h) ==
  /\ Consume(h, "registration")
  /\ fin' = [fin EXCEPT ![h] = IF ceremony[h].user = u
                               THEN [Rest EXCEPT !.at = "register", !.user = u] ELSE Rest]
  /\ UNCHANGED <<begun, evicting, cred, count, device, disabled, logins>>

\* The attestation is good (or not) and the credential is stored; its id is unique.
CreateCredential(h) ==
  /\ fin[h].at = "register" /\ fin' = [fin EXCEPT ![h] = Rest]
  /\ \/ UNCHANGED <<cred, count>>
     \/ \E c \in Creds : /\ cred[c] = None /\ cred' = [cred EXCEPT ![c] = fin[h].user]
                         /\ count' = [count EXCEPT ![c] = device[c]]
  /\ UNCHANGED <<ceremony, begun, evicting, device, disabled, logins>>

\* FinishLogin: credential and account are looked up; the authenticator signs with
\* its next count, for the credential's owner and the user of the ceremony, if any.
FinishLogin(h) ==
  /\ Consume(h, "login")
  /\ \E c \in Creds :
       LET u == cred[c] IN
       IF u # None /\ u \notin disabled /\ ceremony[h].user \in {None, u}
       THEN /\ fin' = [fin EXCEPT ![h] = [at |-> "count", user |-> u, cred |-> c, n |-> device[c] + 1]]
            /\ device' = [device EXCEPT ![c] = @ + 1]
       ELSE UNCHANGED <<fin, device>>
  /\ UNCHANGED <<begun, evicting, cred, count, disabled, logins>>

\* UpdateSignCount writes what this login saw; its error is ignored.
UpdateSignCount(h) ==
  /\ fin[h].at = "count" /\ fin' = [fin EXCEPT ![h].at = "token"]
  /\ count' = IF cred[fin[h].cred] = None THEN count ELSE [count EXCEPT ![fin[h].cred] = fin[h].n]
  /\ UNCHANGED <<ceremony, begun, evicting, cred, device, disabled, logins>>

\* GenerateTokensForUser and RecordLogin.
GenerateTokens(h) ==
  /\ fin[h].at = "token" /\ fin' = [fin EXCEPT ![h] = Rest]
  /\ logins' = logins \cup {[ceremony |-> h, user |-> fin[h].user]}
  /\ UNCHANGED <<ceremony, begun, evicting, cred, count, device, disabled>>

DeleteCredential(c) == /\ cred[c] # None /\ cred' = [cred EXCEPT ![c] = None]
                       /\ UNCHANGED <<ceremony, begun, evicting, count, device, disabled, fin, logins>>

DisableUser(u) == /\ u \notin disabled /\ disabled' = disabled \cup {u}
                  /\ UNCHANGED <<ceremony, begun, evicting, cred, count, device, fin, logins>>

Next ==
  \/ \E u \in Users : BeginRegistration(u) \/ DeleteOldestForUser(u) \/ DisableUser(u)
                      \/ \E h \in Handles : FinishRegistration(u, h)
  \/ \E u \in Users \cup {None} : BeginLogin(u)
  \/ \E h \in Handles : \/ Expire(h) \/ CreateCredential(h) \/ FinishLogin(h)
                        \/ UpdateSignCount(h) \/ GenerateTokens(h)
  \/ \E c \in Creds : DeleteCredential(c)

Spec == Init /\ [][Next]_vars

-----------------------------------------------------------------------------
(* Properties *)

\* A user who keeps beginning ceremonies has at most MaxOpenCeremonies of them once
\* the evictions that follow the inserts have run, and never more than one extra
\* for each eviction that is still to come.
CeremoniesBounded ==
  \A u \in Users : Cardinality(OpenOf(u)) <= MaxOpenCeremonies + evicting[u]

\* A ceremony is finished once and for the user it was begun for: no second request
\* finds it open, and a passkey or a session goes to nobody else.
OwnCeremonyOnce ==
  /\ \A h \in Handles : fin[h] # Rest => ~Open(h) /\ begun[h] \in {None, fin[h].user}
  /\ \A l, m \in logins : l.ceremony = m.ceremony => l = m

\* docs: a stored sign count never goes back (what clone detection rests on).
SignCountGrows == [][\A c \in Creds : cred[c] # None /\ cred'[c] = cred[c] => count'[c] >= count[c]]_vars
=============================================================================
