----------------------------- MODULE OIDCLogin -----------------------------
(***************************************************************************)
(* Login through an OpenID provider: a browser is sent away with a state   *)
(* row and a cookie, comes back with a code, the callback provisions or    *)
(* links the account statement by statement, and a handoff code is         *)
(* exchanged for a session.  Browsers may mix up, repeat and abandon       *)
(* logins; accounts and the provider's claims change meanwhile.            *)
(***************************************************************************)
EXTENDS Naturals, FiniteSets

CONSTANTS Browsers,
          Flows,      \* values of state; one is drawn for every authorization
          Subjects,   \* people the provider knows
          Accounts,   \* ids of users
          Emails,
          LinkByVerifiedEmail, TrustEmailVerified

None == "none"
\* An id not given yet, and one whose account was deleted.
NoAccount == [email |-> None, verified |-> FALSE, disabled |-> FALSE]
Deleted == [NoAccount EXCEPT !.disabled = TRUE]

VARIABLES states,    \* oidc_login_states: which browser a live state was issued to
          issued,    \* history: the browser each state was issued to
          cookie,    \* the browser token each browser holds, named by its state
          code,      \* the provider's answer in a flow: who authenticated
          identity,  \* oidc_identities: subject to account
          account,   \* users
          claim,     \* what the provider says of a subject
          cb,        \* per browser: the callback request under way
          handoff,   \* oidc_handoff_codes, by the flow that earned it
          session,   \* the exchanges of a handoff code under way, and (history) the
                     \* sessions they ended in
          moved      \* history: subjects whose address changed during a login, at the
                     \* provider or, by another person's login, in an account it concerns

vars == <<states, issued, cookie, code, identity, account, claim, cb, handoff, session, moved>>

Claims == [email : Emails, verified : BOOLEAN]
Rest == [at |-> "idle", flow |-> None, sub |-> None, acct |-> None, claim |-> None, row |-> NoAccount]

TypeOK ==
  /\ DOMAIN states \subseteq Flows /\ \A f \in DOMAIN states : states[f] \in Browsers
  /\ issued \in [Flows -> Browsers \cup {None}] /\ cookie \in [Browsers -> Flows \cup {None}]
  /\ code \in [Flows -> Subjects \cup {None}]
  /\ identity \in [Subjects -> Accounts \cup {None}]
  /\ \A a \in Accounts : account[a].email \in Emails \cup {None}
  /\ claim \in [Subjects -> Claims]
  /\ \A b \in Browsers : cb[b].at \in {"idle", "consume", "subject", "email", "create", "link", "sync", "update", "handoff"}
  /\ DOMAIN handoff \subseteq Flows /\ \A f \in DOMAIN handoff : handoff[f] \in Accounts
  /\ moved \subseteq Subjects

\* A local account from before the switch to OIDC may exist.
Init ==
  /\ states = [f \in {} |-> None] /\ issued = [f \in Flows |-> None] /\ cookie = [b \in Browsers |-> None]
  /\ code = [f \in Flows |-> None] /\ identity = [s \in Subjects |-> None]
  /\ \E a \in Accounts, e \in Emails :
       account \in {[x \in Accounts |-> NoAccount],
                    [x \in Accounts |-> IF x = a THEN [NoAccount EXCEPT !.email = e, !.verified = TRUE]
                                        ELSE NoAccount]}
  /\ claim \in [Subjects -> Claims]
  /\ \A s, t \in Subjects : s # t => claim[s].email # claim[t].email
  /\ cb = [b \in Browsers |-> Rest] /\ handoff = [f \in {} |-> None]
  /\ session = {} /\ moved = {}

Without(fn, f) == [g \in DOMAIN fn \ {f} |-> fn[g]]
With(fn, f, v) == [g \in DOMAIN fn \cup {f} |-> IF g = f THEN v ELSE fn[g]]

Live(a) == account[a].email # None
Holder(e) == {a \in Accounts : account[a].email = e}

-----------------------------------------------------------------------------
(* The way to the provider and back *)

\* A state nobody has seen, stored with the browser it goes to.
CreateLoginState(f, b) == issued[f] = None /\ states' = With(states, f, b)

BeginLogin(f, b) == CreateLoginState(f, b) /\ issued' = [issued EXCEPT ![f] = b]

\* The browser token goes into a cookie; a second login overwrites it.
AuthorizeOidc(b) ==
  \E f \in Flows :
    /\ BeginLogin(f, b) /\ cookie' = [cookie EXCEPT ![b] = f]
    /\ UNCHANGED <<code, identity, account, claim, cb, handoff, session, moved>>

\* The provider authenticates somebody; it signs the nonce of the flow into the token.
Authenticate(f) ==
  /\ issued[f] # None /\ code[f] = None
  /\ \E s \in Subjects : code' = [code EXCEPT ![f] = s]
  /\ UNCHANGED <<states, issued, cookie, identity, account, claim, cb, handoff, session, moved>>

\* The row is deleted and returned at once.
ConsumeLoginState(f) == states' = Without(states, f)

\* Mutant: the state is read and left to the reaper.
CallbackKeepsState(b, f) ==
  /\ cb[b].at = "idle" /\ issued[f] # None /\ UNCHANGED <<states, cookie>>
  /\ cb' = [cb EXCEPT ![b] = IF f \in DOMAIN states /\ cookie[b] = f
                             THEN [Rest EXCEPT !.at = "consume", !.flow = f] ELSE Rest]
  /\ UNCHANGED <<issued, code, identity, account, claim, handoff, session, moved>>

\* The callback arrives in browser b with the state of some flow f; the cookie is
\* cleared, the state consumed, and then the browser token is compared.
Callback(b, f) ==
  /\ cb[b].at = "idle" /\ issued[f] # None
  /\ cookie' = [cookie EXCEPT ![b] = None] /\ ConsumeLoginState(f)
  /\ cb' = [cb EXCEPT ![b] = IF f \in DOMAIN states /\ cookie[b] = f
                             THEN [Rest EXCEPT !.at = "consume", !.flow = f] ELSE Rest]
  /\ UNCHANGED <<issued, code, identity, account, claim, handoff, session, moved>>

Move(b, r) == cb' = [cb EXCEPT ![b] = r]
Stays == UNCHANGED <<states, issued, cookie, code, handoff, session>>

\* Exchange and Verify: a code of another flow fails at the verifier or the nonce.
Exchange(b) ==
  /\ cb[b].at = "consume" /\ UNCHANGED <<identity, account, claim, moved>> /\ Stays
  /\ \E g \in Flows :
       IF g = cb[b].flow /\ code[g] # None
       THEN Move(b, [cb[b] EXCEPT !.at = "subject", !.sub = code[g], !.claim = claim[code[g]]])
       ELSE Move(b, Rest)

-----------------------------------------------------------------------------
(* provisionUser *)

GetBySubject(b) ==
  LET s == cb[b].sub  a == identity[s] IN
  /\ cb[b].at = "subject" /\ UNCHANGED <<identity, account, claim, moved>> /\ Stays
  /\ Move(b, CASE a = None -> [cb[b] EXCEPT !.at = "email"]
               [] a # None /\ account[a].disabled -> Rest
               [] OTHER -> [cb[b] EXCEPT !.at = "sync", !.acct = a, !.row = account[a]])

GetByEmail(b) ==
  LET found == Holder(cb[b].claim.email) IN
  /\ cb[b].at = "email" /\ UNCHANGED <<identity, account, claim, moved>> /\ Stays
  /\ IF found = {} THEN Move(b, [cb[b] EXCEPT !.at = "create"])
     ELSE \E a \in found :
            Move(b, IF LinkByVerifiedEmail /\ cb[b].claim.verified /\ ~account[a].disabled
                    THEN [cb[b] EXCEPT !.at = "link", !.acct = a, !.row = account[a]] ELSE Rest)

CreateUser(b) ==
  LET c == cb[b].claim IN
  /\ cb[b].at = "create" /\ UNCHANGED <<identity, claim, moved>> /\ Stays
  /\ IF Holder(c.email) # {} THEN Move(b, Rest) /\ UNCHANGED account
     ELSE \E a \in Accounts :
            /\ account[a] = NoAccount
            /\ account' = [account EXCEPT ![a] = [email |-> c.email, disabled |-> FALSE,
                                                  verified |-> c.verified \/ TrustEmailVerified]]
            /\ Move(b, [cb[b] EXCEPT !.at = "link", !.acct = a, !.row = account'[a]])

\* linkIdentity: a row that is there already is taken for this login's own.
LinkIdentity(b) ==
  LET r == cb[b] IN
  /\ r.at = "link" /\ UNCHANGED <<account, claim, moved>> /\ Stays
  /\ IF ~Live(r.acct) THEN Move(b, Rest) /\ UNCHANGED identity
     ELSE /\ identity' = [identity EXCEPT ![r.sub] = IF @ = None THEN r.acct ELSE @]
          /\ Move(b, [r EXCEPT !.at = "sync"])

\* syncUserFromClaims: the collision is looked up first, the copy is written later,
\* whether it is the address, its verification or only the name that differs.
Sync(b) ==
  LET r == cb[b]  c == r.claim
      new == [r.row EXCEPT !.verified = c.verified \/ TrustEmailVerified,
                           !.email = IF Holder(c.email) \ {r.acct} = {} THEN c.email ELSE @] IN
  /\ r.at = "sync" /\ UNCHANGED <<identity, account, claim, moved>> /\ Stays
  /\ \E at \in IF new = r.row THEN {"handoff", "update"} ELSE {"update"} : Move(b, [r EXCEPT !.row = new, !.at = at])

\* The people other than the one behind r who are logging in and whose account, or
\* the one just found for them, is the account r is going to write.
Affected(r) ==
  {s \in Subjects \ {r.sub} : \E c \in Browsers : /\ cb[c].sub = s
                                               /\ r.acct \in {identity[s], cb[c].acct}}

UpdateUser(b) ==
  LET r == cb[b] IN
  /\ r.at = "update" /\ UNCHANGED <<identity, claim>> /\ Stays
  /\ IF ~Live(r.acct) \/ Holder(r.row.email) \ {r.acct} # {}
     THEN Move(b, Rest) /\ UNCHANGED <<account, moved>>
     ELSE /\ account' = [account EXCEPT ![r.acct] = r.row] /\ Move(b, [r EXCEPT !.at = "handoff"])
          /\ moved' = IF r.row.email = account[r.acct].email THEN moved ELSE moved \cup Affected(r)

\* CreateHandoffCode refers to users(id).
CreateHandoffCode(b) ==
  /\ cb[b].at = "handoff" /\ Move(b, Rest)
  /\ handoff' = IF ~Live(cb[b].acct) THEN handoff ELSE With(handoff, cb[b].flow, cb[b].acct)
  /\ UNCHANGED <<states, issued, cookie, code, identity, account, claim, session, moved>>

CallbackFails(b) == /\ cb[b].at # "idle" /\ Move(b, Rest)
                    /\ UNCHANGED <<identity, account, claim, moved>> /\ Stays

-----------------------------------------------------------------------------
\* The code is consumed at once ...
ConsumeHandoffCode(f) == f \in DOMAIN handoff /\ handoff' = Without(handoff, f)

ExchangeOidcCode(f) ==
  /\ ConsumeHandoffCode(f)
  /\ session' = session \cup {[flow |-> f, acct |-> handoff[f], at |-> "consumed"]}
  /\ UNCHANGED <<states, issued, cookie, code, identity, account, claim, cb, moved>>

\* ... then the account is read and must not be disabled, and last the session is
\* stored, with a reference to users(id); either statement may fail.
ExchangeHandoff(x) ==
  /\ \/ x.at # "open" /\ session' = session \ {x}
     \/ /\ x.at = "consumed" /\ Live(x.acct) /\ ~account[x.acct].disabled
        /\ session' = (session \ {x}) \cup {[x EXCEPT !.at = "checked"]}
     \/ x.at = "checked" /\ Live(x.acct) /\ session' = (session \ {x}) \cup {[x EXCEPT !.at = "open"]}
  /\ UNCHANGED <<states, issued, cookie, code, identity, account, claim, cb, handoff, moved>>

\* DeleteExpired, and a row that is past its time before that.
Expire(f) ==
  /\ f \in DOMAIN states \cup DOMAIN handoff
  /\ states' = Without(states, f) /\ handoff' = Without(handoff, f)
  /\ UNCHANGED <<issued, cookie, code, identity, account, claim, cb, session, moved>>

\* The rest of the world: another address at the provider, and administration.
ChangeClaim(s) ==
  /\ \E c \in Claims : /\ c # claim[s] /\ \A t \in Subjects \ {s} : claim[t].email # c.email
                       /\ claim' = [claim EXCEPT ![s] = c]
  /\ moved' = IF \E b \in Browsers : cb[b].sub = s THEN moved \cup {s} ELSE moved
  /\ UNCHANGED <<states, issued, cookie, code, identity, account, cb, handoff, session>>

DisableUser(a) == /\ Live(a) /\ ~account[a].disabled
                  /\ account' = [account EXCEPT ![a].disabled = TRUE]
                  /\ UNCHANGED <<states, issued, cookie, code, identity, claim, cb, handoff, session, moved>>

\* users is referred to by the other tables with ON DELETE CASCADE.
DeleteUser(a) ==
  /\ Live(a) /\ account' = [account EXCEPT ![a] = Deleted]
  /\ identity' = [s \in Subjects |-> IF identity[s] = a THEN None ELSE identity[s]]
  /\ handoff' = [f \in {g \in DOMAIN handoff : handoff[g] # a} |-> handoff[f]]
  /\ session' = {x \in session : x.acct # a}
  /\ UNCHANGED <<states, issued, cookie, code, claim, cb, moved>>

Provision(b) == \/ GetBySubject(b) \/ GetByEmail(b) \/ CreateUser(b) \/ LinkIdentity(b)
                \/ Sync(b) \/ UpdateUser(b)

Next == \/ \E b \in Browsers : \/ AuthorizeOidc(b) \/ Exchange(b) \/ Provision(b)
                               \/ CreateHandoffCode(b) \/ CallbackFails(b)
                               \/ \E f \in Flows : Callback(b, f)
        \/ \E f \in Flows : Authenticate(f) \/ ExchangeOidcCode(f) \/ Expire(f)
        \/ \E x \in session : ExchangeHandoff(x)
        \/ \E s \in Subjects : ChangeClaim(s)
        \/ \E a \in Accounts : DisableUser(a) \/ DeleteUser(a)

Spec == Init /\ [][Next]_vars

-----------------------------------------------------------------------------
(* Properties *)

\* Whatever logins overlap, a login of a person ends in the account that is linked to
\* that person, as long as neither the provider changed the person's address meanwhile
\* nor the login of somebody else the address of the account found for it.
HandoffIsLinked ==
  \A f \in DOMAIN handoff : code[f] \notin moved => identity[code[f]] = handoff[f]

\* A callback that is accepted belongs to the login this very browser began.
OwnLogin == \A b \in Browsers : cb[b].flow # None => issued[cb[b].flow] = b

\* Each login is used once, however often a redirect is repeated: a flow is waiting,
\* in one callback, in one handoff or in one session, never in two of them.
OneUsePerFlow ==
  \A f \in Flows : Cardinality({b \in Browsers : cb[b].flow = f})
                     + (IF f \in DOMAIN handoff THEN 1 ELSE 0)
                     + (IF f \in DOMAIN states THEN 1 ELSE 0)
                     + Cardinality({x \in session : x.flow = f}) <= 1

=============================================================================
