-------------------------- MODULE FlightSignatures --------------------------
(***************************************************************************)
(* The instructor signatures of ONE flight and the lock they put on it:    *)
(* internal/service/flight_signature.go and its handlers over the          *)
(* flight_signatures table and flights.signature_id, together with what    *)
(* edits, renames and deletes the flight (internal/service/flight.go).     *)
(*                                                                         *)
(* Requests are processes; a step is one SQL statement or one mail.  Every *)
(* update of a signature is a read, a change of the copy, and a write of   *)
(* the WHOLE row; signature and lock are written by two statements.  A     *)
(* request may die between any two of them (Fail).                         *)
(*                                                                         *)
(* Data: the signed fields (crew included) are one value, and the hash of  *)
(* the fields is the fields.  token_hash and token_expires_at are always   *)
(* written together: a link is the number of the token of its signature,   *)
(* and "lapsed" holds the links whose expiry has passed.  All mails fall   *)
(* into one quota window of 24 hours.                                      *)
(***************************************************************************)
EXTENDS Integers, FiniteSetsExt

CONSTANTS
    Sigs,      \* signature ids
    NoSig,     \* signature_id IS NULL
    Contents,  \* values of the signed fields
    NoHash,    \* signed_fields_hash IS NULL
    Requests,  \* concurrent requests
    Quota,     \* maxSignatureEmailsPerDay
    CountFails, \* the mails sent so far may not be countable
    MaxLinks   \* bound on the tokens of a signature

ASSUME SignaturesAssumption ==
    /\ NoSig \notin Sigs
    /\ NoHash \notin Contents
    /\ Contents # {}
    /\ Quota \in Nat
    /\ CountFails \in BOOLEAN
    /\ MaxLinks \in Nat \ {0}

VARIABLES
    \* The database.
    flight,   \* the flight: present, signed fields, signature_id
    sig,      \* flight_signatures
    links,    \* tokens generated for a signature, so far
    lapsed,   \* links past their expiry: <<signature, number>>
    \* The requests.
    pc,       \* next statement
    own,      \* signature it is about
    snap,     \* its copy of that signature, as last read or written
    fsnap,    \* its copy of the flight
    mail,     \* an address was supplied: the request is mailed
    \* History.
    mails,    \* request mails sent, counted up to one more than the quota
    stale,    \* some write went by a copy that was no longer current
    died      \* some request died between the writes of signature and lock

db   == <<flight, sig, links, lapsed>>
reqs == <<pc, own, snap, fsnap, mail>>
hist == <<mails, stale, died>>
vars == <<db, reqs, hist>>

Statuses == {"none", "pending", "completed", "revoked", "voided", "expired"}
Methods  == {"none", "live", "deferred"}
Labels   == {"idle", "sign", "pending", "count", "create", "recount", "mail", "mark", "rotate", "revoke",
             "void", "unlock", "expire", "hash", "complete", "lock", "edit", "delete"}
Rows     == [status : Statuses, method : Methods, link : Nat,
             hash : Contents \cup {NoHash}, sent : Nat]
Flights  == [present : BOOLEAN, fields : Contents, lock : Sigs \cup {NoSig}]
Unread   == [present |-> FALSE, fields |-> NoHash, lock |-> NoSig]
NoRow    == [status |-> "none", method |-> "none", link |-> 0, hash |-> NoHash, sent |-> 0]

TypeOK ==
    /\ flight \in Flights
    /\ sig \in [Sigs -> Rows]
    /\ links \in [Sigs -> 0..MaxLinks]
    /\ lapsed \subseteq (Sigs \X Nat)
    /\ pc \in [Requests -> Labels]
    /\ own \in [Requests -> Sigs \cup {NoSig}]
    /\ snap \in [Requests -> Rows]
    /\ fsnap \in [Requests -> Flights \cup {Unread}]
    /\ mail \in [Requests -> BOOLEAN]
    /\ mails \in Nat
    /\ stale \in BOOLEAN
    /\ died \in BOOLEAN

Init ==
    /\ flight \in [present : {TRUE}, fields : Contents, lock : {NoSig}]
    /\ sig = [s \in Sigs |-> NoRow]
    /\ links = [s \in Sigs |-> 0]
    /\ lapsed = {}
    /\ pc = [r \in Requests |-> "idle"]
    /\ own = [r \in Requests |-> NoSig]
    /\ snap = [r \in Requests |-> NoRow]
    /\ fsnap = [r \in Requests |-> Unread]
    /\ mail = [r \in Requests |-> FALSE]
    /\ mails = 0 /\ stale = FALSE /\ died = FALSE

-----------------------------------------------------------------------------
(* Building blocks.                                                        *)

Pending == {s \in Sigs : sig[s].status = "pending"}

Goto(r, label) == pc' = [pc EXCEPT ![r] = label]

\* The request is answered; its locals are gone.
Return(r) ==
    /\ Goto(r, "idle")
    /\ own' = [own EXCEPT ![r] = NoSig]
    /\ snap' = [snap EXCEPT ![r] = NoRow]
    /\ fsnap' = [fsnap EXCEPT ![r] = Unread]
    /\ mail' = [mail EXCEPT ![r] = FALSE]

\* Some row was or was not what the writer's copy said.
Wrote(current) == stale' = (stale \/ ~current)

\* Mutant: no partial unique index on pending rows.
StorableAlways(s, row) == TRUE

\* flight_signatures_one_pending_per_flight admits the row.
Storable(s, row) == row.status = "pending" => Pending \subseteq {s}

\* sigRepo.Update: every column of the copy, if the row still exists.
UpdateRow(r, row) ==
    /\ sig[own[r]].status # "none"
    /\ Storable(own[r], row)
    /\ sig' = [sig EXCEPT ![own[r]] = row]
    /\ Wrote(sig[own[r]] = snap[r])

\* CountEmailsSentSince: SUM(email_send_count).
EmailsSent == MapThenSumSet(LAMBDA s : sig[s].sent, Sigs)

\* checkEmailQuota, consulted only when an address is supplied; a failure to
\* count is not a quota breach.
WithinQuota(r) == mail[r] => EmailsSent < Quota \/ CountFails

-----------------------------------------------------------------------------
(* Signing on the owner's device.                                          *)

\* SignLive reads the flight, which must not be locked, and hashes it ...
SignLive(r) ==
    /\ pc[r] = "idle"
    /\ flight.present /\ flight.lock = NoSig
    /\ Goto(r, "sign")
    /\ fsnap' = [fsnap EXCEPT ![r] = flight]
    /\ UNCHANGED <<db, own, snap, mail, hist>>

\* ... stores the completed signature ...
CreateLive(r, s) ==
    LET row == [NoRow EXCEPT !.status = "completed", !.method = "live",
                             !.hash = fsnap[r].fields]
    IN  /\ pc[r] = "sign" /\ flight.present
        /\ sig[s].status = "none"
        /\ sig' = [sig EXCEPT ![s] = row]
        /\ Goto(r, "lock")
        /\ own' = [own EXCEPT ![r] = s]
        /\ snap' = [snap EXCEPT ![r] = row]
        /\ fsnap' = [fsnap EXCEPT ![r] = Unread]
        /\ UNCHANGED <<flight, links, lapsed, mail, hist>>

\* ... and locks the flight, whatever happened to either meanwhile.
\* CompleteFromToken ends with the same statement.
SetSignatureLock(r) ==
    /\ pc[r] = "lock" /\ flight.present
    /\ flight' = [flight EXCEPT !.lock = own[r]]
    /\ Wrote(flight.fields = snap[r].hash /\ sig[own[r]] = snap[r])
    /\ Return(r)
    /\ UNCHANGED <<sig, links, lapsed, mails, died>>

-----------------------------------------------------------------------------
(* Requests by link.                                                       *)

\* CreateRequest reads the flight ...
CreateRequest(r, m) ==
    /\ pc[r] = "idle"
    /\ flight.present /\ flight.lock = NoSig
    /\ Goto(r, "pending")
    /\ mail' = [mail EXCEPT ![r] = m]
    /\ UNCHANGED <<db, own, snap, fsnap, hist>>

\* ... looks for a pending request ...
GetPending(r) ==
    /\ pc[r] = "pending"
    /\ Pending = {}
    /\ Goto(r, "count")
    /\ UNCHANGED <<db, own, snap, fsnap, mail, hist>>

\* ... looks at the quota, as Resend does ...
CountEmails(r) ==
    /\ pc[r] \in {"count", "recount"} /\ WithinQuota(r)
    /\ Goto(r, IF pc[r] = "count" THEN "create" ELSE "rotate")
    /\ UNCHANGED <<db, own, snap, fsnap, mail, hist>>

\* What follows the write of row by CreateRequest and Resend.
MailOrReturn(r, s, row) ==
    IF mail[r]
    THEN /\ Goto(r, "mail")
         /\ own' = [own EXCEPT ![r] = s]
         /\ snap' = [snap EXCEPT ![r] = row]
         /\ UNCHANGED <<fsnap, mail>>
    ELSE Return(r)

\* ... and inserts its own, unless the index knows one by now.
CreatePending(r, s) ==
    LET row == [NoRow EXCEPT !.status = "pending", !.method = "deferred", !.link = 1]
    IN  /\ pc[r] = "create" /\ flight.present
        /\ sig[s].status = "none"
        /\ Pending = {}
        /\ sig' = [sig EXCEPT ![s] = row]
        /\ links' = [links EXCEPT ![s] = 1]
        /\ MailOrReturn(r, s, row)
        /\ UNCHANGED <<flight, lapsed, hist>>

\* getOwnedSignature: reads the row, which must have the given status.
ReadSignature(r, s, status, label) ==
    /\ pc[r] = "idle"
    /\ sig[s].status = status
    /\ Goto(r, label)
    /\ own' = [own EXCEPT ![r] = s]
    /\ snap' = [snap EXCEPT ![r] = sig[s]]

\* Mutant: Resend accepts a signature of any status.
ResendAny(r, s, m) ==
    /\ sig[s].status # "none" /\ ReadSignature(r, s, sig[s].status, "recount")
    /\ mail' = [mail EXCEPT ![r] = m]
    /\ UNCHANGED <<db, fsnap, hist>>

Resend(r, s, m) ==
    /\ ReadSignature(r, s, "pending", "recount")
    /\ mail' = [mail EXCEPT ![r] = m]
    /\ UNCHANGED <<db, fsnap, hist>>

\* Mutant: the copy is written as it was read.
RotateNothing(r) ==
    /\ pc[r] = "rotate" /\ links[own[r]] < MaxLinks
    /\ UpdateRow(r, snap[r]) /\ MailOrReturn(r, own[r], snap[r])
    /\ links' = [links EXCEPT ![own[r]] = @ + 1]
    /\ UNCHANGED <<flight, lapsed, mails, died>>

\* Resend writes the copy with a new token.
Rotate(r) ==
    /\ pc[r] = "rotate" /\ links[own[r]] < MaxLinks
    /\ LET row == [snap[r] EXCEPT !.link = links[own[r]] + 1]
       IN  UpdateRow(r, row) /\ MailOrReturn(r, own[r], row)
    /\ links' = [links EXCEPT ![own[r]] = @ + 1]
    /\ UNCHANGED <<flight, lapsed, mails, died>>

\* sendSignatureRequestEmailAndMark: the mail goes out ...
SendMail(r) ==
    /\ pc[r] = "mail" /\ flight.present
    /\ Goto(r, "mark")
    /\ mails' = IF mails > Quota THEN mails ELSE mails + 1
    /\ UNCHANGED <<db, own, snap, fsnap, mail, stale, died>>

\* ... and MarkEmailSent writes the copy back with its count.
MarkEmailSent(r) ==
    /\ pc[r] = "mark"
    /\ UpdateRow(r, [snap[r] EXCEPT !.sent = @ + 1])
    /\ Return(r)
    /\ UNCHANGED <<flight, links, lapsed, mails, died>>

Revoke(r, s) ==
    /\ ReadSignature(r, s, "pending", "revoke")
    /\ UNCHANGED <<db, fsnap, mail, hist>>

WriteRevoked(r) ==
    /\ pc[r] = "revoke"
    /\ UpdateRow(r, [snap[r] EXCEPT !.status = "revoked"])
    /\ Return(r)
    /\ UNCHANGED <<flight, links, lapsed, mails, died>>

Void(r, s) ==
    /\ ReadSignature(r, s, "completed", "void")
    /\ UNCHANGED <<db, fsnap, mail, hist>>

\* Mutant: voiding leaves the lock to the next edit.
WriteVoidedOnly(r) ==
    /\ pc[r] = "void"
    /\ UpdateRow(r, [snap[r] EXCEPT !.status = "voided"])
    /\ Return(r)
    /\ UNCHANGED <<flight, links, lapsed, mails, died>>

WriteVoided(r) ==
    /\ pc[r] = "void"
    /\ LET row == [snap[r] EXCEPT !.status = "voided"]
       IN  UpdateRow(r, row) /\ snap' = [snap EXCEPT ![r] = row]
    /\ Goto(r, "unlock")
    /\ UNCHANGED <<flight, links, lapsed, own, fsnap, mail, mails, died>>

\* Void clears the pointer, whichever signature it names.
ClearSignatureLock(r) ==
    /\ pc[r] = "unlock" /\ flight.present
    /\ flight' = [flight EXCEPT !.lock = NoSig]
    /\ Return(r)
    /\ UNCHANGED <<sig, links, lapsed, hist>>

-----------------------------------------------------------------------------
(* The signer's side: POST /sign/{token}.                                  *)

\* lookupPendingByToken finds a pending row; the lock is not looked at.
LookupPending(r, s, n) ==
    /\ sig[s].link = n
    /\ ReadSignature(r, s, "pending", IF <<s, n>> \in lapsed THEN "expire" ELSE "hash")
    /\ UNCHANGED <<db, fsnap, mail, hist>>

\* A lapsed request is flipped to expired on the way.
WriteExpired(r) ==
    /\ pc[r] = "expire"
    /\ UpdateRow(r, [snap[r] EXCEPT !.status = "expired"])
    /\ Return(r)
    /\ UNCHANGED <<flight, links, lapsed, mails, died>>

\* The flight is read and hashed; an expectedHash that differs ends the
\* request (Fail).
HashFields(r) ==
    /\ pc[r] = "hash" /\ flight.present
    /\ Goto(r, "complete")
    /\ fsnap' = [fsnap EXCEPT ![r] = flight]
    /\ UNCHANGED <<db, own, snap, mail, hist>>

CompleteFromToken(r) ==
    /\ pc[r] = "complete"
    /\ LET row == [snap[r] EXCEPT !.status = "completed", !.hash = fsnap[r].fields]
       IN  UpdateRow(r, row) /\ snap' = [snap EXCEPT ![r] = row]
    /\ Goto(r, "lock")
    /\ fsnap' = [fsnap EXCEPT ![r] = Unread]
    /\ UNCHANGED <<flight, links, lapsed, own, mail, mails, died>>

-----------------------------------------------------------------------------
(* The flight, and the surroundings.                                       *)

\* UpdateFlightWith and DeleteFlightWithReason refuse a locked flight.
ReadFlight(r, label) ==
    /\ pc[r] = "idle"
    /\ flight.present /\ flight.lock = NoSig
    /\ Goto(r, label)
    /\ fsnap' = [fsnap EXCEPT ![r] = flight]
    /\ UNCHANGED <<db, own, snap, mail, hist>>

\* updateFlightRow writes every column but signature_id.
UpdateFlight(r, c) ==
    /\ pc[r] = "edit" /\ flight.present
    /\ flight' = [flight EXCEPT !.fields = c]
    /\ Wrote(flight = fsnap[r])
    /\ Return(r)
    /\ UNCHANGED <<sig, links, lapsed, mails, died>>

\* ON DELETE CASCADE takes the signatures, and with them their links, along.
Erase ==
    /\ flight' = [flight EXCEPT !.present = FALSE, !.lock = NoSig]
    /\ sig' = [s \in Sigs |-> NoRow]
    /\ links' = [s \in Sigs |-> 0]
    /\ lapsed' = {}

DeleteFlight(r) ==
    /\ pc[r] = "delete" /\ flight.present
    /\ Erase
    /\ Wrote(flight = fsnap[r])
    /\ Return(r)
    /\ UNCHANGED <<mails, died>>

\* DeleteAllFlights deletes signed flights too.
DeleteAllFlights ==
    /\ flight.present
    /\ Erase
    /\ UNCHANGED <<reqs, hist>>

\* Renaming an aircraft or a contact: WHERE signature_id IS NULL.
Rename(c) ==
    /\ flight.present /\ flight.lock = NoSig
    /\ flight' = [flight EXCEPT !.fields = c]
    /\ UNCHANGED <<sig, links, lapsed, reqs, hist>>

\* Time passes over the expiry of a link.
Lapse(s, n) ==
    /\ n <= links[s] /\ <<s, n>> \notin lapsed
    /\ lapsed' = lapsed \cup {<<s, n>>}
    /\ UNCHANGED <<flight, sig, links, reqs, hist>>

\* The admin's maintenance sweep.
ExpirePendingPastDue ==
    /\ sig' = [s \in Sigs |->
                 IF sig[s].status = "pending" /\ <<s, sig[s].link>> \in lapsed
                 THEN [sig[s] EXCEPT !.status = "expired"] ELSE sig[s]]
    /\ UNCHANGED <<flight, links, lapsed, reqs, hist>>

\* An error, a cancelled context, a refusal on the way, or a crash.
Fail(r) ==
    /\ pc[r] # "idle"
    /\ died' = (died \/ pc[r] \in {"lock", "unlock"})
    /\ Return(r)
    /\ UNCHANGED <<db, mails, stale>>

Next ==
    \/ \E r \in Requests :
         \/ SignLive(r) \/ SetSignatureLock(r)
         \/ GetPending(r) \/ CountEmails(r) \/ Rotate(r) \/ SendMail(r) \/ MarkEmailSent(r)
         \/ WriteRevoked(r) \/ WriteVoided(r) \/ ClearSignatureLock(r)
         \/ WriteExpired(r) \/ HashFields(r) \/ CompleteFromToken(r)
         \/ ReadFlight(r, "edit") \/ ReadFlight(r, "delete")
         \/ DeleteFlight(r) \/ Fail(r)
         \/ \E m \in BOOLEAN : CreateRequest(r, m)
         \/ \E c \in Contents : UpdateFlight(r, c)
         \/ \E s \in Sigs :
              \/ CreateLive(r, s) \/ CreatePending(r, s)
              \/ Revoke(r, s) \/ Void(r, s)
              \/ \E m \in BOOLEAN : Resend(r, s, m)
              \/ \E n \in 1..MaxLinks : LookupPending(r, s, n)
    \/ \E c \in Contents : Rename(c)
    \/ \E s \in Sigs, n \in 1..MaxLinks : Lapse(s, n)
    \/ DeleteAllFlights
    \/ ExpirePendingPastDue

Spec == Init /\ [][Next]_vars

-----------------------------------------------------------------------------
(* Properties.                                                             *)

\* fieldsHashValid, as VerifyFieldsHashes computes it.
FieldsHashValid(s) == sig[s].hash = flight.fields

\* The flight is locked by a completed signature, which attests its current
\* fields; a request that voids it may still have to clear the lock.
LockSound ==
    flight.lock # NoSig =>
        /\ FieldsHashValid(flight.lock)
        /\ \/ sig[flight.lock].status = "completed"
           \/ /\ sig[flight.lock].status = "voided"
              /\ \E r \in Requests : pc[r] = "unlock" /\ own[r] = flight.lock

\* Outdated copies, and requests that die between the write of a signature
\* and the write of the lock, are the ONLY ways in which a flight ends up
\* locked by a signature that is not completed or does not attest it.
LockSoundUnlessStale == ~stale /\ ~died => LockSound

\* At most one request per flight is pending, even when a request that was
\* revoked or replaced meanwhile is written back by a late MarkEmailSent.
OnePending == \A s, t \in Pending : s = t

\* The history of signatures given on the owner's device is append-only under
\* every interleaving: completed until voided, then voided, until the flight
\* itself is deleted.
LiveHistory ==
    [][\A s \in Sigs : sig[s].method = "live" /\ flight'.present
         => /\ sig'[s].method = "live"
            /\ sig'[s].hash = sig[s].hash
            /\ sig'[s].status \in IF sig[s].status = "completed"
                                  THEN {"completed", "voided"} ELSE {"voided"}]_vars

\* Migration 000043, on flights.signature_id: "Non-null iff the flight is
\* locked by a completed, non-voided instructor signature".  Asked only while
\* no request is under way and none ever died half way.
LockIffSigned ==
    (\A r \in Requests : pc[r] = "idle") /\ ~died =>
        (flight.lock # NoSig <=> \E s \in Sigs : sig[s].status = "completed")

\* Migration 000042: the table is append-only history, in which a completed
\* signature stays or becomes voided.
AppendOnly ==
    [][\A s \in Sigs : sig[s].status = "completed" /\ flight'.present
         => sig'[s].status \in {"completed", "voided"}]_vars

\* Migration 000043: "a flight is locked against edits/deletes exactly when
\* this is non-null".
LockedAgainstEdits ==
    [][flight.lock # NoSig => flight'.fields = flight.fields]_vars

\* Migration 000043: the pointer is "cleared back to NULL when the active
\* signature is voided".  Asked only while no request is under way.
VoidUnlocks ==
    (\A r \in Requests : pc[r] = "idle") /\ flight.lock # NoSig =>
        sig[flight.lock].status # "voided"

\* Only the link generated last is stored, and can be signed by, as long as no
\* outdated copy was written.
NewestLink == ~stale => \A s \in Sigs : sig[s].link = links[s]

\* The resend operation "rotates the request's token (invalidating any
\* previously shared link/QR)": a link that was replaced never works again.
ResendRotates ==
    [][\A s \in Sigs : sig'[s].status = "pending" => sig'[s].link >= sig[s].link]_vars

\* "maxSignatureEmailsPerDay caps outbound signature-request mail per account."
QuotaKept == mails <= Quota
=============================================================================
