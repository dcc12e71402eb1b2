----------------------- MODULE FlightSignaturesProofs -----------------------
(***************************************************************************)
(* Safety of FlightSignatures for every number of signatures, requests and *)
(* links, and every quota.                                                 *)
(***************************************************************************)
EXTENDS FlightSignatures, TLAPS

\* Requests that work on a signature, and those whose copy of it is pending.
AboutPending == {"mail", "mark", "recount", "rotate", "revoke", "expire", "hash", "complete"}
AboutSig     == AboutPending \cup {"void", "unlock", "lock"}

\* What a request's copies say, whatever became of the originals.
Copies ==
    \A r \in Requests :
        /\ pc[r] \in AboutSig => own[r] \in Sigs
        /\ pc[r] \in AboutPending =>
             snap[r].status = "pending" /\ snap[r].method = "deferred"
        /\ pc[r] \in {"void", "lock"} => snap[r].status = "completed"
        /\ pc[r] \in {"sign", "edit", "delete"} => fsnap[r].lock = NoSig
        /\ pc[r] \in {"sign", "edit", "delete", "complete"} => fsnap[r].fields \in Contents

\* The life of a row: the method never changes, and only requests by link are
\* ever pending.
Lifecycle ==
    /\ \A s \in Sigs :
         /\ sig[s].status = "none" => sig[s].method = "none" /\ sig[s].link = 0
         /\ sig[s].status = "pending" => sig[s].method = "deferred"
         /\ sig[s].method = "live" => sig[s].status \in {"completed", "voided"}
    /\ ~flight.present => flight.lock = NoSig /\ \A s \in Sigs : sig[s].status = "none"

\* How much of a copy still agrees with its original.
Agreement ==
    flight.present =>
      \A r \in Requests :
        /\ pc[r] \in AboutSig =>
             sig[own[r]].status # "none" /\ sig[own[r]].method = snap[r].method
        /\ pc[r] = "void" /\ snap[r].method = "live" => snap[r].hash = sig[own[r]].hash

IInv == /\ TypeOK
        /\ Copies
        /\ Lifecycle
        /\ Agreement
        /\ OnePending
        /\ LockSoundUnlessStale
        /\ NewestLink

-----------------------------------------------------------------------------
(* Type correctness.                                                       *)

\* A fresh row is well typed.
LEMMA NoRowType == NoRow \in Rows
BY DEF NoRow, Rows, Statuses, Methods

\* Returning resets a request's locals to values of their types.
LEMMA ReturnType ==
    ASSUME TypeOK, NEW r \in Requests, Return(r)
    PROVE  /\ pc' \in [Requests -> Labels] /\ own' \in [Requests -> Sigs \cup {NoSig}]
           /\ snap' \in [Requests -> Rows] /\ fsnap' \in [Requests -> Flights \cup {Unread}]
           /\ mail' \in [Requests -> BOOLEAN]
BY NoRowType DEF TypeOK, Return, Goto, Labels

\* A write of a whole row keeps the table well typed.
LEMMA UpdateRowType ==
    ASSUME TypeOK, NEW r \in Requests, NEW x \in Rows, UpdateRow(r, x)
    PROVE  sig' \in [Sigs -> Rows] /\ stale' \in BOOLEAN
BY DEF TypeOK, UpdateRow, Wrote

\* CreateRequest and Resend go on with the row they wrote.
LEMMA MailOrReturnType ==
    ASSUME TypeOK, NEW r \in Requests, NEW s \in Sigs, NEW x \in Rows, MailOrReturn(r, s, x)
    PROVE  /\ pc' \in [Requests -> Labels] /\ own' \in [Requests -> Sigs \cup {NoSig}]
           /\ snap' \in [Requests -> Rows] /\ fsnap' \in [Requests -> Flights \cup {Unread}]
           /\ mail' \in [Requests -> BOOLEAN]
<1>1. CASE mail[r]
  BY <1>1 DEF TypeOK, MailOrReturn, Goto, Labels
<1>2. CASE ~mail[r]
  BY <1>2, ReturnType DEF MailOrReturn
<1> QED BY <1>1, <1>2

\* Changing single columns of a row gives a row.
LEMMA RowChanges ==
    ASSUME NEW x \in Rows
    PROVE  /\ \A st \in Statuses : [x EXCEPT !.status = st] \in Rows
           /\ \A n \in Nat : [x EXCEPT !.link = n] \in Rows
           /\ [x EXCEPT !.sent = @ + 1] \in Rows
           /\ \A st \in Statuses, h \in Contents : [x EXCEPT !.status = st, !.hash = h] \in Rows
<1>1. \A st \in Statuses : [x EXCEPT !.status = st] \in Rows
  BY DEF Rows
<1>2. \A n \in Nat : [x EXCEPT !.link = n] \in Rows
  BY DEF Rows
<1>3. [x EXCEPT !.sent = @ + 1] \in Rows
  <2>1. x.sent + 1 \in Nat
    BY DEF Rows
  <2> QED BY <2>1 DEF Rows
<1>4. \A st \in Statuses, h \in Contents : [x EXCEPT !.status = st, !.hash = h] \in Rows
  BY DEF Rows
<1> QED BY <1>1, <1>2, <1>3, <1>4

\* Every step keeps every variable in its type.
LEMMA TypeStep == ASSUME TypeOK, Copies, [Next]_vars PROVE TypeOK'
<1> USE SignaturesAssumption
<1>0. CASE UNCHANGED vars
  BY <1>0 DEF vars, db, reqs, hist, TypeOK
<1>1. ASSUME NEW r \in Requests,
             \/ SignLive(r) \/ GetPending(r) \/ CountEmails(r) \/ SendMail(r) \/ HashFields(r)
             \/ ReadFlight(r, "edit") \/ ReadFlight(r, "delete")
             \/ \E m \in BOOLEAN : CreateRequest(r, m)
      PROVE  TypeOK'
  BY <1>1 DEF TypeOK, SignLive, GetPending, CountEmails, SendMail, HashFields, ReadFlight,
              CreateRequest, Goto, db, hist, Labels
<1>2. ASSUME NEW r \in Requests,
             \/ SetSignatureLock(r) \/ ClearSignatureLock(r) \/ Fail(r)
             \/ \E c \in Contents : UpdateFlight(r, c)
      PROVE  TypeOK'
  <2>1. flight' \in Flights /\ stale' \in BOOLEAN /\ died' \in BOOLEAN
    BY <1>2, ZenonT(60) DEF TypeOK, SetSignatureLock, ClearSignatureLock, Fail, UpdateFlight,
                Flights, Wrote, db, hist, Copies, AboutSig
  <2>2. Return(r) /\ UNCHANGED <<sig, links, lapsed, mails>>
    BY <1>2 DEF SetSignatureLock, ClearSignatureLock, Fail, UpdateFlight, db, hist
  <2> QED BY <2>1, <2>2, ReturnType DEF TypeOK
<1>3. ASSUME NEW r \in Requests,
             \/ MarkEmailSent(r) \/ WriteRevoked(r) \/ WriteExpired(r)
      PROVE  TypeOK'
  <2>1. PICK x \in Rows : UpdateRow(r, x)
    <3>1. /\ [snap[r] EXCEPT !.sent = @ + 1] \in Rows
          /\ [snap[r] EXCEPT !.status = "revoked"] \in Rows
          /\ [snap[r] EXCEPT !.status = "expired"] \in Rows
      BY RowChanges, snap[r] \in Rows DEF TypeOK, Statuses
    <3> QED BY <1>3, <3>1 DEF MarkEmailSent, WriteRevoked, WriteExpired
  <2>2. Return(r) /\ UNCHANGED <<flight, links, lapsed, mails, died>>
    BY <1>3 DEF MarkEmailSent, WriteRevoked, WriteExpired
  <2> QED BY <2>1, <2>2, ReturnType, UpdateRowType DEF TypeOK
<1>4. ASSUME NEW r \in Requests, WriteVoided(r) \/ CompleteFromToken(r)
      PROVE  TypeOK'
  <2>1. PICK x \in Rows : UpdateRow(r, x) /\ snap' = [snap EXCEPT ![r] = x]
    <3>1. CASE WriteVoided(r)
      <4>1. [snap[r] EXCEPT !.status = "voided"] \in Rows
        BY RowChanges, snap[r] \in Rows DEF TypeOK, Statuses
      <4> QED BY <3>1, <4>1 DEF WriteVoided
    <3>2. CASE CompleteFromToken(r)
      <4>1. fsnap[r].fields \in Contents
        BY <3>2 DEF CompleteFromToken, Copies
      <4>2. [snap[r] EXCEPT !.status = "completed", !.hash = fsnap[r].fields] \in Rows
        BY <4>1, RowChanges, snap[r] \in Rows DEF TypeOK, Statuses
      <4> QED BY <3>2, <4>2 DEF CompleteFromToken
    <3> QED BY <1>4, <3>1, <3>2
  <2>2. /\ Goto(r, "unlock") \/ Goto(r, "lock")
        /\ UNCHANGED fsnap \/ fsnap' = [fsnap EXCEPT ![r] = Unread]
        /\ UNCHANGED <<flight, links, lapsed, own, mail, mails, died>>
    BY <1>4 DEF WriteVoided, CompleteFromToken
  <2> QED BY <2>1, <2>2, UpdateRowType DEF TypeOK, Goto, Labels
<1>5. ASSUME NEW r \in Requests, Rotate(r)
      PROVE  TypeOK'
  <2> DEFINE x == [snap[r] EXCEPT !.link = links[own[r]] + 1]
  <2>1. own[r] \in Sigs
    BY <1>5 DEF Rotate, Copies, AboutSig, AboutPending
  <2>2. x \in Rows
    BY <2>1, SMTT(60) DEF TypeOK, Rows
  <2>3. links' \in [Sigs -> 0..MaxLinks]
    BY <1>5, <2>1 DEF TypeOK, Rotate
  <2>4. UpdateRow(r, x) /\ MailOrReturn(r, own[r], x) /\ UNCHANGED <<flight, lapsed, mails, died>>
    BY <1>5 DEF Rotate
  <2> HIDE DEF x
  <2> QED BY <2>1, <2>2, <2>3, <2>4, UpdateRowType, MailOrReturnType DEF TypeOK
<1>6. ASSUME NEW r \in Requests, NEW s \in Sigs, CreateLive(r, s)
      PROVE  TypeOK'
  BY <1>6 DEF TypeOK, CreateLive, NoRow, Rows, Statuses, Methods, Copies, Goto, Labels, hist
<1>7. ASSUME NEW r \in Requests, NEW s \in Sigs, CreatePending(r, s)
      PROVE  TypeOK'
  <2> DEFINE x == [NoRow EXCEPT !.status = "pending", !.method = "deferred", !.link = 1]
  <2>1. x \in Rows
    BY DEF NoRow, Rows, Statuses, Methods
  <2>2. /\ sig' = [sig EXCEPT ![s] = x] /\ MailOrReturn(r, s, x)
        /\ links' = [links EXCEPT ![s] = 1]
        /\ UNCHANGED <<flight, lapsed, hist>>
    BY <1>7 DEF CreatePending
  <2> HIDE DEF x
  <2> QED BY <2>1, <2>2, MailOrReturnType DEF TypeOK, hist
<1>8. ASSUME NEW r \in Requests, NEW s \in Sigs,
             \/ Revoke(r, s) \/ Void(r, s) \/ \E m \in BOOLEAN : Resend(r, s, m)
             \/ \E n \in 1..MaxLinks : LookupPending(r, s, n)
      PROVE  TypeOK'
  <2>1. /\ pc' \in [Requests -> Labels] /\ own' \in [Requests -> Sigs \cup {NoSig}]
        /\ snap' \in [Requests -> Rows] /\ mail' \in [Requests -> BOOLEAN]
    <3>1. PICK label \in Labels :
              /\ pc' = [pc EXCEPT ![r] = label]
              /\ own' = [own EXCEPT ![r] = s]
              /\ snap' = [snap EXCEPT ![r] = sig[s]]
      BY <1>8 DEF Revoke, Void, Resend, LookupPending, ReadSignature, Goto, Labels
    <3>2. UNCHANGED mail \/ \E m \in BOOLEAN : mail' = [mail EXCEPT ![r] = m]
      BY <1>8 DEF Revoke, Void, Resend, LookupPending
    <3> QED BY <3>1, <3>2 DEF TypeOK
  <2>2. UNCHANGED <<flight, sig, links, lapsed, fsnap, mails, stale, died>>
    BY <1>8 DEF Revoke, Void, Resend, LookupPending, db, hist
  <2> QED BY <2>1, <2>2 DEF TypeOK
<1>9. ASSUME NEW c \in Contents, Rename(c)
      PROVE  TypeOK'
  BY <1>9 DEF TypeOK, Rename, Flights, reqs, hist
<1>10. ASSUME NEW s \in Sigs, NEW n \in 1..MaxLinks, Lapse(s, n)
      PROVE  TypeOK'
  <2>1. lapsed' \subseteq (Sigs \X Nat)
    BY <1>10, n \in Nat DEF TypeOK, Lapse
  <2> QED BY <1>10, <2>1 DEF TypeOK, Lapse, reqs, hist
<1>11. CASE DeleteAllFlights
  <2>1. 0 \in 0..MaxLinks
    OBVIOUS
  <2> QED BY <1>11, <2>1, NoRowType DEF TypeOK, DeleteAllFlights, Erase, Flights, reqs, hist
<1>12. ASSUME NEW r \in Requests, DeleteFlight(r)
      PROVE  TypeOK'
  <2>1. 0 \in 0..MaxLinks
    OBVIOUS
  <2> QED BY <1>12, <2>1, NoRowType, ReturnType DEF TypeOK, DeleteFlight, Erase, Flights, Wrote
<1>13. CASE ExpirePendingPastDue
  <2>1. \A s \in Sigs : [sig[s] EXCEPT !.status = "expired"] \in Rows
    BY SMTT(60) DEF TypeOK, Rows, Statuses
  <2> QED BY <1>13, <2>1 DEF TypeOK, ExpirePendingPastDue, reqs, hist
<1> QED BY <1>0, <1>1, <1>2, <1>3, <1>4, <1>5, <1>6,
            <1>7, <1>8, <1>9, <1>10, <1>11, <1>12, <1>13 DEF Next

-----------------------------------------------------------------------------
(* The copies.                                                             *)

\* What r's copies must say; Copies says it of every request.
CopyOf(r) ==
    /\ pc[r] \in AboutSig => own[r] \in Sigs
    /\ pc[r] \in AboutPending =>
         snap[r].status = "pending" /\ snap[r].method = "deferred"
    /\ pc[r] \in {"void", "lock"} => snap[r].status = "completed"
    /\ pc[r] \in {"sign", "edit", "delete"} => fsnap[r].lock = NoSig
    /\ pc[r] \in {"sign", "edit", "delete", "complete"} => fsnap[r].fields \in Contents

\* A step of one request leaves the locals of the others alone.
LEMMA OthersCopies ==
    ASSUME TypeOK, Copies, NEW r \in Requests, CopyOf(r)',
           \A q \in Requests \ {r} : /\ pc'[q] = pc[q] /\ own'[q] = own[q]
                                     /\ snap'[q] = snap[q] /\ fsnap'[q] = fsnap[q]
    PROVE  Copies'
BY DEF Copies, CopyOf

\* An idle request has no obligations.
LEMMA ReturnCopies ==
    ASSUME TypeOK, Copies, NEW r \in Requests, Return(r)
    PROVE  Copies'
<1>1. CopyOf(r)'
  BY DEF TypeOK, Return, Goto, CopyOf, AboutSig, AboutPending
<1>2. \A q \in Requests \ {r} : /\ pc'[q] = pc[q] /\ own'[q] = own[q]
                                /\ snap'[q] = snap[q] /\ fsnap'[q] = fsnap[q]
  BY DEF TypeOK, Return, Goto
<1> QED BY <1>1, <1>2, OthersCopies

\* A request that has just written a pending row holds a pending copy.
LEMMA MailOrReturnCopies ==
    ASSUME TypeOK, Copies, NEW r \in Requests, NEW s \in Sigs, NEW x \in Rows,
           x.status = "pending", x.method = "deferred", MailOrReturn(r, s, x)
    PROVE  Copies'
<1>1. CASE mail[r]
  <2>1. CopyOf(r)'
    BY <1>1 DEF TypeOK, MailOrReturn, Goto, CopyOf, AboutSig, AboutPending
  <2>2. \A q \in Requests \ {r} : /\ pc'[q] = pc[q] /\ own'[q] = own[q]
                                  /\ snap'[q] = snap[q] /\ fsnap'[q] = fsnap[q]
    BY <1>1 DEF TypeOK, MailOrReturn, Goto
  <2> QED BY <2>1, <2>2, OthersCopies
<1>2. CASE ~mail[r]
  BY <1>2, ReturnCopies DEF MailOrReturn
<1> QED BY <1>1, <1>2

\* Every step keeps the copies as they must be.
LEMMA CopiesStep == ASSUME TypeOK, Copies, Lifecycle, [Next]_vars PROVE Copies'
<1>0. CASE UNCHANGED vars
  BY <1>0 DEF vars, reqs, Copies
<1>1. ASSUME NEW r \in Requests,
             \/ SignLive(r) \/ GetPending(r) \/ CountEmails(r) \/ SendMail(r) \/ HashFields(r)
             \/ ReadFlight(r, "edit") \/ ReadFlight(r, "delete")
             \/ \E m \in BOOLEAN : CreateRequest(r, m)
      PROVE  Copies'
  <2>1. CopyOf(r)'
    BY <1>1 DEF TypeOK, Flights, Copies, SignLive, GetPending, CountEmails, SendMail, HashFields,
                ReadFlight, CreateRequest, Goto, CopyOf, AboutSig, AboutPending
  <2>2. \A q \in Requests \ {r} : /\ pc'[q] = pc[q] /\ own'[q] = own[q]
                                  /\ snap'[q] = snap[q] /\ fsnap'[q] = fsnap[q]
    BY <1>1 DEF TypeOK, SignLive, GetPending, CountEmails, SendMail, HashFields, ReadFlight,
                CreateRequest, Goto
  <2> QED BY <2>1, <2>2, OthersCopies
<1>2. ASSUME NEW r \in Requests,
             \/ SetSignatureLock(r) \/ ClearSignatureLock(r) \/ Fail(r)
             \/ \E c \in Contents : UpdateFlight(r, c)
             \/ MarkEmailSent(r) \/ WriteRevoked(r) \/ WriteExpired(r) \/ DeleteFlight(r)
      PROVE  Copies'
  BY <1>2, ReturnCopies DEF SetSignatureLock, ClearSignatureLock, Fail, UpdateFlight,
                            MarkEmailSent, WriteRevoked, WriteExpired, DeleteFlight
<1>3. ASSUME NEW r \in Requests,
             \/ WriteVoided(r) \/ CompleteFromToken(r)
             \/ \E s \in Sigs : CreateLive(r, s)
      PROVE  Copies'
  <2>1. CopyOf(r)'
    <3>1. CASE WriteVoided(r)
      BY <3>1 DEF TypeOK, Copies, WriteVoided, Goto, CopyOf, AboutSig, AboutPending
    <3>2. CASE CompleteFromToken(r)
      BY <3>2 DEF TypeOK, Copies, CompleteFromToken, Goto, CopyOf, AboutSig, AboutPending, Rows
    <3>3. CASE \E s \in Sigs : CreateLive(r, s)
      BY <3>3 DEF TypeOK, CreateLive, Goto, CopyOf, AboutSig, AboutPending, NoRow
    <3> QED BY <1>3, <3>1, <3>2, <3>3
  <2>2. \A q \in Requests \ {r} : /\ pc'[q] = pc[q] /\ own'[q] = own[q]
                                  /\ snap'[q] = snap[q] /\ fsnap'[q] = fsnap[q]
    BY <1>3 DEF TypeOK, WriteVoided, CompleteFromToken, CreateLive, Goto
  <2> QED BY <2>1, <2>2, OthersCopies
<1>4. ASSUME NEW r \in Requests, Rotate(r)
      PROVE  Copies'
  <2> DEFINE x == [snap[r] EXCEPT !.link = links[own[r]] + 1]
  <2>1. own[r] \in Sigs /\ snap[r].status = "pending" /\ snap[r].method = "deferred"
    BY <1>4 DEF Rotate, Copies, AboutSig, AboutPending
  <2>2. x \in Rows /\ x.status = "pending" /\ x.method = "deferred"
    <3>1. links[own[r]] + 1 \in Nat /\ snap[r] \in Rows
      BY <2>1, SignaturesAssumption DEF TypeOK
    <3> QED BY <2>1, <3>1 DEF Rows
  <2>3. MailOrReturn(r, own[r], x)
    BY <1>4 DEF Rotate
  <2> HIDE DEF x
  <2> QED BY <2>1, <2>2, <2>3, MailOrReturnCopies
<1>5. ASSUME NEW r \in Requests, NEW s \in Sigs, CreatePending(r, s)
      PROVE  Copies'
  <2> DEFINE x == [NoRow EXCEPT !.status = "pending", !.method = "deferred", !.link = 1]
  <2>1. x \in Rows /\ x.status = "pending" /\ x.method = "deferred"
    BY DEF NoRow, Rows, Statuses, Methods
  <2>2. MailOrReturn(r, s, x)
    BY <1>5 DEF CreatePending
  <2> HIDE DEF x
  <2> QED BY <2>1, <2>2, MailOrReturnCopies
<1>6. ASSUME NEW r \in Requests, NEW s \in Sigs,
             \/ Revoke(r, s) \/ Void(r, s) \/ \E m \in BOOLEAN : Resend(r, s, m)
             \/ \E n \in 1..MaxLinks : LookupPending(r, s, n)
      PROVE  Copies'
  <2>1. PICK label :
            /\ \/ label = "void" /\ sig[s].status = "completed"
               \/ label \in {"revoke", "recount", "expire", "hash"} /\ sig[s].status = "pending"
            /\ pc' = [pc EXCEPT ![r] = label]
            /\ own' = [own EXCEPT ![r] = s]
            /\ snap' = [snap EXCEPT ![r] = sig[s]]
            /\ UNCHANGED fsnap
    BY <1>6 DEF Revoke, Void, Resend, LookupPending, ReadSignature, Goto
  <2>2. CopyOf(r)'
    BY <2>1 DEF TypeOK, Lifecycle, CopyOf, AboutSig, AboutPending
  <2>3. \A q \in Requests \ {r} : /\ pc'[q] = pc[q] /\ own'[q] = own[q]
                                  /\ snap'[q] = snap[q] /\ fsnap'[q] = fsnap[q]
    BY <2>1 DEF TypeOK
  <2> QED BY <2>2, <2>3, OthersCopies
<1>7. ASSUME \/ \E c \in Contents : Rename(c)
             \/ \E s \in Sigs, n \in 1..MaxLinks : Lapse(s, n)
             \/ DeleteAllFlights \/ ExpirePendingPastDue
      PROVE  Copies'
  BY <1>7 DEF Rename, Lapse, DeleteAllFlights, ExpirePendingPastDue, reqs, Copies
<1> QED BY <1>0, <1>1, <1>2, <1>3, <1>4, <1>5, <1>6, <1>7 DEF Next

-----------------------------------------------------------------------------
(* The rows.                                                               *)

\* The requests' statements that update a row, that insert one, and the rest.
Writes(r)  == \/ Rotate(r) \/ MarkEmailSent(r) \/ WriteRevoked(r)
              \/ WriteVoided(r) \/ WriteExpired(r) \/ CompleteFromToken(r)
Inserts(r) == \E s \in Sigs : CreateLive(r, s) \/ CreatePending(r, s)
Erases     == DeleteAllFlights \/ \E r \in Requests : DeleteFlight(r)
KeepsRows  == /\ UNCHANGED <<sig, links>>
              /\ flight'.present = flight.present
              /\ flight.present \/ UNCHANGED flight

\* Every step keeps the rows, updates one, inserts one, erases them all, or is
\* the sweep.
LEMMA KindsOfSteps ==
    ASSUME TypeOK, [Next]_vars
    PROVE  \/ KeepsRows
           \/ \E r \in Requests : Writes(r) \/ Inserts(r)
           \/ Erases
           \/ ExpirePendingPastDue
<1>0. CASE UNCHANGED vars
  BY <1>0 DEF vars, db, KeepsRows
<1>1. ASSUME NEW r \in Requests,
             \/ SignLive(r) \/ GetPending(r) \/ CountEmails(r) \/ SendMail(r)
             \/ HashFields(r) \/ Fail(r)
             \/ ReadFlight(r, "edit") \/ ReadFlight(r, "delete")
             \/ \E m \in BOOLEAN : CreateRequest(r, m)
      PROVE  KeepsRows
  BY <1>1 DEF SignLive, GetPending, CountEmails, SendMail, HashFields, Fail, ReadFlight,
              CreateRequest,
              db, KeepsRows
<1>2. ASSUME NEW r \in Requests,
             \/ SetSignatureLock(r) \/ ClearSignatureLock(r)
             \/ \E c \in Contents : UpdateFlight(r, c)
      PROVE  KeepsRows
  BY <1>2 DEF TypeOK, Flights, SetSignatureLock, ClearSignatureLock, UpdateFlight, KeepsRows
<1>3. ASSUME NEW r \in Requests, NEW s \in Sigs,
             \/ Revoke(r, s) \/ Void(r, s) \/ \E m \in BOOLEAN : Resend(r, s, m)
             \/ \E n \in 1..MaxLinks : LookupPending(r, s, n)
      PROVE  KeepsRows
  BY <1>3 DEF Revoke, Void, Resend, LookupPending, db, KeepsRows
<1>4. ASSUME \/ \E c \in Contents : Rename(c)
             \/ \E s \in Sigs, n \in 1..MaxLinks : Lapse(s, n)
      PROVE  KeepsRows
  BY <1>4 DEF TypeOK, Flights, Rename, Lapse, KeepsRows
<1> QED BY <1>0, <1>1, <1>2, <1>3, <1>4 DEF Next, Writes, Inserts, Erases

\* What is written by way of a copy: the copy but for the columns the
\* statement is about.
LEMMA Written ==
    ASSUME TypeOK, Copies, NEW r \in Requests, Writes(r)
    PROVE  /\ own[r] \in Sigs /\ snap[r] \in Rows
           /\ UNCHANGED <<flight, died>>
           /\ \E x \in Rows :
                /\ UpdateRow(r, x)
                /\ x.method = snap[r].method
                /\ pc[r] = "void" => /\ snap[r].status = "completed" /\ x.status = "voided"
                                     /\ x.hash = snap[r].hash
                /\ pc[r] # "void" =>
                     /\ snap[r].status = "pending" /\ snap[r].method = "deferred"
                     /\ x.status \in {"pending", "revoked", "expired", "completed"}
                /\ pc[r] = "rotate" => x.link = links[own[r]] + 1
                /\ pc[r] # "rotate" => x.link = snap[r].link /\ links' = links
                /\ pc[r] = "rotate" => links' = [links EXCEPT ![own[r]] = @ + 1]
<1>1. own[r] \in Sigs /\ snap[r] \in Rows
  BY DEF TypeOK, Copies, Writes, Rotate, MarkEmailSent, WriteRevoked, WriteVoided, WriteExpired,
         CompleteFromToken, AboutSig, AboutPending
<1>2. UNCHANGED <<flight, died>>
  BY DEF Writes, Rotate, MarkEmailSent, WriteRevoked, WriteVoided, WriteExpired, CompleteFromToken
<1>3. CASE Rotate(r)
  <2> DEFINE x == [snap[r] EXCEPT !.link = links[own[r]] + 1]
  <2>1. snap[r].status = "pending" /\ snap[r].method = "deferred" /\ pc[r] = "rotate"
    BY <1>3 DEF Rotate, Copies, AboutPending
  <2>2. UpdateRow(r, x) /\ links' = [links EXCEPT ![own[r]] = @ + 1]
    BY <1>3 DEF Rotate
  <2>3. /\ x \in Rows /\ x.status = "pending" /\ x.method = "deferred"
        /\ x.link = links[own[r]] + 1
    <3>1. links[own[r]] + 1 \in Nat
      BY <1>1, SignaturesAssumption DEF TypeOK
    <3> QED BY <1>1, <2>1, <3>1 DEF Rows
  <2> HIDE DEF x
  <2> QED BY <1>1, <1>2, <2>1, <2>2, <2>3
<1>4. CASE MarkEmailSent(r)
  <2> DEFINE x == [snap[r] EXCEPT !.sent = @ + 1]
  <2>1. snap[r].status = "pending" /\ snap[r].method = "deferred" /\ pc[r] = "mark"
    BY <1>4 DEF MarkEmailSent, Copies, AboutPending
  <2>2. UpdateRow(r, x) /\ links' = links
    BY <1>4 DEF MarkEmailSent
  <2>3. x \in Rows
    BY <1>1, RowChanges
  <2>4. x.status = "pending" /\ x.method = "deferred" /\ x.link = snap[r].link
    BY <1>1, <2>1 DEF Rows
  <2> HIDE DEF x
  <2> QED BY <1>1, <1>2, <2>1, <2>2, <2>3, <2>4
<1>5. CASE WriteRevoked(r)
  <2> DEFINE x == [snap[r] EXCEPT !.status = "revoked"]
  <2>1. snap[r].status = "pending" /\ snap[r].method = "deferred" /\ pc[r] = "revoke"
    BY <1>5 DEF WriteRevoked, Copies, AboutPending
  <2>2. UpdateRow(r, x) /\ links' = links
    BY <1>5 DEF WriteRevoked
  <2>3. x \in Rows /\ x.status = "revoked" /\ x.method = "deferred" /\ x.link = snap[r].link
    BY <1>1, <2>1 DEF Rows, Statuses
  <2> HIDE DEF x
  <2> QED BY <1>1, <1>2, <2>1, <2>2, <2>3
<1>6. CASE WriteExpired(r)
  <2> DEFINE x == [snap[r] EXCEPT !.status = "expired"]
  <2>1. snap[r].status = "pending" /\ snap[r].method = "deferred" /\ pc[r] = "expire"
    BY <1>6 DEF WriteExpired, Copies, AboutPending
  <2>2. UpdateRow(r, x) /\ links' = links
    BY <1>6 DEF WriteExpired
  <2>3. x \in Rows /\ x.status = "expired" /\ x.method = "deferred" /\ x.link = snap[r].link
    BY <1>1, <2>1 DEF Rows, Statuses
  <2> HIDE DEF x
  <2> QED BY <1>1, <1>2, <2>1, <2>2, <2>3
<1>7. CASE CompleteFromToken(r)
  <2> DEFINE x == [snap[r] EXCEPT !.status = "completed", !.hash = fsnap[r].fields]
  <2>1. /\ snap[r].status = "pending" /\ snap[r].method = "deferred" /\ pc[r] = "complete"
        /\ fsnap[r].fields \in Contents
    BY <1>7 DEF CompleteFromToken, Copies, AboutPending
  <2>2. UpdateRow(r, x) /\ links' = links
    BY <1>7 DEF CompleteFromToken
  <2>3. x \in Rows /\ x.status = "completed" /\ x.method = "deferred" /\ x.link = snap[r].link
    BY <1>1, <2>1 DEF Rows, Statuses
  <2> HIDE DEF x
  <2> QED BY <1>1, <1>2, <2>1, <2>2, <2>3
<1>8. CASE WriteVoided(r)
  <2> DEFINE x == [snap[r] EXCEPT !.status = "voided"]
  <2>1. snap[r].status = "completed" /\ pc[r] = "void"
    BY <1>8 DEF WriteVoided, Copies
  <2>2. UpdateRow(r, x) /\ links' = links
    BY <1>8 DEF WriteVoided
  <2>3. /\ x \in Rows /\ x.status = "voided" /\ x.method = snap[r].method
        /\ x.hash = snap[r].hash /\ x.link = snap[r].link
    BY <1>1 DEF Rows, Statuses
  <2> HIDE DEF x
  <2> QED BY <1>1, <1>2, <2>1, <2>2, <2>3
<1> QED BY <1>3, <1>4, <1>5, <1>6, <1>7, <1>8 DEF Writes

\* What an insertion stores.
LEMMA Inserted ==
    ASSUME TypeOK, Copies, NEW r \in Requests, Inserts(r)
    PROVE  \E s \in Sigs, x \in Rows :
             /\ flight.present /\ UNCHANGED <<flight, stale, died>>
             /\ sig[s].status = "none" /\ sig' = [sig EXCEPT ![s] = x]
             /\ \/ /\ x.status = "completed" /\ x.method = "live" /\ x.link = 0
                   /\ pc[r] = "sign" /\ links' = links
                \/ /\ x.status = "pending" /\ x.method = "deferred" /\ x.link = 1
                   /\ pc[r] = "create" /\ links' = [links EXCEPT ![s] = 1] /\ Pending = {}
<1>1. PICK s \in Sigs : CreateLive(r, s) \/ CreatePending(r, s)
  BY DEF Inserts
<1>2. CASE CreateLive(r, s)
  <2> DEFINE x == [NoRow EXCEPT !.status = "completed", !.method = "live",
                                !.hash = fsnap[r].fields]
  <2>1. x \in Rows /\ x.status = "completed" /\ x.method = "live" /\ x.link = 0
    BY <1>2 DEF CreateLive, Copies, NoRow, Rows, Statuses, Methods
  <2>2. /\ flight.present /\ UNCHANGED <<flight, stale, died>> /\ sig[s].status = "none"
        /\ sig' = [sig EXCEPT ![s] = x] /\ pc[r] = "sign" /\ links' = links
    BY <1>2 DEF CreateLive, hist
  <2> HIDE DEF x
  <2> QED BY <2>1, <2>2
<1>3. CASE CreatePending(r, s)
  <2> DEFINE x == [NoRow EXCEPT !.status = "pending", !.method = "deferred", !.link = 1]
  <2>1. x \in Rows /\ x.status = "pending" /\ x.method = "deferred" /\ x.link = 1
    BY DEF NoRow, Rows, Statuses, Methods
  <2>2. /\ flight.present /\ UNCHANGED <<flight, stale, died>> /\ sig[s].status = "none"
        /\ sig' = [sig EXCEPT ![s] = x] /\ pc[r] = "create" /\ Pending = {}
        /\ links' = [links EXCEPT ![s] = 1]
    BY <1>3 DEF CreatePending, hist
  <2> HIDE DEF x
  <2> QED BY <2>1, <2>2
<1> QED BY <1>1, <1>2, <1>3

\* An erased flight leaves nothing.
LEMMA Erased ==
    ASSUME TypeOK, Erases
    PROVE  /\ ~flight'.present /\ flight'.lock = NoSig
           /\ \A s \in Sigs : sig'[s] = NoRow /\ links'[s] = 0
BY DEF TypeOK, Flights, Erases, DeleteAllFlights, DeleteFlight, Erase

\* The sweep flips pending rows to expired and does nothing else.
LEMMA Swept ==
    ASSUME TypeOK, ExpirePendingPastDue
    PROVE  /\ UNCHANGED <<flight, links, reqs, stale, died>>
           /\ \A s \in Sigs :
                /\ sig'[s].method = sig[s].method /\ sig'[s].link = sig[s].link
                /\ sig'[s].hash = sig[s].hash
                /\ \/ sig'[s].status = sig[s].status
                   \/ sig[s].status = "pending" /\ sig'[s].status = "expired"
<1>1. ASSUME NEW s \in Sigs
      PROVE  /\ sig'[s].method = sig[s].method /\ sig'[s].link = sig[s].link
             /\ sig'[s].hash = sig[s].hash
             /\ \/ sig'[s].status = sig[s].status
                \/ sig[s].status = "pending" /\ sig'[s].status = "expired"
  <2>1. sig[s] \in Rows
    BY DEF TypeOK
  <2>2. \/ sig'[s] = sig[s]
        \/ sig[s].status = "pending" /\ sig'[s] = [sig[s] EXCEPT !.status = "expired"]
    BY DEF ExpirePendingPastDue
  <2> QED BY <2>1, <2>2 DEF Rows
<1> QED BY <1>1 DEF ExpirePendingPastDue, hist

-----------------------------------------------------------------------------
(* The life of the rows.                                                   *)

\* No step breaks the life of the rows.
LEMMA LifecycleStep ==
    ASSUME TypeOK, Copies, Lifecycle, [Next]_vars
    PROVE  Lifecycle'
<1>1. CASE KeepsRows
  BY <1>1 DEF KeepsRows, Lifecycle
<1>2. ASSUME NEW r \in Requests, Writes(r)
      PROVE  Lifecycle'
  <2>1. PICK x \in Rows :
          /\ UpdateRow(r, x) /\ x.method = snap[r].method
          /\ pc[r] = "void" => x.status = "voided"
          /\ pc[r] # "void" => /\ snap[r].method = "deferred"
                               /\ x.status \in {"pending", "revoked", "expired", "completed"}
    BY <1>2, Written
  <2>2. own[r] \in Sigs /\ UNCHANGED flight
    BY <1>2, Written
  <2>3. flight.present
    BY <2>1, <2>2 DEF UpdateRow, Lifecycle
  <2>4. sig' = [sig EXCEPT ![own[r]] = x]
    BY <2>1 DEF UpdateRow
  <2> QED BY <2>1, <2>2, <2>3, <2>4 DEF TypeOK, Lifecycle
<1>3. ASSUME NEW r \in Requests, Inserts(r)
      PROVE  Lifecycle'
  <2>1. PICK s \in Sigs, x \in Rows :
          /\ flight.present /\ UNCHANGED flight
          /\ sig' = [sig EXCEPT ![s] = x]
          /\ \/ x.status = "completed" /\ x.method = "live"
             \/ x.status = "pending" /\ x.method = "deferred"
    BY <1>3, Inserted
  <2> QED BY <2>1 DEF TypeOK, Lifecycle
<1>4. CASE Erases
  BY <1>4, Erased DEF Lifecycle, NoRow
<1>5. CASE ExpirePendingPastDue
  BY <1>5, Swept DEF Lifecycle
<1> QED BY <1>1, <1>2, <1>3, <1>4, <1>5, KindsOfSteps

\* A stored row keeps its method until the flight is erased; a signature given
\* on the owner's device keeps its hash and moves from completed to voided only.
LEMMA RowHistory ==
    ASSUME TypeOK, Copies, Lifecycle, Agreement, [Next]_vars, flight'.present,
           NEW s \in Sigs, sig[s].status # "none"
    PROVE  /\ flight.present
           /\ sig'[s].status # "none" /\ sig'[s].method = sig[s].method
           /\ sig[s].method = "live" =>
                /\ sig'[s].hash = sig[s].hash
                /\ sig'[s].status \in IF sig[s].status = "completed"
                                      THEN {"completed", "voided"} ELSE {"voided"}
<1>0. flight.present
  BY DEF Lifecycle
<1>1. CASE KeepsRows
  BY <1>0, <1>1 DEF KeepsRows, Lifecycle
<1>2. ASSUME NEW r \in Requests, Writes(r)
      PROVE  /\ sig'[s].status # "none" /\ sig'[s].method = sig[s].method
             /\ sig[s].method = "live" => sig'[s].hash = sig[s].hash /\ sig'[s].status = "voided"
             \/ sig'[s] = sig[s]
  <2>1. PICK x \in Rows :
          /\ UpdateRow(r, x) /\ x.method = snap[r].method
          /\ pc[r] = "void" => x.status = "voided" /\ x.hash = snap[r].hash
          /\ pc[r] # "void" => /\ snap[r].method = "deferred"
                               /\ x.status \in {"pending", "revoked", "expired", "completed"}
    BY <1>2, Written
  <2>2. own[r] \in Sigs
    BY <1>2, Written
  <2>3. sig' = [sig EXCEPT ![own[r]] = x]
    BY <2>1 DEF UpdateRow
  <2>4. CASE s = own[r]
    <3>1. pc[r] \in AboutSig
      BY <1>2 DEF Writes, Rotate, MarkEmailSent, WriteRevoked, WriteVoided, WriteExpired,
                  CompleteFromToken, AboutSig, AboutPending
    <3>2. sig[s].method = snap[r].method
      BY <1>0, <2>4, <3>1 DEF Agreement
    <3>3. sig'[s] = x
      BY <2>3, <2>4 DEF TypeOK
    <3>4. pc[r] = "void" /\ sig[s].method = "live" => snap[r].hash = sig[s].hash
      BY <1>0, <2>4, <3>2 DEF Agreement
    <3> QED BY <2>1, <3>2, <3>3, <3>4
  <2>5. CASE s # own[r]
    BY <2>3, <2>5 DEF TypeOK
  <2> QED BY <2>4, <2>5
<1>3. ASSUME NEW r \in Requests, Inserts(r)
      PROVE  sig'[s] = sig[s]
  BY <1>3, Inserted DEF TypeOK
<1>4. CASE Erases
  BY <1>4, Erased
<1>5. CASE ExpirePendingPastDue
  BY <1>0, <1>5, Swept DEF Lifecycle
<1> QED BY <1>0, <1>1, <1>2, <1>3, <1>4, <1>5, KindsOfSteps DEF Lifecycle

-----------------------------------------------------------------------------
(* Copies and originals.                                                   *)

\* A step is one of a request's or one of the surroundings.
RequestStep(r) ==
    \/ SignLive(r) \/ SetSignatureLock(r)
    \/ GetPending(r) \/ CountEmails(r) \/ Rotate(r) \/ SendMail(r) \/ MarkEmailSent(r)
    \/ WriteRevoked(r) \/ WriteVoided(r) \/ ClearSignatureLock(r)
    \/ WriteExpired(r) \/ HashFields(r) \/ CompleteFromToken(r)
    \/ ReadFlight(r, "edit") \/ ReadFlight(r, "delete")
    \/ DeleteFlight(r) \/ Fail(r)
    \/ \E m \in BOOLEAN : CreateRequest(r, m)
    \/ \E c \in Contents : UpdateFlight(r, c)
    \/ \E s \in Sigs :
         \/ CreateLive(r, s) \/ CreatePending(r, s)
         \/ Revoke(r, s) \/ Void(r, s)
         \/ \E m \in BOOLEAN : Resend(r, s, m)
         \/ \E n \in 1..MaxLinks : LookupPending(r, s, n)

Surroundings ==
    \/ \E c \in Contents : Rename(c)
    \/ \E s \in Sigs, n \in 1..MaxLinks : Lapse(s, n)
    \/ DeleteAllFlights
    \/ ExpirePendingPastDue

\* Next, grouped that way.
LEMMA NextSplit ==
    ASSUME Next
    PROVE  \/ \E r \in Requests : RequestStep(r)
           \/ Surroundings
BY Zenon DEF Next, RequestStep, Surroundings

\* A request keeps the copy it had, or has one that is current.
Kept(q)  == /\ pc[q] \in AboutSig /\ own'[q] = own[q] /\ snap'[q] = snap[q]
            /\ pc'[q] = "void" => pc[q] = "void"
Fresh(q) == /\ own'[q] \in Sigs /\ snap'[q] = sig'[own'[q]]
            /\ sig'[own'[q]].status # "none"

\* Every request that works on a signature after a step kept its copy or has
\* just read or written it.
LEMMA KeptOrFresh ==
    ASSUME TypeOK, Copies, [Next]_vars, NEW q \in Requests, pc'[q] \in AboutSig
    PROVE  Kept(q) \/ Fresh(q)
<1>0. CASE UNCHANGED vars
  BY <1>0 DEF vars, reqs, Kept
<1>1. ASSUME NEW r \in Requests,
             \/ SignLive(r) \/ GetPending(r) \/ CountEmails(r) \/ SendMail(r) \/ HashFields(r)
             \/ ReadFlight(r, "edit") \/ ReadFlight(r, "delete")
             \/ \E m \in BOOLEAN : CreateRequest(r, m)
      PROVE  Kept(q)
  BY <1>1 DEF TypeOK, SignLive, GetPending, CountEmails, SendMail, HashFields,
              ReadFlight, CreateRequest,
              Goto, Kept, AboutSig, AboutPending
<1>2. ASSUME NEW r \in Requests, Return(r)
      PROVE  Kept(q)
  BY <1>2 DEF TypeOK, Return, Goto, Kept, AboutSig, AboutPending
<1>3. ASSUME NEW r \in Requests,
             \/ SetSignatureLock(r) \/ ClearSignatureLock(r) \/ Fail(r) \/ DeleteFlight(r)
             \/ \E c \in Contents : UpdateFlight(r, c)
             \/ MarkEmailSent(r) \/ WriteRevoked(r) \/ WriteExpired(r)
      PROVE  Kept(q)
  BY <1>2, <1>3 DEF SetSignatureLock, ClearSignatureLock, Fail, DeleteFlight, UpdateFlight,
              MarkEmailSent, WriteRevoked, WriteExpired
<1>4. ASSUME NEW r \in Requests, q # r,
             pc' = [pc EXCEPT ![r] = pc'[r]], own' = [own EXCEPT ![r] = own'[r]],
             snap' = [snap EXCEPT ![r] = snap'[r]]
      PROVE  Kept(q)
  BY <1>4 DEF TypeOK, Kept
<1>5. ASSUME NEW r \in Requests, WriteVoided(r) \/ CompleteFromToken(r)
      PROVE  Kept(q) \/ Fresh(q)
  <2>1. PICK x : /\ sig' = [sig EXCEPT ![own[r]] = x] /\ snap' = [snap EXCEPT ![r] = x]
                 /\ x.status # "none"
    <3>1. CASE WriteVoided(r)
      <4> DEFINE x == [snap[r] EXCEPT !.status = "voided"]
      <4>1. x.status = "voided"
        BY DEF TypeOK, Rows
      <4>2. sig' = [sig EXCEPT ![own[r]] = x] /\ snap' = [snap EXCEPT ![r] = x]
        BY <3>1 DEF WriteVoided, UpdateRow
      <4> HIDE DEF x
      <4> QED BY <4>1, <4>2
    <3>2. CASE CompleteFromToken(r)
      <4> DEFINE x == [snap[r] EXCEPT !.status = "completed", !.hash = fsnap[r].fields]
      <4>1. x.status = "completed"
        BY DEF TypeOK, Rows
      <4>2. sig' = [sig EXCEPT ![own[r]] = x] /\ snap' = [snap EXCEPT ![r] = x]
        BY <3>2 DEF CompleteFromToken, UpdateRow
      <4> HIDE DEF x
      <4> QED BY <4>1, <4>2
    <3> QED BY <1>5, <3>1, <3>2
  <2>2. own[r] \in Sigs /\ UNCHANGED own /\ pc' = [pc EXCEPT ![r] = pc'[r]]
    BY <1>5 DEF WriteVoided, CompleteFromToken, TypeOK, Copies, AboutSig, AboutPending, Goto
  <2> QED BY <1>4, <2>1, <2>2 DEF TypeOK, Fresh, Kept
<1>6. ASSUME NEW r \in Requests, NEW s \in Sigs, NEW x \in Rows, x.status # "none",
             MailOrReturn(r, s, x), sig' = [sig EXCEPT ![s] = x]
      PROVE  Kept(q) \/ Fresh(q)
  <2>1. CASE mail[r]
    BY <1>6, <2>1 DEF TypeOK, MailOrReturn, Goto, Kept, Fresh
  <2>2. CASE ~mail[r]
    BY <1>2, <1>6, <2>2 DEF MailOrReturn
  <2> QED BY <2>1, <2>2
<1>7. ASSUME NEW r \in Requests, Rotate(r)
      PROVE  Kept(q) \/ Fresh(q)
  <2> DEFINE x == [snap[r] EXCEPT !.link = links[own[r]] + 1]
  <2>1. own[r] \in Sigs /\ snap[r].status = "pending"
    BY <1>7 DEF Rotate, Copies, AboutSig, AboutPending
  <2>2. x \in Rows /\ x.status = "pending"
    <3>1. links[own[r]] + 1 \in Nat /\ snap[r] \in Rows
      BY <2>1, SignaturesAssumption DEF TypeOK
    <3> QED BY <2>1, <3>1 DEF Rows
  <2>3. MailOrReturn(r, own[r], x) /\ sig' = [sig EXCEPT ![own[r]] = x]
    BY <1>7 DEF Rotate, UpdateRow
  <2> HIDE DEF x
  <2> QED BY <1>6, <2>1, <2>2, <2>3
<1>8. ASSUME NEW r \in Requests, NEW s \in Sigs, CreatePending(r, s)
      PROVE  Kept(q) \/ Fresh(q)
  <2> DEFINE x == [NoRow EXCEPT !.status = "pending", !.method = "deferred", !.link = 1]
  <2>1. x \in Rows /\ x.status = "pending"
    BY DEF NoRow, Rows, Statuses, Methods
  <2>2. MailOrReturn(r, s, x) /\ sig' = [sig EXCEPT ![s] = x]
    BY <1>8 DEF CreatePending
  <2> HIDE DEF x
  <2> QED BY <1>6, <2>1, <2>2
<1>9. ASSUME NEW r \in Requests, NEW s \in Sigs, CreateLive(r, s)
      PROVE  Kept(q) \/ Fresh(q)
  BY <1>9 DEF TypeOK, CreateLive, NoRow, Goto, Kept, Fresh
<1>10. ASSUME NEW r \in Requests, NEW s \in Sigs,
             \/ Revoke(r, s) \/ Void(r, s) \/ \E m \in BOOLEAN : Resend(r, s, m)
             \/ \E n \in 1..MaxLinks : LookupPending(r, s, n)
      PROVE  Kept(q) \/ Fresh(q)
  <2>1. /\ sig[s].status # "none" /\ UNCHANGED sig
        /\ pc' = [pc EXCEPT ![r] = pc'[r]]
        /\ own' = [own EXCEPT ![r] = s]
        /\ snap' = [snap EXCEPT ![r] = sig[s]]
    BY <1>10 DEF TypeOK, Revoke, Void, Resend, LookupPending, ReadSignature, Goto, db
  <2> QED BY <2>1 DEF TypeOK, Kept, Fresh
<1>11. ASSUME
             \/ \E c \in Contents : Rename(c)
             \/ \E s \in Sigs, n \in 1..MaxLinks : Lapse(s, n)
             \/ DeleteAllFlights \/ ExpirePendingPastDue
      PROVE  Kept(q)
  BY <1>11 DEF Rename, Lapse, DeleteAllFlights, ExpirePendingPastDue, reqs, Kept
<1>12. CASE Next
  <2>1. CASE \E r \in Requests : RequestStep(r)
    BY <1>1, <1>3, <1>5, <1>7, <1>8, <1>9, <1>10, <2>1 DEF RequestStep
  <2>2. CASE Surroundings
    BY <1>11, <2>2 DEF Surroundings
  <2> QED BY <1>12, <2>1, <2>2, NextSplit
<1> QED BY <1>0, <1>12

\* Method, and hash of a signature about to be voided, agree with the stored
\* row after every step: no statement changes them once they are set.
LEMMA AgreementStep ==
    ASSUME TypeOK, Copies, Lifecycle, Agreement, [Next]_vars
    PROVE  Agreement'
<1> SUFFICES ASSUME flight'.present, NEW q \in Requests
             PROVE  /\ pc'[q] \in AboutSig => /\ sig'[own'[q]].status # "none"
                                              /\ sig'[own'[q]].method = snap'[q].method
                    /\ pc'[q] = "void" /\ snap'[q].method = "live"
                         => snap'[q].hash = sig'[own'[q]].hash
  BY DEF Agreement
<1> SUFFICES ASSUME pc'[q] \in AboutSig
             PROVE  /\ sig'[own'[q]].status # "none"
                    /\ sig'[own'[q]].method = snap'[q].method
                    /\ pc'[q] = "void" /\ snap'[q].method = "live"
                         => snap'[q].hash = sig'[own'[q]].hash
  BY DEF AboutSig
<1>1. CASE Fresh(q)
  BY <1>1 DEF Fresh
<1>2. CASE Kept(q)
  <2>1. flight.present
    <3>1. CASE KeepsRows
      BY <3>1 DEF KeepsRows
    <3>2. CASE \E r \in Requests : Writes(r) \/ Inserts(r)
      <4>1. PICK r \in Requests : Writes(r) \/ Inserts(r)
        BY <3>2
      <4>2. CASE Writes(r)
        <5>1. flight' = flight
          BY <4>2, Written
        <5> QED BY <5>1
      <4>3. CASE Inserts(r)
        BY <4>3, Inserted
      <4> QED BY <4>1, <4>2, <4>3
    <3>3. CASE Erases
      BY <3>3, Erased
    <3>4. CASE ExpirePendingPastDue
      BY <3>4, Swept
    <3> QED BY <3>1, <3>2, <3>3, <3>4, KindsOfSteps
  <2>2. /\ own[q] \in Sigs /\ sig[own[q]].status # "none"
        /\ sig[own[q]].method = snap[q].method
        /\ pc[q] = "void" /\ snap[q].method = "live" => snap[q].hash = sig[own[q]].hash
    BY <1>2, <2>1 DEF Kept, Copies, Agreement
  <2>3. /\ sig'[own[q]].status # "none" /\ sig'[own[q]].method = sig[own[q]].method
        /\ sig[own[q]].method = "live" => sig'[own[q]].hash = sig[own[q]].hash
    BY <2>2, RowHistory
  <2> QED BY <1>2, <2>2, <2>3 DEF Kept
<1> QED BY <1>1, <1>2, KeptOrFresh

-----------------------------------------------------------------------------
(* The properties.                                                         *)

\* Only the writers of pending rows matter, and they pass the unique index.
LEMMA OnePendingStep ==
    ASSUME TypeOK, Copies, OnePending, [Next]_vars
    PROVE  OnePending'
<1>1. CASE KeepsRows
  BY <1>1 DEF KeepsRows, OnePending, Pending
<1>2. ASSUME NEW r \in Requests, Writes(r)
      PROVE  OnePending'
  <2>1. PICK x \in Rows : UpdateRow(r, x)
    BY <1>2, Written
  <2>2. own[r] \in Sigs
    BY <1>2, Written
  <2> QED BY <2>1, <2>2 DEF TypeOK, UpdateRow, Storable, OnePending, Pending
<1>3. ASSUME NEW r \in Requests, Inserts(r)
      PROVE  OnePending'
  <2>1. PICK s \in Sigs, x \in Rows :
          /\ sig' = [sig EXCEPT ![s] = x]
          /\ x.status = "completed" \/ Pending = {}
    BY <1>3, Inserted
  <2> QED BY <2>1 DEF TypeOK, OnePending, Pending
<1>4. CASE Erases
  BY <1>4, Erased DEF OnePending, Pending, NoRow
<1>5. CASE ExpirePendingPastDue
  BY <1>5, Swept DEF OnePending, Pending
<1> QED BY <1>1, <1>2, <1>3, <1>4, <1>5, KindsOfSteps

\* A write by a current copy stores the newest link; rotating makes one newer.
LEMMA NewestLinkStep ==
    ASSUME TypeOK, Copies, Lifecycle, NewestLink, [Next]_vars
    PROVE  NewestLink'
<1>0. ~stale' => ~stale
  <2>1. CASE UNCHANGED vars
    BY <2>1 DEF vars, hist
  <2>2. ASSUME NEW r \in Requests,
               \/ SignLive(r) \/ SetSignatureLock(r) \/ GetPending(r) \/ CountEmails(r)
               \/ SendMail(r) \/ HashFields(r) \/ Fail(r)
               \/ \E m \in BOOLEAN : CreateRequest(r, m)
        PROVE  ~stale' => ~stale
    BY <2>2 DEF SignLive, SetSignatureLock, GetPending, CountEmails, SendMail, HashFields, Fail,
                CreateRequest, hist, Wrote
  <2>3. ASSUME NEW r \in Requests,
               \/ Rotate(r) \/ MarkEmailSent(r) \/ WriteRevoked(r) \/ WriteVoided(r)
               \/ WriteExpired(r) \/ CompleteFromToken(r) \/ ClearSignatureLock(r)
        PROVE  ~stale' => ~stale
    BY <2>3 DEF Rotate, MarkEmailSent, WriteRevoked, WriteVoided, WriteExpired,
                CompleteFromToken, ClearSignatureLock, hist, Wrote, UpdateRow
  <2>4. ASSUME NEW r \in Requests,
               \/ ReadFlight(r, "edit") \/ ReadFlight(r, "delete") \/ DeleteFlight(r)
               \/ \E c \in Contents : UpdateFlight(r, c)
        PROVE  ~stale' => ~stale
    BY <2>4 DEF ReadFlight, DeleteFlight, UpdateFlight, hist, Wrote
  <2>5. ASSUME NEW r \in Requests, NEW s \in Sigs,
               \/ CreateLive(r, s) \/ CreatePending(r, s) \/ Revoke(r, s) \/ Void(r, s)
               \/ \E m \in BOOLEAN : Resend(r, s, m)
               \/ \E n \in 1..MaxLinks : LookupPending(r, s, n)
        PROVE  ~stale' => ~stale
    BY <2>5 DEF CreateLive, CreatePending, Revoke, Void, Resend, LookupPending, hist, Wrote
  <2>6. ASSUME \/ \E c \in Contents : Rename(c)
               \/ \E s \in Sigs, n \in 1..MaxLinks : Lapse(s, n)
               \/ DeleteAllFlights \/ ExpirePendingPastDue
        PROVE  ~stale' => ~stale
    BY <2>6 DEF Rename, Lapse, DeleteAllFlights, ExpirePendingPastDue, hist, Wrote
  <2> QED BY <2>1, <2>2, <2>3, <2>4, <2>5, <2>6 DEF Next
<1> SUFFICES ASSUME ~stale', NEW s \in Sigs
             PROVE  sig'[s].link = links'[s]
  BY DEF NewestLink
<1>l. \A t \in Sigs : sig[t].link = links[t]
  BY <1>0 DEF NewestLink
<1>1. CASE KeepsRows
  BY <1>1, <1>l DEF KeepsRows
<1>2. ASSUME NEW r \in Requests, Writes(r)
      PROVE  sig'[s].link = links'[s]
  <2>1. PICK x \in Rows :
          /\ UpdateRow(r, x)
          /\ pc[r] = "rotate" => x.link = links[own[r]] + 1
          /\ pc[r] # "rotate" => x.link = snap[r].link /\ links' = links
          /\ pc[r] = "rotate" => links' = [links EXCEPT ![own[r]] = @ + 1]
    BY <1>2, Written
  <2>2. own[r] \in Sigs
    BY <1>2, Written
  <2>3. sig' = [sig EXCEPT ![own[r]] = x] /\ sig[own[r]] = snap[r]
    BY <2>1 DEF UpdateRow, Wrote
  <2>4. CASE pc[r] = "rotate"
    BY <1>l, <2>1, <2>2, <2>3, <2>4 DEF TypeOK
  <2>5. CASE pc[r] # "rotate"
    BY <1>l, <2>1, <2>2, <2>3, <2>5 DEF TypeOK
  <2> QED BY <2>4, <2>5
<1>3. ASSUME NEW r \in Requests, Inserts(r)
      PROVE  sig'[s].link = links'[s]
  <2>1. PICK t \in Sigs, x \in Rows :
          /\ sig[t].status = "none" /\ sig' = [sig EXCEPT ![t] = x]
          /\ \/ x.link = 0 /\ links' = links
             \/ x.link = 1 /\ links' = [links EXCEPT ![t] = 1]
    BY <1>3, Inserted
  <2>2. sig[t].link = 0
    BY <2>1 DEF Lifecycle
  <2> QED BY <1>l, <2>1, <2>2 DEF TypeOK
<1>4. CASE Erases
  BY <1>4, Erased DEF NoRow
<1>5. CASE ExpirePendingPastDue
  BY <1>5, <1>l, Swept
<1> QED BY <1>1, <1>2, <1>3, <1>4, <1>5, KindsOfSteps

\* The witness of LockSound: a request still to clear the lock it voided.
Unlocking(s) == \E q \in Requests : pc[q] = "unlock" /\ own[q] = s

\* An unlocking request stays one, until it unlocks or dies.
LEMMA UnlockingStep ==
    ASSUME TypeOK, NEW r \in Requests, pc[r] # "unlock", NEW s \in Sigs, Unlocking(s),
           \A q \in Requests \ {r} : pc'[q] = pc[q] /\ own'[q] = own[q]
    PROVE  Unlocking(s)'
BY DEF Unlocking

\* Non-stale writes by pending copies never touch the locking signature, which
\* is completed or voided; the write that voids it leaves its request at unlock.
LEMMA LockSoundStep ==
    ASSUME TypeOK, Copies, Lifecycle, Agreement, LockSoundUnlessStale, [Next]_vars
    PROVE  LockSoundUnlessStale'
<1> SUFFICES ASSUME ~stale', ~died', flight'.lock # NoSig
             PROVE  /\ sig'[flight'.lock].hash = flight'.fields
                    /\ \/ sig'[flight'.lock].status = "completed"
                       \/ sig'[flight'.lock].status = "voided" /\ Unlocking(flight.lock)'
                          /\ flight'.lock = flight.lock
  BY DEF LockSoundUnlessStale, LockSound, FieldsHashValid, Unlocking
<1> DEFINE Goal == /\ sig'[flight'.lock].hash = flight'.fields
                   /\ \/ sig'[flight'.lock].status = "completed"
                      \/ sig'[flight'.lock].status = "voided" /\ Unlocking(flight.lock)'
                         /\ flight'.lock = flight.lock
<1>a. ASSUME ~stale, ~died, flight.lock # NoSig
      PROVE  /\ flight.lock \in Sigs
             /\ sig[flight.lock].hash = flight.fields
             /\ \/ sig[flight.lock].status = "completed"
                \/ sig[flight.lock].status = "voided" /\ Unlocking(flight.lock)
  BY <1>a DEF TypeOK, Flights, LockSoundUnlessStale, LockSound, FieldsHashValid, Unlocking
<1>0. CASE UNCHANGED vars
  BY <1>a, <1>0 DEF vars, db, reqs, hist, Unlocking
<1>1. ASSUME NEW r \in Requests, pc[r] # "unlock",
             UNCHANGED <<flight, sig, stale, died>>,
             \A q \in Requests \ {r} : pc'[q] = pc[q] /\ own'[q] = own[q]
      PROVE  Goal
  BY <1>a, <1>1, UnlockingStep
<1>2. ASSUME NEW r \in Requests,
             \/ SignLive(r) \/ GetPending(r) \/ CountEmails(r) \/ SendMail(r) \/ HashFields(r)
             \/ ReadFlight(r, "edit") \/ ReadFlight(r, "delete")
             \/ \E m \in BOOLEAN : CreateRequest(r, m)
      PROVE  Goal
  <2>1. pc[r] # "unlock" /\ UNCHANGED <<flight, sig, stale, died>>
    BY <1>2 DEF SignLive, GetPending, CountEmails, SendMail, HashFields, ReadFlight,
                CreateRequest, db, hist
  <2>2. \A q \in Requests \ {r} : pc'[q] = pc[q] /\ own'[q] = own[q]
    BY <1>2 DEF TypeOK, SignLive, GetPending, CountEmails, SendMail, HashFields, ReadFlight,
                CreateRequest, Goto
  <2> QED BY <1>1, <2>1, <2>2
<1>3. ASSUME NEW r \in Requests, NEW s \in Sigs,
             \/ Revoke(r, s) \/ Void(r, s) \/ \E m \in BOOLEAN : Resend(r, s, m)
             \/ \E n \in 1..MaxLinks : LookupPending(r, s, n)
      PROVE  Goal
  <2>1. pc[r] # "unlock" /\ UNCHANGED <<flight, sig, stale, died>>
    BY <1>3 DEF Revoke, Void, Resend, LookupPending, ReadSignature, db, hist
  <2>2. \A q \in Requests \ {r} : pc'[q] = pc[q] /\ own'[q] = own[q]
    BY <1>3 DEF TypeOK, Revoke, Void, Resend, LookupPending, ReadSignature, Goto
  <2> QED BY <1>1, <2>1, <2>2
<1>4. ASSUME NEW r \in Requests, Fail(r)
      PROVE  Goal
  <2>1. pc[r] # "unlock" /\ UNCHANGED <<flight, sig, stale, died>>
    BY <1>4 DEF TypeOK, Fail, db
  <2>2. \A q \in Requests \ {r} : pc'[q] = pc[q] /\ own'[q] = own[q]
    BY <1>4 DEF TypeOK, Fail, Return, Goto
  <2> QED BY <1>1, <2>1, <2>2
<1>5. ASSUME NEW r \in Requests, SetSignatureLock(r)
      PROVE  Goal
  <2>1. own[r] \in Sigs /\ snap[r].status = "completed"
    BY <1>5 DEF SetSignatureLock, Copies, AboutSig
  <2>2. flight'.lock = own[r] /\ flight'.fields = flight.fields /\ sig' = sig
    BY <1>5 DEF TypeOK, Flights, SetSignatureLock
  <2>3. flight.fields = snap[r].hash /\ sig[own[r]] = snap[r]
    BY <1>5 DEF SetSignatureLock, Wrote
  <2> QED BY <2>1, <2>2, <2>3
<1>6. ASSUME NEW r \in Requests, ClearSignatureLock(r)
      PROVE  flight'.lock = NoSig
  BY <1>6 DEF TypeOK, Flights, ClearSignatureLock
<1>7. ASSUME NEW r \in Requests, NEW c \in Contents, UpdateFlight(r, c)
      PROVE  flight'.lock = NoSig
  <2>1. flight = fsnap[r] /\ fsnap[r].lock = NoSig
    BY <1>7 DEF UpdateFlight, Wrote, Copies
  <2> QED BY <1>7, <2>1 DEF TypeOK, Flights, UpdateFlight
<1>8. ASSUME NEW c \in Contents, Rename(c)
      PROVE  flight'.lock = NoSig
  BY <1>8 DEF TypeOK, Flights, Rename
<1>9. ASSUME Erases
      PROVE  flight'.lock = NoSig
  BY <1>9, Erased
<1>10. ASSUME NEW s \in Sigs, NEW n \in 1..MaxLinks, Lapse(s, n)
      PROVE  Goal
  BY <1>a, <1>10 DEF Lapse, reqs, hist, Unlocking
<1>11. ASSUME ExpirePendingPastDue
       PROVE  Goal
  <2>1. UNCHANGED <<flight, stale, died, pc, own>>
    BY <1>11 DEF ExpirePendingPastDue, reqs, hist
  <2>2. /\ flight.lock \in Sigs
        /\ sig[flight.lock].hash = flight.fields
        /\ \/ sig[flight.lock].status = "completed"
           \/ sig[flight.lock].status = "voided" /\ Unlocking(flight.lock)
    BY <1>a, <2>1
  <2>3. /\ sig'[flight.lock].hash = sig[flight.lock].hash
        /\ sig'[flight.lock].status = sig[flight.lock].status
    BY <1>11, <2>2, Swept
  <2> QED BY <2>1, <2>2, <2>3 DEF Unlocking
<1>12. ASSUME NEW r \in Requests, Inserts(r)
      PROVE  Goal
  <2>1. PICK s \in Sigs, x \in Rows :
          /\ UNCHANGED <<flight, stale, died>> /\ pc[r] # "unlock"
          /\ sig[s].status = "none" /\ sig' = [sig EXCEPT ![s] = x]
    BY <1>12, Inserted
  <2>2. /\ flight.lock \in Sigs
        /\ sig[flight.lock].hash = flight.fields
        /\ \/ sig[flight.lock].status = "completed"
           \/ sig[flight.lock].status = "voided" /\ Unlocking(flight.lock)
    BY <1>a, <2>1
  <2>3. \A q \in Requests \ {r} : pc'[q] = pc[q] /\ own'[q] = own[q]
    BY <1>12 DEF TypeOK, Inserts, CreateLive, CreatePending, MailOrReturn, Return, Goto
  <2>4. Unlocking(flight.lock) => Unlocking(flight.lock)'
    BY <2>1, <2>2, <2>3, UnlockingStep
  <2>5. sig'[flight.lock] = sig[flight.lock]
    BY <2>1, <2>2 DEF TypeOK
  <2> QED BY <2>1, <2>2, <2>4, <2>5
<1>13. ASSUME NEW r \in Requests, Writes(r)
      PROVE  Goal
  <2>1. PICK x \in Rows :
          /\ UpdateRow(r, x)
          /\ pc[r] = "void" => /\ snap[r].status = "completed" /\ x.status = "voided"
                               /\ x.hash = snap[r].hash
          /\ pc[r] # "void" => snap[r].status = "pending"
    BY <1>13, Written
  <2>2. own[r] \in Sigs /\ flight' = flight /\ died' = died
    BY <1>13, Written
  <2>3. sig' = [sig EXCEPT ![own[r]] = x] /\ sig[own[r]] = snap[r] /\ ~stale
    BY <2>1 DEF UpdateRow, Wrote
  <2>4. /\ flight.lock \in Sigs
        /\ sig[flight.lock].hash = flight.fields
        /\ \/ sig[flight.lock].status = "completed"
           \/ sig[flight.lock].status = "voided" /\ Unlocking(flight.lock)
    BY <1>a, <2>2, <2>3
  <2>5. pc[r] # "unlock" /\ \A q \in Requests \ {r} : pc'[q] = pc[q] /\ own'[q] = own[q]
    <3>1. CASE Rotate(r)
      BY <3>1 DEF TypeOK, Rotate, MailOrReturn, Return, Goto
    <3>2. CASE MarkEmailSent(r) \/ WriteRevoked(r) \/ WriteExpired(r)
      BY <3>2 DEF TypeOK, MarkEmailSent, WriteRevoked, WriteExpired, Return, Goto
    <3>3. CASE WriteVoided(r) \/ CompleteFromToken(r)
      BY <3>3 DEF TypeOK, WriteVoided, CompleteFromToken, Goto
    <3> QED BY <1>13, <3>1, <3>2, <3>3 DEF Writes
  <2>6. Unlocking(flight.lock) => Unlocking(flight.lock)'
    BY <2>2, <2>5 DEF Unlocking
  <2>7. CASE own[r] # flight.lock
    <3>1. sig'[flight.lock] = sig[flight.lock]
      BY <2>2, <2>3, <2>4, <2>7 DEF TypeOK
    <3> QED BY <2>2, <2>4, <2>6, <3>1
  <2>8. CASE own[r] = flight.lock
    <3>1. pc[r] = "void"
      BY <2>1, <2>3, <2>4, <2>8
    <3>2. pc'[r] = "unlock" /\ own'[r] = own[r]
      BY <1>13, <3>1 DEF TypeOK, Writes, Rotate, MarkEmailSent, WriteRevoked, WriteVoided,
                         WriteExpired, CompleteFromToken, Goto
    <3>3. sig'[flight.lock] = x
      BY <2>2, <2>3, <2>8 DEF TypeOK
    <3>4. Unlocking(flight.lock)'
      BY <2>8, <3>2, <2>2 DEF Unlocking
    <3> QED BY <2>1, <2>2, <2>3, <2>4, <2>8, <3>1, <3>3, <3>4
  <2> QED BY <2>7, <2>8
<1> HIDE DEF Goal
<1>14. ASSUME Next
       PROVE  Goal
  <2>1. ASSUME NEW r \in Requests, RequestStep(r)
        PROVE  Goal
    <3>1. CASE Writes(r)
      BY <1>13, <3>1
    <3>2. CASE Inserts(r)
      BY <1>12, <3>2
    <3>3. CASE DeleteFlight(r)
      BY <1>9, <3>3 DEF Erases
    <3>4. CASE ~Writes(r) /\ ~Inserts(r) /\ ~DeleteFlight(r)
      BY <1>2, <1>3, <1>4, <1>5, <1>6, <1>7, <2>1, <3>4 DEF RequestStep, Writes, Inserts
    <3> QED BY <3>1, <3>2, <3>3, <3>4
  <2>2. CASE Surroundings
    BY <1>8, <1>9, <1>10, <1>11, <2>2 DEF Surroundings, Erases
  <2> QED BY <1>14, <2>1, <2>2, NextSplit
<1> QED BY <1>0, <1>14 DEF Goal

-----------------------------------------------------------------------------
(* The theorems.                                                           *)

\* A fresh flight has no signatures.
LEMMA Initially == ASSUME Init PROVE IInv
<1>1. TypeOK
  <2>1. 0 \in 0..MaxLinks
    BY SignaturesAssumption
  <2> QED BY <2>1, NoRowType DEF Init, TypeOK, Flights, Labels
<1>2. Copies /\ Lifecycle /\ Agreement
  BY DEF Init, Copies, Lifecycle, Agreement, AboutSig, AboutPending, NoRow
<1>3. OnePending /\ LockSoundUnlessStale /\ NewestLink
  BY DEF Init, OnePending, Pending, LockSoundUnlessStale, LockSound, NewestLink, NoRow
<1> QED BY <1>1, <1>2, <1>3 DEF IInv

\* The invariant is inductive.
LEMMA Inductive == ASSUME IInv, [Next]_vars PROVE IInv'
<1>1. /\ TypeOK /\ Copies /\ Lifecycle /\ Agreement /\ OnePending
      /\ LockSoundUnlessStale /\ NewestLink
  BY DEF IInv
<1>2. TypeOK' /\ Copies' /\ Lifecycle'
  BY <1>1, TypeStep, CopiesStep, LifecycleStep
<1>3. Agreement' /\ OnePending' /\ NewestLink'
  BY <1>1, AgreementStep, OnePendingStep, NewestLinkStep
<1>4. LockSoundUnlessStale'
  BY <1>1, LockSoundStep
<1> QED BY <1>2, <1>3, <1>4 DEF IInv

\* The inductive invariant holds throughout: types, what copies say, the life
\* of rows, copies against originals, and the three safety properties.
THEOREM Invariance == Spec => []IInv
BY Initially, Inductive, PTL DEF Spec

\* The table, the flight and the requests' copies are always well typed.
THEOREM TypeCorrect == Spec => []TypeOK
BY Invariance, PTL DEF IInv

\* However requests, resends, late mail marks and sweeps interleave, a flight
\* has at most one pending signature request.
THEOREM SinglePending == Spec => []OnePending
BY Invariance, PTL DEF IInv

\* Outdated copies and requests that die half way are the only ways in which a
\* flight ends up locked by a signature that is not completed, or that attests
\* other fields than the flight's: with every request run to its end and no
\* write by an outdated copy, the lock is sound.
THEOREM LockIsSound == Spec => []LockSoundUnlessStale
BY Invariance, PTL DEF IInv

\* Without writes by outdated copies, only the link generated last is stored.
THEOREM LinksAreNewest == Spec => []NewestLink
BY Invariance, PTL DEF IInv

\* Signatures given on the owner's device are append-only history under every
\* interleaving, outdated copies and crashes included.
THEOREM LiveHistoryKept == Spec => LiveHistory
<1>1. ASSUME IInv, [Next]_vars, NEW s \in Sigs, sig[s].method = "live", flight'.present
      PROVE  /\ sig'[s].method = "live"
             /\ sig'[s].hash = sig[s].hash
             /\ sig'[s].status \in IF sig[s].status = "completed"
                                   THEN {"completed", "voided"} ELSE {"voided"}
  <2>1. TypeOK /\ Copies /\ Lifecycle /\ Agreement
    BY <1>1 DEF IInv
  <2>2. sig[s].status # "none"
    BY <1>1, <2>1 DEF Lifecycle
  <2> QED BY <1>1, <2>1, <2>2, RowHistory
<1>2. IInv /\ [Next]_vars =>
        [\A s \in Sigs : sig[s].method = "live" /\ flight'.present
         => /\ sig'[s].method = "live"
            /\ sig'[s].hash = sig[s].hash
            /\ sig'[s].status \in IF sig[s].status = "completed"
                                  THEN {"completed", "voided"} ELSE {"voided"}]_vars
  BY <1>1
<1> QED BY <1>2, Invariance, PTL DEF Spec, LiveHistory
=============================================================================
