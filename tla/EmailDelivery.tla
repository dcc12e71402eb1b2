---------------------------- MODULE EmailDelivery ----------------------------
(***************************************************************************)
(* Sending mail: a send looks up the suppression list, speaks SMTP with    *)
(* the server, records the attempt and suppresses an address that the      *)
(* server refused for good.  Sends and the administrator's lifting of      *)
(* suppressions overlap, the request behind a send may be cancelled, and   *)
(* each database statement may fail.                                       *)
(***************************************************************************)
EXTENDS Integers, FiniteSets

CONSTANTS Sends,        \* sends, each of one mail
          Spellings,    \* recipient addresses as they are written
          Malformed,    \* those mail.ParseAddress refuses
          Normal,       \* normalizeEmail: lower case, trimmed
          Configured,   \* SMTP_HOST is set
          MaxLifts      \* bound on the administrator's requests

Addresses == {Normal[s] : s \in Spellings}
Statuses == {"delivered", "hard_bounce", "soft_bounce", "invalid_address", "suppressed",
             "rejected", "server_error", "dry_run"}

VARIABLES send,        \* each send: step, recipient, status
          suppressed,  \* email_suppressions: bounce_count per address, 0 without a row
          events,      \* email_delivery_events, per send
          gauge,       \* the metric of suppressed addresses
          lifts,
          refused,     \* ghost: addresses the server has answered with a 5xx at RCPT
          torn         \* ghost: a statement or a refresh of the gauge was disturbed

mailVars == <<send, suppressed, events, gauge, lifts, refused, torn>>

Listed == {a \in Addresses : suppressed[a] > 0}
To(p) == Normal[send[p].to]
At(p, step) == send[p].step = step
Goto(p, step) == send' = [send EXCEPT ![p].step = step]
\* fail and record: the status a send ends with goes to the recorder.
fail(p, status) == send' = [send EXCEPT ![p].step = "record", ![p].status = status]

-----------------------------------------------------------------------------
\* Sender.SendMessage: a malformed address never reaches the server.
SendMessage(p) == \E s \in Spellings :
  /\ At(p, "new")
  /\ send' = [send EXCEPT ![p] = [step |-> IF s \in Malformed THEN "record" ELSE "lookup", to |-> s,
                                  status |-> IF s \in Malformed THEN "invalid_address" ELSE "none",
                                  blind |-> FALSE, listed |-> suppressed[Normal[s]] > 0, cancelled |-> FALSE]]
  /\ UNCHANGED <<suppressed, events, gauge, lifts, refused, torn>>

\* Mutant: the address is looked up as it is written.
IsSuppressedExact(p) == send[p].to \in Listed
IsSuppressed(p) == To(p) \in Listed
\* The lookup of a send; without SMTP nothing else happens.
Lookup(p) ==
  /\ At(p, "lookup")
  /\ \/ IsSuppressed(p) /\ fail(p, "suppressed")
     \/ ~IsSuppressed(p) /\ (IF Configured THEN Goto(p, "deliver") ELSE fail(p, "dry_run"))
     \/ \* the statement fails: the mail is sent anyway
        send' = [send EXCEPT ![p].step = IF Configured THEN "deliver" ELSE "record", ![p].blind = TRUE,
                             ![p].status = IF Configured THEN "none" ELSE "dry_run"]
  /\ UNCHANGED <<suppressed, events, gauge, lifts, refused, torn>>

\* The end of the SMTP dialogue by where it fails: before RCPT and at DATA, at RCPT, at the end
\* of the message; a lost connection has reply code 0.
Replies == [at : {"server", "rcpt", "data"}, code : {0, 4, 5}] \cup {[at |-> "accepted", code |-> 2]}
classify(r) ==
  CASE r.at = "server" -> "server_error"
    [] r.at = "rcpt" -> IF r.code = 5 THEN "hard_bounce" ELSE "soft_bounce"
    [] r.at = "data" -> IF r.code = 4 THEN "soft_bounce" ELSE "rejected"
    [] r.at = "accepted" -> "delivered"
\* Sender.deliver: a cancelled request cannot connect.
deliver(p) == \E r \in Replies :
  /\ At(p, "deliver") /\ (send[p].cancelled => r = [at |-> "server", code |-> 0])
  /\ fail(p, classify(r))
  /\ refused' = IF r.at = "rcpt" /\ r.code = 5 THEN refused \cup {To(p)} ELSE refused
  /\ UNCHANGED <<suppressed, events, gauge, lifts, torn>>

\* RecordAttempt runs without the cancellation of its request: the event first.  A statement
\* that fails is logged and left.
RecordEvent(p) ==
  /\ At(p, "record")
  /\ \/ events' = [events EXCEPT ![p] = send[p].status] /\ torn' = torn
     \/ events' = events /\ torn' = TRUE
  /\ Goto(p, IF send[p].status = "hard_bounce" THEN "suppress" ELSE "done")
  /\ UNCHANGED <<suppressed, gauge, lifts, refused>>
\* ON CONFLICT (email) DO UPDATE: one row per address, which counts its bounces.
Suppress(p) ==
  /\ At(p, "suppress")
  /\ \/ suppressed' = [suppressed EXCEPT ![To(p)] = @ + 1] /\ Goto(p, "count") /\ torn' = torn
     \/ suppressed' = suppressed /\ Goto(p, "done") /\ torn' = TRUE
  /\ UNCHANGED <<events, gauge, lifts, refused>>

\* refreshSuppressionGauge counts and then sets.
CountSuppressions(p) ==
  /\ At(p, "count")
  /\ send' = [send EXCEPT ![p].step = "set", ![p].status = Cardinality(Listed)]
  /\ torn' = (torn \/ \E q \in Sends \ {p} : send[q].step \in {"suppress", "count", "set"})
  /\ UNCHANGED <<suppressed, events, gauge, lifts, refused>>
SetGauge(p) == /\ At(p, "set") /\ gauge' = send[p].status
               /\ Goto(p, "done") /\ UNCHANGED <<suppressed, events, lifts, refused, torn>>

\* Unsuppress deletes the row and refreshes the gauge.
Unsuppress(a) ==
  /\ lifts < MaxLifts /\ lifts' = lifts + 1 /\ a \in Listed
  /\ suppressed' = [suppressed EXCEPT ![a] = 0] /\ gauge' = Cardinality(Listed \ {a})
  /\ torn' = (torn \/ \E p \in Sends : send[p].step \in {"suppress", "count", "set"})
  /\ send' = [p \in Sends |-> IF send[p].step # "new" /\ To(p) = a THEN [send[p] EXCEPT !.listed = FALSE] ELSE send[p]]
  /\ UNCHANGED <<events, refused>>

\* The client of the request behind a send goes away.
Cancel(p) == /\ send[p].step \in {"lookup", "deliver", "record"} /\ ~send[p].cancelled
             /\ send' = [send EXCEPT ![p].cancelled = TRUE]
             /\ UNCHANGED <<suppressed, events, gauge, lifts, refused, torn>>

MailInit == /\ send = [p \in Sends |-> [step |-> "new"]] /\ suppressed = [a \in Addresses |-> 0]
            /\ events = [p \in Sends |-> "none"] /\ gauge = 0 /\ lifts = 0 /\ refused = {} /\ torn = FALSE
MailNext == \/ \E p \in Sends : \/ SendMessage(p) \/ Lookup(p) \/ deliver(p) \/ RecordEvent(p)
                                \/ Suppress(p) \/ CountSuppressions(p) \/ SetGauge(p) \/ Cancel(p)
            \/ \E a \in Addresses : Unsuppress(a)
MailSpec == MailInit /\ [][MailNext]_mailVars

-----------------------------------------------------------------------------
\* Only an address whose RCPT the server refused for good is suppressed: a full mailbox, greylisting,
\* a refused message, an address that does not parse or a dead server never silence a user; and such
\* an address is suppressed once its bounce is on record, as long as no suppression is lifted and no
\* statement fails (deliver, RecordAttempt).
SuppressionEarned ==
  /\ Listed \subseteq refused
  /\ ~torn /\ lifts = 0 => \A p \in Sends : At(p, "done") /\ events[p] = "hard_bounce" => To(p) \in Listed

\* Mail to an address that was suppressed when the send began never reaches the server, however
\* the address is written, unless the suppression was lifted or the lookup failed (IsSuppressed).
NoMailToSuppressed ==
  \A p \in Sends : send[p].step = "deliver" /\ send[p].listed => send[p].blind

\* Every send that has ended left the event of how it ended, cancelled requests included, unless
\* a statement failed (RecordAttempt).
AttemptsRecorded ==
  ~torn => \A p \in Sends : At(p, "done") => events[p] \in Statuses /\ (events[p] = "hard_bounce" => To(p) \in refused)

\* The gauge shows the number of suppressed addresses whenever nobody is about to refresh it and
\* no refresh was overtaken (refreshSuppressionGauge, Unsuppress).
GaugeTrue == (~torn /\ \A p \in Sends : send[p].step \notin {"count", "set"}) => gauge = Cardinality(Listed)

\* Documented, and not what the code does: "`invalid_address` ... Suppresses the address? ... Yes"
\* (docs/AUTHENTICATION.md:225).  RecordAttempt suppresses hard bounces only.
InvalidSuppressed ==
  ~torn => \A p \in Sends : At(p, "done") /\ events[p] = "invalid_address" => To(p) \in Listed
=============================================================================
