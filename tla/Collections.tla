---------------------------- MODULE Collections ----------------------------
(***************************************************************************)
(* Three collections an account fills up to a limit: custom currency       *)
(* rules, custom reports and the files attached to a licence or a          *)
(* credential.  Rules and reports are counted first and inserted after;    *)
(* files are counted under a lock on the document's row.  A rule is read,  *)
(* changed and written back whole; sharing hands out a token.              *)
(***************************************************************************)
EXTENDS Integers, Sequences, FiniteSets, FiniteSetsExt

CONSTANTS Procs, Accounts, RuleIds, Definitions, Tokens, ReportIds, FileIds, Documents, DocumentOwner,
          MaxRulesPerUser, MaxReportsPerUser, MaxFilesPerSubject, MaxRequests, None

VARIABLES rules,     \* custom_currency_rules: id -> rule or None
          reports,   \* custom_reports: id -> report or None
          files,     \* document_files: id -> document or None
          documents, \* the licences and credentials that exist
          lock,      \* which request holds the row lock of a document
          req,       \* the requests being served
          served,
          revoked,   \* ghost: tokens whose sharing was ended
          stale,     \* ghost: rules written from a copy that was no longer current
          ordered,   \* ghost: which report was put, or created, before which
          given,     \* the ids given out so far
          overlapped \* ghost: accounts for which two requests created the same kind at once

vars == <<rules, reports, files, documents, lock, req, served, revoked, stale, ordered, given, overlapped>>

Rule == [owner : Accounts, definition : Definitions, enabled : BOOLEAN, notify : BOOLEAN,
         shared : BOOLEAN, token : Tokens \cup {None}, from : RuleIds \cup {None}]
Report == [owner : Accounts, definition : Definitions, position : Nat]

NoRequest == [step |-> "idle", id |-> None, token |-> None]
Idle(p) == req[p] = NoRequest
\* Whom a request creates a rule, or a report, for.
ruleFor(r) == IF r.step = "ruleInsert" THEN {r.rule.owner} ELSE {}
reportFor(r) == IF r.step \in {"reportInsert", "reportStore"} THEN {r.report.owner} ELSE {}
overlap(r) == UNION {(ruleFor(r) \cap ruleFor(req[q])) \cup (reportFor(r) \cap reportFor(req[q])) : q \in Procs}
Begin(p, r) == /\ Idle(p) /\ served < MaxRequests /\ served' = served + 1
               /\ req' = [req EXCEPT ![p] = r] /\ given' = given \cup ({r.id} \ {None})
               /\ overlapped' = overlapped \cup overlap(r)
Go(p, r) == req' = [req EXCEPT ![p] = r] /\ UNCHANGED <<served, given, overlapped>>
Answer(p) == Go(p, NoRequest)
stored == <<rules, reports, files, documents, lock, revoked, stale, ordered>>
Refuse(p) == Answer(p) /\ UNCHANGED stored
\* A new uuid.
Fresh(id) == id \notin given

-----------------------------------------------------------------------------
\* Custom currency rules.

rulesOf(u) == {id \in RuleIds : rules[id] # None /\ rules[id].owner = u}
GetByShareToken(t) == {id \in RuleIds : rules[id] # None /\ rules[id].token = t /\ rules[id].shared}
ownedRule(u, id) == rules[id] # None /\ rules[id].owner = u

ruleInsert(p) ==
  /\ rules' = [rules EXCEPT ![req[p].id] = req[p].rule]
  /\ Answer(p)
  /\ UNCHANGED <<reports, files, documents, lock, revoked, stale, ordered>>

\* UPDATE ... WHERE id with every column of the copy; user_id and imported_from are none of them.
ruleUpdate(p) ==
  IF rules[req[p].id] = None THEN Refuse(p)
  ELSE /\ rules' = [rules EXCEPT ![req[p].id] = [req[p].rule EXCEPT !.owner = rules[req[p].id].owner,
                                                                      !.from = rules[req[p].id].from]]
       /\ stale' = IF rules[req[p].id] # req[p].seen THEN stale \cup {req[p].id} ELSE stale
       /\ revoked' = revoked \cup (IF req[p].rule.token = None THEN {rules[req[p].id].token} \ {None} ELSE {})
       /\ Answer(p)
       /\ UNCHANGED <<reports, files, documents, lock, ordered>>

ruleDelete(p) ==
  IF rules[req[p].id] = None THEN Refuse(p)
  ELSE /\ rules' = [id \in RuleIds |-> IF id = req[p].id THEN None
                      ELSE IF rules[id] # None /\ rules[id].from = req[p].id
                           THEN [rules[id] EXCEPT !.from = None] ELSE rules[id]]
       /\ revoked' = revoked \cup ({rules[req[p].id].token} \ {None})
       /\ Answer(p)
       /\ UNCHANGED <<reports, files, documents, lock, stale, ordered>>

checkQuota(u) == Cardinality(rulesOf(u)) < MaxRulesPerUser
NewRule(u, d, from) == [owner |-> u, definition |-> d, enabled |-> TRUE, notify |-> FALSE,
                        shared |-> FALSE, token |-> None, from |-> from]
Insertion(id, rule) == [step |-> "ruleInsert", id |-> id, rule |-> rule, token |-> None]
Change(id, rule) == [step |-> "ruleUpdate", id |-> id, rule |-> rule, seen |-> rules[id], token |-> rule.token]

CreateRule(p, u, id, d) == Fresh(id) /\ checkQuota(u) /\ Begin(p, Insertion(id, NewRule(u, d, None)))
UpdateRule(p, u, id, d) == ownedRule(u, id) /\ Begin(p, Change(id, [rules[id] EXCEPT !.definition = d]))
DeleteRule(p, u, id) ==
  ownedRule(u, id) /\ Begin(p, [step |-> "ruleDelete", id |-> id, token |-> None])
SetEnabled(p, u, id, b) == ownedRule(u, id) /\ Begin(p, Change(id, [rules[id] EXCEPT !.enabled = b]))
SetNotify(p, u, id, b) == ownedRule(u, id) /\ Begin(p, Change(id, [rules[id] EXCEPT !.notify = b]))
\* Sharing keeps a token the rule already has; a new one has never been used.
SetShared(p, u, id, shared) ==
  /\ ownedRule(u, id)
  /\ \/ ~shared /\ Begin(p, Change(id, [rules[id] EXCEPT !.shared = FALSE, !.token = None]))
     \/ /\ shared /\ rules[id].token # None
        /\ Begin(p, Change(id, [rules[id] EXCEPT !.shared = TRUE]))
     \/ /\ shared /\ rules[id].token = None
        /\ \E t \in Tokens :
             /\ t \notin revoked /\ \A x \in RuleIds : rules[x] # None => rules[x].token # t
             /\ \A q \in Procs : req[q].token # t
             /\ Begin(p, Change(id, [rules[id] EXCEPT !.shared = TRUE, !.token = t]))
\* The rule behind the token is copied; the copy is the importer's own and not shared.
ImportRule(p, u, id, t) ==
  \E src \in GetByShareToken(t) :
    /\ rules[src].owner # u
    /\ Fresh(id) /\ checkQuota(u)
    /\ Begin(p, Insertion(id, NewRule(u, rules[src].definition, src)))
\* imported_from refers to the source; the insert fails once it is gone.
ImportedFromGone(p) == req[p].rule.from # None /\ rules[req[p].rule.from] = None

CreateCustomCurrencyRule(p) ==
  \E u \in Accounts, id \in RuleIds, d \in Definitions : CreateRule(p, u, id, d)
UpdateCustomCurrencyRule(p) ==
  \E u \in Accounts, id \in RuleIds, d \in Definitions : UpdateRule(p, u, id, d)
DeleteCustomCurrencyRule(p) == \E u \in Accounts, id \in RuleIds : DeleteRule(p, u, id)
SetCustomCurrencyRuleEnabled(p) == \E u \in Accounts, id \in RuleIds, b \in BOOLEAN : SetEnabled(p, u, id, b)
SetCustomCurrencyRuleNotify(p) == \E u \in Accounts, id \in RuleIds, b \in BOOLEAN : SetNotify(p, u, id, b)
setCustomCurrencyShare(p) == \E u \in Accounts, id \in RuleIds, b \in BOOLEAN : SetShared(p, u, id, b)
ImportSharedCustomCurrencyRule(p) ==
  \E u \in Accounts, id \in RuleIds, t \in Tokens : ImportRule(p, u, id, t)

RuleRequest(p) ==
  /\ \/ CreateCustomCurrencyRule(p) \/ UpdateCustomCurrencyRule(p) \/ DeleteCustomCurrencyRule(p)
     \/ SetCustomCurrencyRuleEnabled(p) \/ SetCustomCurrencyRuleNotify(p)
     \/ setCustomCurrencyShare(p) \/ ImportSharedCustomCurrencyRule(p)
  /\ UNCHANGED stored
RuleWrite(p) ==
  \/ req[p].step = "ruleInsert" /\ (IF ImportedFromGone(p) THEN Refuse(p) ELSE ruleInsert(p))
  \/ req[p].step = "ruleUpdate" /\ ruleUpdate(p)
  \/ req[p].step = "ruleDelete" /\ ruleDelete(p)

-----------------------------------------------------------------------------
\* Custom reports.

reportsOf(u) == {id \in ReportIds : reports[id] # None /\ reports[id].owner = u}
CountByUserID(u) == Cardinality(reportsOf(u))

\* INSERT ... SELECT: the position is one more than the greatest the statement sees; what
\* others write before its row is stored it does not see.
placed(u) == {<<id, reports[id].position>> : id \in reportsOf(u)}
reportInsert(p) ==
  LET u == req[p].report.owner
      taken == {reports[id].position : id \in reportsOf(u)}
  IN /\ Go(p, [step |-> "reportStore", id |-> req[p].id, token |-> None, seen |-> placed(u),
               report |-> [req[p].report EXCEPT !.position = IF taken = {} THEN 0 ELSE Max(taken) + 1]])
     /\ UNCHANGED stored
reportStore(p) ==
  /\ reports' = [reports EXCEPT ![req[p].id] = req[p].report]
  /\ ordered' = ordered \cup ({id \in reportsOf(req[p].report.owner) : <<id, reports[id].position>> \in req[p].seen}
                                \X {req[p].id})
  /\ Answer(p)
  /\ UNCHANGED <<rules, files, documents, lock, revoked, stale>>
\* Name and definition only.
reportUpdate(p) ==
  IF reports[req[p].id] = None THEN Refuse(p)
  ELSE /\ reports' = [reports EXCEPT ![req[p].id].definition = req[p].report.definition]
       /\ Answer(p)
       /\ UNCHANGED <<rules, files, documents, lock, revoked, stale, ordered>>
reportDelete(p) ==
  IF reports[req[p].id] = None THEN Refuse(p)
  ELSE /\ reports' = [reports EXCEPT ![req[p].id] = None]
       /\ ordered' = {e \in ordered : req[p].id \notin {e[1], e[2]}}
       /\ Answer(p)
       /\ UNCHANGED <<rules, files, documents, lock, revoked, stale>>
\* One transaction; an id that is gone by now is passed over.
SetPositions(p) ==
  LET ids == req[p].order
      at(id) == CHOOSE i \in DOMAIN ids : ids[i] = id
  IN /\ reports' = [id \in ReportIds |->
                      IF reports[id] # None /\ reports[id].owner = req[p].owner /\ id \in Range(ids)
                      THEN [reports[id] EXCEPT !.position = at(id) - 1] ELSE reports[id]]
     /\ ordered' = {e \in ordered : reports[e[1]].owner # req[p].owner}
                      \cup {e \in Range(ids) \X Range(ids) : reports[e[1]] # None /\ reports[e[2]] # None
                                                              /\ at(e[1]) < at(e[2])}
     /\ Answer(p)
     /\ UNCHANGED <<rules, files, documents, lock, revoked, stale>>

CreateReport(p, u, id, d) ==
  /\ Fresh(id) /\ CountByUserID(u) < MaxReportsPerUser
  /\ Begin(p, [step |-> "reportInsert", id |-> id, token |-> None,
               report |-> [owner |-> u, definition |-> d, position |-> 0]])
GetReport(u, id) == reports[id] # None /\ reports[id].owner = u
UpdateReport(p, u, id, d) ==
  /\ GetReport(u, id)
  /\ Begin(p, [step |-> "reportUpdate", id |-> id, token |-> None, report |-> [reports[id] EXCEPT !.definition = d]])
DeleteReport(p, u, id) ==
  GetReport(u, id) /\ Begin(p, [step |-> "reportDelete", id |-> id, token |-> None])
\* The order must name every report of the account exactly once.
Reorder(p, u, ids) ==
  /\ Len(ids) = CountByUserID(u) /\ Range(ids) = reportsOf(u)
  /\ Begin(p, [step |-> "reorder", id |-> None, token |-> None, order |-> ids, owner |-> u])

CreateCustomReport(p) == \E u \in Accounts, id \in ReportIds, d \in Definitions : CreateReport(p, u, id, d)
UpdateCustomReport(p) == \E u \in Accounts, id \in ReportIds, d \in Definitions : UpdateReport(p, u, id, d)
DeleteCustomReport(p) == \E u \in Accounts, id \in ReportIds : DeleteReport(p, u, id)
ReorderCustomReports(p) == \E u \in Accounts : \E ids \in [1 .. CountByUserID(u) -> reportsOf(u)] : ids # <<>> /\ Reorder(p, u, ids)

ReportRequest(p) ==
  /\ CreateCustomReport(p) \/ UpdateCustomReport(p) \/ DeleteCustomReport(p) \/ ReorderCustomReports(p)
  /\ UNCHANGED stored
ReportWrite(p) ==
  \/ req[p].step = "reportInsert" /\ reportInsert(p)
  \/ req[p].step = "reportStore" /\ reportStore(p)
  \/ req[p].step = "reportUpdate" /\ reportUpdate(p)
  \/ req[p].step = "reportDelete" /\ reportDelete(p)
  \/ req[p].step = "reorder" /\ SetPositions(p)

-----------------------------------------------------------------------------
\* Document files.

filesOf(d) == {x \in FileIds : files[x] = d}
verifySubject(u, d) == d \in documents /\ DocumentOwner[d] = u
Upload(p, u, d, x) ==
  /\ verifySubject(u, d) /\ Fresh(x)
  /\ Begin(p, [step |-> "fileLock", id |-> x, token |-> None, document |-> d])
  /\ UNCHANGED stored
\* SELECT ... FOR UPDATE on the licence or the credential.
fileLock(p) ==
  LET d == req[p].document
  IN IF d \notin documents THEN Refuse(p)
     ELSE /\ lock[d] = None
          /\ lock' = [lock EXCEPT ![d] = p]
          /\ Go(p, [req[p] EXCEPT !.step = "fileCount"])
          /\ UNCHANGED <<rules, reports, files, documents, revoked, stale, ordered>>
fileCount(p) ==
  LET d == req[p].document
  IN IF Cardinality(filesOf(d)) >= MaxFilesPerSubject
     THEN /\ lock' = [lock EXCEPT ![d] = None] /\ Answer(p)
          /\ UNCHANGED <<rules, reports, files, documents, revoked, stale, ordered>>
     ELSE Go(p, [req[p] EXCEPT !.step = "fileInsert"]) /\ UNCHANGED stored
fileInsert(p) ==
  /\ files' = [files EXCEPT ![req[p].id] = req[p].document]
  /\ lock' = [lock EXCEPT ![req[p].document] = None]
  /\ Answer(p)
  /\ UNCHANGED <<rules, reports, documents, revoked, stale, ordered>>
DeleteFile(p, u, d, x) ==
  /\ verifySubject(u, d) /\ files[x] = d /\ Idle(p)
  /\ files' = [files EXCEPT ![x] = None]
  /\ UNCHANGED <<rules, reports, documents, lock, req, served, revoked, stale, ordered, given, overlapped>>
\* A licence or a credential is deleted: the statement waits for the row lock, its files go
\* with it.
DeleteDocument(d) ==
  /\ d \in documents /\ lock[d] = None
  /\ documents' = documents \ {d}
  /\ files' = [x \in FileIds |-> IF files[x] = d THEN None ELSE files[x]]
  /\ UNCHANGED <<rules, reports, lock, req, served, revoked, stale, ordered, given, overlapped>>

uploadDocumentFile(p) == \E u \in Accounts, d \in Documents, x \in FileIds : Upload(p, u, d, x)
deleteDocumentFile(p) == \E u \in Accounts, d \in Documents, x \in FileIds : DeleteFile(p, u, d, x)
FileRequest(p) == uploadDocumentFile(p) \/ deleteDocumentFile(p)
FileWrite(p) == \/ req[p].step = "fileLock" /\ fileLock(p)
                \/ req[p].step = "fileCount" /\ fileCount(p)
                \/ req[p].step = "fileInsert" /\ fileInsert(p)

-----------------------------------------------------------------------------
Init ==
  /\ rules = [id \in RuleIds |-> None]
  /\ reports = [id \in ReportIds |-> None]
  /\ files = [x \in FileIds |-> None]
  /\ documents = Documents
  /\ lock = [d \in Documents |-> None]
  /\ req = [p \in Procs |-> NoRequest] /\ served = 0
  /\ revoked = {} /\ stale = {} /\ ordered = {} /\ given = {} /\ overlapped = {}

Next == \/ \E p \in Procs : \/ RuleRequest(p) \/ RuleWrite(p)
                            \/ ReportRequest(p) \/ ReportWrite(p)
                            \/ FileRequest(p) \/ FileWrite(p)
        \/ \E d \in Documents : DeleteDocument(d)

Spec == Init /\ [][Next]_vars

-----------------------------------------------------------------------------
\* Rows have the form of their tables; a file always has its document.
TypeOK ==
  /\ \A id \in RuleIds : rules[id] \in Rule \cup {None}
  /\ \A id \in ReportIds : reports[id] = None \/ reports[id] \in Report
  /\ \A x \in FileIds : files[x] \in documents \cup {None}
  /\ \A d \in Documents : lock[d] \in Procs \cup {None}

\* The limits.  Files never exceed theirs: they are counted and inserted under the lock of
\* the document's row.  Rules and reports are counted and inserted in two statements: an
\* account keeps within MaxRulesPerUser and MaxReportsPerUser unless two of its creations
\* overlapped, and then each further request served at the same time may add one.
WithinLimits ==
  /\ \A d \in Documents : Cardinality(filesOf(d)) <= MaxFilesPerSubject
  /\ \A u \in Accounts \ overlapped : Cardinality(rulesOf(u)) <= MaxRulesPerUser /\ CountByUserID(u) <= MaxReportsPerUser
  /\ \A u \in Accounts :
       /\ Cardinality(rulesOf(u)) <= MaxRulesPerUser + Cardinality(Procs) - 1
       /\ CountByUserID(u) <= MaxReportsPerUser + Cardinality(Procs) - 1

\* A token whose sharing was ended opens nothing, and a token opens one rule; the exception
\* is a rule that was written back from a copy read before the sharing ended.
RevokedStaysRevoked ==
  \A t \in Tokens : /\ Cardinality({id \in RuleIds : rules[id] # None /\ rules[id].token = t}) <= 1
                    /\ t \in revoked => GetByShareToken(t) \subseteq stale

\* An imported rule belongs to the importer alone: it carries no token of its source, and a
\* rule holds a token exactly while it is shared.
CopiesAreOwn ==
  \A id \in RuleIds : rules[id] # None =>
    /\ rules[id].shared = (rules[id].token # None)
    /\ rules[id].from # None => rules[rules[id].from] # None /\ rules[rules[id].from].owner # rules[id].owner

\* The reports that were put in order keep it, whatever is created or deleted between the
\* check of an order and its transaction, and a new report comes after every one its insert
\* saw, unless that one was given another place before the row was stored.  Two overlapping
\* creations may share a place.
OrderKept == \A e \in ordered : reports[e[1]].position < reports[e[2]].position
=============================================================================
