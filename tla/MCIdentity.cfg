CONSTANTS
  Procs = {p1, p2}
  Pwds = {w1, w2}
  Secrets = {s1, s2}
  Codes = {c1}
  Mails = {m1, m2}
  Links = {l1}
  NoSecret = NoSecret
  Max = 2
  MaxOps = 3
  Users = {u1, u2}
  Requests = {q1, q2}
  Browsers = {b1, b2}
  Flows = {f1, f2}
  Subjects = {sub1}
  Accounts = {a1, a2}
  Emails = {e1, e2}
  LinkByVerifiedEmail = TRUE
  TrustEmailVerified = FALSE
  Creds = {key1}
  Handles = {1, 2, 3}
  MaxOpenCeremonies = 1
  Sends = {p1, p2}
  Spellings = {"A", "a", "x"}
  Malformed = {"x"}
  Normal <- MCNormal
  Configured = TRUE
  MaxLifts = 1
SPECIFICATION IdentitySpec
SYMMETRY Symmetry
INVARIANTS AccountSafe LastAdminKept LoginsSafe MailAccountedFor
CHECK_DEADLOCK FALSE
