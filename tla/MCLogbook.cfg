CONSTANTS
  Procs = {p1, p2}
  FlightIds = {"f1", "f2"}
  Starts <- MCStarts
  Patches <- MCPatches
  NewRows <- MCNewRows
  Times = {0, 1, 2}
  Calculated <- MCCalculated
  Crews = {"A", "B"}
  Renamed <- MCRenamed
  LastDay = 2
  MaxRequests = 2
  NoFlight = NoFlight
  NoReason = NoReason
  Reason = Reason
  AircraftIds = {"a1", "a2", "a3"}
  ContactIds = {"c1", "c2"}
  CredentialIds = {"k1", "k2"}
  LicenceIds = {"l1", "l2"}
  RatingIds = {"r1", "r2"}
  LicenceOf <- MCLicenceOf
  Own = {"a1", "a3", "f1", "f2", "c1", "c2", "k1", "k2", "l1", "l2", "r1", "r2"}
  Keys = {"d-a", "A", "B"}
  Canonical <- MCCanonical
  Lower <- MCLower
  Notes = {"n1", "n2"}
  Signed = {"f2"}
  Rank <- MCRank
  Start <- MCStart
  LastTime = 3
  Retention = 1
  PageSize = 1
  NoRow = NoRow
  Accounts = {"u1", "u2"}
  RuleIds = {"x1", "x2", "x3"}
  Definitions = {"d1"}
  Tokens = {"t1", "t2"}
  ReportIds = {"y1", "y2", "y3"}
  FileIds = {"z1", "z2", "z3"}
  Documents = {"l1"}
  DocumentOwner <- MCOwner
  MaxRulesPerUser = 1
  MaxReportsPerUser = 2
  MaxFilesPerSubject = 1
  CollectionRequests = 3
  None = None
  Users = {"u1", "u2"}
  MaxId = 5
  Regs = {"d-a", "A", "B"}
  Names = {"Bob", "bob", "Eve"}
  KeyOf <- MCKeyOf
  OldFiles <- MCOldFiles
  StartAccounts <- MCStartAccounts
  StartFlights <- MCStartFlights
  MaxOps = 4
  Nothing = Nothing
  Taps = {p1, p2}
  MaxSkew = 1
  DayLength = 2
  MaxDuration = 2
  MaxSessions = 2
  MaxFlights = 2
  MaxTaps = 4
SPECIFICATION LogbookSpec
SYMMETRY Symmetry
INVARIANTS FlightsExplained CollectionsRight LiveFlightsRight
PROPERTIES HistoryKept WritesKeep RestoreKeeps
CHECK_DEADLOCK FALSE
