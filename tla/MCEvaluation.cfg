CONSTANTS
  Year = 3
  HalfYear = 2
  PaxWindowDays = 2
  Soon = 1
  Floor <- MCFloor
  LastDay = 6
  MaxLapseSearchRounds = 5
  Entries <- MCEntries
  MaxFlights = 2
  Pilots <- MCPilots
  NoDate = NoDate
  Custom <- MCCustom
  Day = 6
  Night <- MCNight
  Flights <- MCFlights
  Patches <- MCPatches
  CalcWrites = 3
  Catalogue <- MCCatalogue
  ClassOf <- MCClass
  FeaturesOf <- MCFeatures
  Logbooks <- MCLogbooks
  Trimmed <- MCTrimmed
  InUpper <- MCInUpper
  InLower <- MCInLower
  Canonical <- MCInUpper
  Collation <- MCCollation
  Licences <- MCLicences
  CountryOf <- MCCountry
  Distance <- MCDistance
  Baselines <- MCBaselines
  Analyses <- MCAnalyses
  Lists <- MCLists
  Definitions <- MCDefinitions
  MaxTimeBuckets = 3
  PageSize = 2
  DaysPerMonth = 2
  MonthsPerYear = 3
  Today = 5
  ReportWrites = 1
  Tokens = {t1}
  Procs = {p1, p2}
  Files <- MCFiles
  Previews <- MCPreviews
  HeaderRows <- MCHeaderRows
  TemplateCatalogue <- MCTemplates
  NormalizeHeader <- MCNormalize
  LooseKey <- MCLoose
  AuxField <- MCAux
  CanonicalReg <- MCCanonicalReg
  LookupCode <- MCLookupCode
  LookupByName <- MCLookupByName
  NightAt <- MCNightAt
  PersonName <- MCPersonName
  KeyOf <- MCKeyOf
  OwnNames = {"Pat Roe"}
  LongNames = {}
  Confirmations <- MCConfirmations
  MaxSessionsPerUser = 1
  MaxTotalSessions = 2
  MaxImportRows = 3
  MaxContacts = 2
  MaxMoves = 4
  FrontendCommits <- MCFrontendCommits
  APICommit <- OnBranch
  Releasing = {"frontend"}
  APIVersion = Dev
  FrontendVersions <- MCVersions
  Tags <- MCTags
  Configs <- MCConfigs
  Dev = Dev
  MaxHead <- MCMaxHead
  MaxComparisons = 1
  RetryAfter = 2
  MaxTime = 2
  CsvRows <- MCCsv
  JsonRows <- MCJson
  Order <- MCOrder
  FourLong = {"AAAA", "BBBB", "CCCC"}
  Hyphenated = {"AB-1"}
  WithDigit = {"A1", "2B", "AB-1"}
  Generic = {"airport", "strip", "field"}
  Upper <- MCUpper
  Matching <- MCMatching
  Limit = 2
  Kinds = {"sftp", "webdav", "s3"}
  Addresses <- MCAddresses
  Settings <- MCSettings
  AllowPrivate = FALSE
  Retention = 1
  OwnFiles <- MCOwn
  MaxRuns = 2
  Pieces <- MCPieces
  Saved <- MCSaved
  MaxPieces = 4
  Width <- MCWidth
  Fold <- MCFold
  FieldOf <- MCFieldOf
  Number <- MCNumber
  Tenths <- MCTenths
  Calendar <- MCCalendar
  SearchedFlights <- MCSearched
  NoValue <- MCNoValue
  MaxQueryLength = 60
  MaxQueryTerms = 3
  MaxFreeTextTerms = 1
  MinFreeTextTermLen = 3
  MaxDurationHours = 100
SPECIFICATION EvaluationSpec
SYMMETRY Symmetry
INVARIANTS CurrencyRight CalcRight ReportsRight ImportRight OutsideRight
PROPERTIES LoggingNeverWorsens NothingNeededDropped
CHECK_DEADLOCK FALSE
