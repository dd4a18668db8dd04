SPECIFICATION PartsSpec
CONSTANTS
  Request = {q1, q2}
  RecoveryCode = {c1}
  MaxRequests = 5
  MaxStep = 2
  LoginLimit = 2
  TotpLimit = 2
  MaxFailures = 9
  MaxCrashes = 1
  None = None
  Sessions = {"s1", "s2"}
  Challenges = {"c1", "c2"}
  Starts <- MCStarts
  Length <- MCLength
  PASSWORD = "a"
  LENGTH_KINDS <- MCLengthKinds
  MAX_OPTIONS = 3
  MAX_OPTION_CHARS = 2
  MAX_REQUESTS_PER_ACTION = 2
  MAX_TTL_SECONDS = 2
  MAX_REQUIREMENTS = 2
  MAX_INPUT_FIELDS = 2
  MAX_HUMAN_TEXT_CHARS = 3
  MAX_HUMAN_CHOICES = 3
  MAX_HUMAN_CHOICE_CHARS = 2
  MAX_AUTH_SECRET_CHARS = 2
  MAX_PASSWORD_ATTEMPTS = 3
  PASSWORD_LOCK = 2
  Replies <- MCReplies
  Values <- MCValues
  MaxClock = 3
  TEAM = "t"
  Assistant = {1, 2, 3}
  StopWord = {"the"}
  Nothing = "nothing"
  FoldOf <- MCFoldOf
  About <- MCAbout
  Affirmative <- MCAffirmative
  Negative <- MCNegative
  MaxCandidates = 2
  MaxTeam = 2
  MaxChat = 2
  MaxSelected = 2
  Staged <- MCStaged
  Published = {1, 2, 3}
  Inventories <- MCInventories
  Messages <- MCMessages
  Queries <- MCQueries
  MaxMessages = 1
  MaxOthers = 1
  MaxFaults = 1
  Locales = {"en", "es"}
  PLANNING_LOCALE = "en"
  Publications <- MCStored
  PageReads <- MCAsks
  PAGE_BYTES = 5
  MAX_ASSISTANTS = 3
  MAX_ACTIONS = 2
  MAX_ITEMS = 2
  MAX_CACHED_ICONS = 2
  MAX_CACHED_ICON_BYTES = 2
  MAX_ICON_BYTES = 3
  MAX_CATALOG_RESTARTS = 2
  Failures = 1
  GUIDANCE_CODES = {"ambiguous"}
  STORED_OUTCOMES = {"done", "failed", "healthy", "created"}
  ROUTINE_OUTCOMES = {"healthy", "created"}
  PROPOSAL_STATUSES = {"created", "changed", "revoked"}
  MAX_CHAT_FILES = 2
  MAX_PUBLIC_PROGRESS_EVENTS = 3
  MAX_ENTRY = 9
  Events <- MCEvents
  MaxRows = 2
INVARIANTS PlansKept CatalogWhole HandoffsHeld AnswersChecked RowsKept CeremoniesOnce NothingUnrecorded
PROPERTIES GivenOnce FactorsOfTicket
CHECK_DEADLOCK FALSE
