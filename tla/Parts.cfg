CONSTANTS
  Chats = {c1}
  Sessions = {s1, s2}
  NoSession = NoSession
  Notes = {"credential", "link"}
  ShapeOf <- NoteShapes
  DepthOf <- NoteDepths
  MaxDepth = 3
  MaxEntries = 2
  MaxBackups = 2
  MaxRestores = 2
  MaxIncidents = 1
  Texts = {"going", "waiting", "done", "both"}
  NoText = NoText
  KindOf <- TextKinds
  SubjectOf <- TextSubjects
  Completes = {"done", "both"}
  Progress = {"going", "waiting", "both"}
  Mutable = {}
  Overlap <- SharedWords
  Batches <- CandidateBatches
  MaxFacts = 3
  MaxSteps = 5
  MaxClock = 1
  MaxTroubles = 1
  Worker = Worker
  Descendants = {d1, d2}
  Supervisor = Supervisor
  Init1 = Init1
  MaxStuck = 1
  Sizes = {0, 1, 3}
  PipeSize = 2
  Caps = {1, 4}
  Timeout = 2
  Helpers = {TRUE, FALSE}
  Processes = {p1, p2}
  Nobody = Nobody
  MaxGeneration = 4
  MaxMishaps = 3
  Retries = 1
  Alphabet = {"r", "n", "x"}
  MaxBody = 6
  MaxFrames = 2
  Pieces = {"a", "b"}
  MaxAnswerBlocks = 2
  MaxShown = 2
  MaxHalves = 3
  RuntimeSessions = {r1}
  Journals = {"j1"}
  Tools = {"bash", "read"}
  LongTask = TRUE
  MaxTurns = 2
  MaxRequests = 1
  MaxBatch = 2
  Readers = {r1, r2}
  SizeOf <- IndexSizes
  MaxVersion = 1
  MaxSearches = 2
  MaxKilled = 1
  Loaders = {r1, r2}
  Pages = {"a", "b"}
  StatsCap = 2
  Ttl = 1
  MaxPageGeneration = 1
  MaxLoads = 3
  MaxDay = 2
  Chunks <- WikiChunks
  Aliases <- WikiAliases
  PageLines <- WikiLines
  Queries = {{"y"}, {"x", "z"}}
  AliasCap = 1
  RrfK = 1
  Budgets = {1, 4}
  Tops = {2}
  Library <- RecallLibrary
  Asks <- RecallAsks
  Limits = {1, 3}
  Moments <- RecallMoments
  AsOfs <- RecallAsOfs
  HotFacts <- SnapshotFacts
  Documents <- SnapshotDocuments
  Budgeted = {1, 9, 12}
  ResumeCap = 2
  MemoryCap = 3
  WorkingCap = 2
  HotFloor = 3
  Slack = 1
  BlockCap = 11
  RankedMost = 2
  Recorders = {w1, w2}
  CheckpointsKept = 1
  MaxRenderings = 3
  MaxRunCrashes = 1
  HourLen = 4
  DayHours = 3
  WeekDays = 3
  MonthDays = 2
  YearMonths = 2
  Zones <- CronZones
  Expressions <- CronExpressions
  Plannings <- CronPlannings
  MaxInterval = 10
  Horizon = 40
  ScanLimit = 3
  NoticeTasks <- NoticeTaskSet
  NoticeChats = {"c"}
  Outputs <- NoticeOutputs
  LongRun = 3
  CountMax = 2
  MaxNotices = 1
  CompactAt = 24
  Spare = 1
  Instructions = 3
  RepairPrompt = 7
  Wording = 2
  KeptWhole = 1
  HeadLength = 1
  TailLength = 1
  Marker = 1
  Allowance = 2
  MaxReceipts = 2
  ReceiptRoom = 6
  ReceiptSize = 3
  MaxFragments = 3
  SlotsOfRun = 8
  ToolResults <- CompactionResults
  MaxWritten = 9
  MaxOpenings = 1
  Transcripts <- ExtractionTranscripts
  Replies <- ExtractionReplies
  MaxInputMessages = 2
  MaxLength = 4
  Week = 7
  InputBudget = 10
  Envelope = 2
  PerMessage = 1
  MaxDrafts = 1
  MaxQuote = 1
  MaxCandidates = 1
  MaxEvidence = 1
SPECIFICATION PartsSpec
INVARIANTS BackupSound ScopeKept IndexSound NoSurvivor NoMisspentToken StreamsHonest CallSound ReckoningTrue
PROPERTIES ChildrenEnd
CHECK_DEADLOCK FALSE
