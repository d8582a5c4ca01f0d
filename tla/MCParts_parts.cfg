SPECIFICATION Spec
CONSTANTS
  Callers = {1, 2, 3}
  Clients = {1, 2}
  Threads = {t1, t2}
  IndexDocs = {d1, d2}
  Legacy = {d2}
  IndexOps = 2
  IndexFaults = 2
  IndexCrashes = 1
  Urls = {u1, u2}
  Bodies = {b1, b2}
  Sids = {s1, s2}
  SessionLimit = 1
  SessionSlots = 1
  CaptureSlots = 1
  SessionFaults = 1
  Sweeper = Sweeper
  WebIds = 2
  Captures = {1, 2}
  WebJobs = {3, 4}
  WebSlots = 1
  WebQueue = 1
  WebForced = 1
  WebReplaces = 1
  WebFaults = 1
  WebCrashes = 1
  OcrPages = {p1, p2}
  OcrCalls = 4
  OcrFaults = 3
  MaxRetries = 2
  SearchChain <- MCChain
  SearchInterval = 2
  MaxWait = 2
  SearchTimeout = 1
  MinShare = 2
  Budgets = {3}
  MaxHits = 1
  SearchTime = 4
  PdfPages = {1, 2}
  Pdfs <- MCPdfs
  Looks <- MCLooks
  Requests <- MCRequests
  MaxTables = 1
  MaxParses = 2
  SummaryDocs = {1, 2}
  SummarySlots = 2
  SummaryInterval = 1
  DetailLimit = 4
  BatchLimit = 2
  Papers <- MCPapers
  ResultBudget = 16
  Sources <- MCSources
  Distills <- MCDistills
  None = None
INVARIANTS IndexAgrees OneDocPerBody SummaryOfItsText ClaimIsWorked SessionsAreSafe
  AnsweredInBudget FailoverWhereItHelps PageIsWhole AnswerOfItsPage PagesAreHonest
  CacheOfItsSettings NothingIsMissing SummariesAreReal
PROPERTIES CallsSpaced
CHECK_DEADLOCK FALSE
