SPECIFICATION Spec
CONSTANTS
  a = a
  a2 = a2
  b = b
  doron = doron
  doronErel = doronErel
  dan = dan
  asker1 = asker1
  asker2 = asker2
  m1 = m1
  m2 = m2
  Threshold = 1
  Facts = {"f1", "f2", "f3"}
  OldFacts <- FirstFacts
  AlikeFacts = {{"f1", "f2"}}
  Preferences = {"p1", "p2"}
  PatternAnswers <- PatternsFound
  Moods <- MoodOrder
  Weight <- WeightOf
  FactCap = 2
  PrefCap = 1
  PatternCap = 1
  MoodCap = 1
  CleanEvery = 2
  MinToClean = 1
  Cleaners = {l1, l2}
  MaxMemoryDays = 2
  MaxMemorySaves = 3
  MaxMemoryFaults = 1
  Papers <- PapersRead
  Categories <- Kinds
  Within <- Occurs
  NoDate = NoDate
  Nothing = Nothing
  BillAliases <- OfBills
  CategoryOf <- Overrides
  Window = 2
  SoonDays = 1
  KeptReminders = 1
  LastDay = 2
  MaxBills = 2
  MaxBillFaults = 1
  NoCopy = NoCopy
  ContractAliases <- OfContracts
  ExpirySoon = 1
  KeptContractReminders = 1
  LastContractDay = 2
  MaxContracts = 2
  MaxContractFaults = 1
  NoContractCopy = NoContractCopy
  Machines <- Seen
  Scanning = {s1, s2}
  MaxAlerts = 3
  MaxAlertsPerHour = 2
  AlertScore = 15
  MaxIds = 5
  MaxScanFaults = 1
  NoScan = NoScan
  Emails <- Inbox
  KnownVendors <- Shops
  Nameless = Nameless
  Texts <- Messages
  NoNumber = NoNumber
  DedupWindow = 2
  MaxOrders = 4
  Titles = {"dan and ron", "eve"}
  Queries = {"dan", "sunday"}
  PartOf <- InTitle
  InUid <- UidHas
  InTheDate = {"sunday"}
  CalendarCalls = {q1, q2}
  MaxEvents = 2
  Chats = {a, a2, b}
  NumberOf <- Phones
  ChatOf <- PhoneChats
  NoPhone = 0
  PushNames <- CallsItself
  Cards <- OwnersCards
  PersonNames = {doron, doronErel, dan}
  FirstName <- FirstWord
  Variants <- Spellings
  Alike <- OneInTheOther
  Sounding = {}
  Patterns = {"crm"}
  Covers <- ToolsOf
  OwnerTools = {"crm"}
  MaxBook = 3
  TimeTexts <- Phrases
  Asks <- Requests
  Exchanges <- Talk
  Targets = {"owner", "dana"}
  Tasks = {"report"}
  Ahead <- Offsets
  JunkReplies = {"update"}
  DayTicks = 4
  Noon = 2
  Week = 3
  Year = 5
  Change = 5
  Before = 1
  After = 2
  Hosts <- Zones
  LastTick = 6
  MaxDue = 2
  Unsaid = Unsaid
  Requesters <- Askers
  MeetingIds <- Codes
  NoMeeting = NoMeeting
  MaxMeetingRestarts = 1
SYMMETRY Symm
INVARIANTS
  ApprovalKeepsItsMeetingOpen
  OneMeetingOneOutcome
  
  SettledStaysSettled
  AlertsCountedAndKept
  FiledAsWhatItIs
  OnlyNamedEventsGo
  NamesLeadToTheirPeople
  WordsAreRead
  DueWhenMeant
PROPERTIES
  DecisionsAreFinal
CHECK_DEADLOCK FALSE
