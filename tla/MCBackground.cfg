SPECIFICATION Spec
CONSTANTS
  f1 = f1
  n2 = n2
  n1 = n1
  r1 = r1
  r2 = r2
  p1 = p1
  p2 = p2
  silent = silent
  loud = loud
  Followups = {f1}
  Subject <- SubjectOf
  ToContact = {f1}
  Notices = {n1, n2}
  Runs = {r1, r2}
  MaxDaily = 1
  Kept = 1
  MaxFaults = 1
  Nothing = Nothing
  LastEmail = 2
  OrderOf <- EmailOrder
  NoOrder = NoOrder
  EmailPolls = {p1, p2}
  FetchWindow = 2
  MaxEmailFaults = 1
  LastSms = 3
  SentAt <- SmsDate
  DeliveryOf <- SmsDelivery
  NoDelivery = NoDelivery
  WatchedSms = {1, 3}
  SmsPolls = {p1, p2}
  BatchLimit = 2
  MaxSmsFaults = 1
  LastPost = 4
  WantedPosts = {2, 3, 4}
  PageSize = 2
  Checks = {p1, p2}
  MaxFailures = 2
  MaxAlertFaults = 1
  AutoAgents = {silent, loud}
  Reporting = {loud}
  Spaced = {loud}
  AgentRuns = {r1, r2}
  MaxRounds = 1
  MaxAgentFaults = 1
  NoAgent = NoAgent
INVARIANTS
  OnlyLostRecordsRepeat
  DailyLimitHolds
  OrdersHeardOnce
  SmsToldOnce
  AlertsForwardedOnce
  AlertsSpaced
PROPERTIES
  
  QuietQueueIsFlushed
CHECK_DEADLOCK FALSE
