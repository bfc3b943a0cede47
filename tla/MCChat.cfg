SPECIFICATION Spec
CONSTANTS
  chat1 = chat1
  chat2 = chat2
  note1 = note1
  note2 = note2
  job1 = job1
  job2 = job2
  s1 = s1
  s2 = s2
  LastInbound = 3
  ChatOf <- InboundChat
  BatchOf <- InboundBatch
  Marked = {1}
  MaxIterations = 1
  MaxRows = 4
  MaxNotes = 1
  LastClient = 2
  Completions = {note1, note2}
  MaxDeaths = 1
  CapRuns = {job1, job2}
  MaxCapDeaths = 1
  PlanSteps = {s1, s2}
  MaxPlanDeaths = 1
  Recipients = {r1, r2}
  Messages = {n1, n2, n3}
  None = None
  GlobalMinDelay = 1
  GapMin = 2
  GapMax = 3
  BurstThreshold = 2
  BurstCooldown = 3
  BurstWindow = 4
  Names = {g1, g2}
  Callers = {k1, k2, k3}
  NoCall = NoCall
  Threshold = 2
INVARIANTS
  AnswersFollowTheirMessage
  
  NotesHandedOnce
  PlanStatusFits
  NobodyStranded
  OnlyOldCallsRunWhileCooling
PROPERTIES
  EveryTurnEnds
  ComesBack
  NothingUnapprovedBegins
  OutboxSpec
  EarlyCloseIsALateAnswer
CHECK_DEADLOCK FALSE
