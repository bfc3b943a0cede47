\* A first message is enough; no restart.
CONSTANTS
    c1 = c1
    c2 = c2
    p1 = p1
    p2 = p2
    k1 = k1
    k2 = k2
    k3 = k3
    Chats <- MCChats
    Phones <- MCPhones
    RealPhones <- MCRealPhones
    PhoneOf <- MCPhoneOf
    Codes <- MCCodes
    Blank = Blank
    None = None
    MaxRestarts = 0
    RuleSubsystems = {"email", "sms"}
    EverySubsystem = "every"
    Matters = {"apple"}
    AnyMatter = "any"
    RuleOrders <- StandingOrders
    MaxRules = 2
    CacheTicks = 2
    MaxRuleAdds = 3
    MaxRuleTicks = 3
    MaxRuleFaults = 1
    Members = {ann, bob, chatty}
    Unnamed = {bob}
    Bots = {chatty}
    Herself = Herself
    Nobody = Nobody
    HerIdShown = FALSE
    ThreadTimeout = 2
    ContinuationWindow = 1
    MaxThreadTicks = 2
    MaxGroupTurns = 3
    owner = owner
    guest = guest
    TurnChats = {owner, guest}
    OwnersChat = owner
    TurnMessages <- Writings
    Zones <- HostZones
    StaleTicks = 1
    MaxTurnTicks = 2
    MaxTurnsTaken = 2
    Contacts = {"c1", "c2"}
    Words = {{}, {"family", "work"}}
    Styles = {"brief"}
    Approved = {"c1"}
    Assessments <- ModelsAssessments
    ManyMessages = 2
    MaxMessages = 2
    MaxAnalyses = 1
    MaxRelationshipFaults = 1
    Tools = {"t1", "t2"}
    Phrasing <- PhrasingOf
    OtherRules = {"o1"}
    MaxInstructions = 2
    MaxEntries = 3
    PatternThreshold = 2
    MaxAsked = 2
    MaxTaught = 2
    MaxLessonFaults = 1
    Signals <- Heard
    Answers <- Said
    MinToFilter = 2
    RecencyWindow = 1
    MaxSelected = 2
    MaxSections = 8
    Fading <- Fade
    MaxRows = 4
SYMMETRY Symm
SPECIFICATION GatesSpec
INVARIANT OnlyApprovedTalk
CHECK_DEADLOCK FALSE
