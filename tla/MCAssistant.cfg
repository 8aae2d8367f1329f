CONSTANTS
    Words <- MCWords
    Values <- MCValues
    Reports <- MCReports
    Intents <- MCIntents
    MaxReports = 2
    Hierarchies <- MCHierarchies
    Authorized = {"d1", "d2", "d3"}
    Hashes <- MCHashes
    Inquiries <- MCInquiries
    MaxChanges = 2
    SharedPosition = 1
    MaxItems = 4
    PageSize = 1
    MaxPages = 3
    MaxOdd = 1
    MaxStir = 2
    Alarm <- MCAlarm
    NodeName <- MCNodeName
    Answers <- MCAnswers
    Readings <- MCReadings
    AlarmQuestions <- MCAlarmQuestions
    Width <- MCLetters
    Prefix = "BOI-"
    Directories <- MCDirectories
    Callers <- MCCallers
    Sentences <- MCSentences
SPECIFICATION AssistantSpec
CHECK_DEADLOCK FALSE
INVARIANTS
    LiveMatchesFleet
    OneCctvStory
    NarrowedToArea
    AreaTotalsExact
    SameFleetSameNumbers
    NoSilentDrop
    NoGap
    ToldAsItWas
    CountsAreBounds
    OldestIsOldest
    AnsweredAsNamed
    LongestBranchWins
