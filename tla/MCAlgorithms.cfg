\* Types, topics and filters, `events list`, the status, events and records.
CONSTANTS
    a = a
    aLine = aLine
    bad = bad
    e1 = e1
    e2 = e2
    e3 = e3
    t1 = t1
    t2 = t2
    Times = "steady"
    Word = {"events", a}
    LineWord = {aLine}
    Illegal = {bad, "$SYS"}
    Dollar = {"$SYS"}
    Reserved = {"+"}
    Rejected = Rejected
    AnyType = AnyType
    Chunk = 2
    MaxTypeLength = 8
    MaxList = 3
    BrokerPort = 1883
    OtherPort = 9001
    Loopback = {"127.0.0.1", "::1"}
    Health = {"", "starting", "healthy", "unhealthy"}
    Size <- SizeOf
    Pattern <- PatternsUpTo2
    Text <- TextsUpTo3
    Topic <- TopicsUpTo3
    Filter <- FiltersUpTo3
    Histories <- TwoHistories
    Bindings <- UpTo2Bindings
    Lower = {"a"}
    Upper = {"A"}
    Digit = {"1"}
    MaxId = 3
    MaxType = 3
    MaxSource = 3
    MaxVersion = 3
    MaxDepth = 3
    MaxName = 3
    Code <- CodeOf
    Also = {}
    Ids = {"a", "1"}
    Versions = {}
    Base <- BaseEvent
    Changes <- AllChanges
    IdLists <- IdListsOf3
    Names <- NamesOf5
    Others <- NamesOf3
    Edits <- EditsOfOne
    Clocks = {0, 1, 2, 3, 4, 5, 6, 7}
    Layout <- UlidLayout

SPECIFICATION Spec

INVARIANTS
    PatternsSelect
    MatcherIsMqtt
    TypesComeBack
    ListIsNewest
    StatusIsStrict
    EnvelopesComeBack
    NoProblemHidesAnother
    SidecarReadsExactly
    RecordsComeBack
