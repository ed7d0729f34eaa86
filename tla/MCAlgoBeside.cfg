\* What is not true of the pure parts, and the arguments that show it.
\* TLC stops at the first property it finds violated: leave in the one to see.
CONSTANTS
    a = a
    aLine = aLine
    bad = bad
    e1 = e1
    e2 = e2
    e3 = e3
    t1 = t1
    t2 = t2
    Times = "any"
    Word = {"events", a}
    LineWord = {aLine}
    Illegal = {bad, "$SYS"}
    Dollar = {"$SYS"}
    Reserved = {"+"}
    Rejected = Rejected
    AnyType = AnyType
    Chunk = 2
    MaxTypeLength = 8
    MaxList = 3
    BrokerPort = 1883
    OtherPort = 1884
    Loopback = {"127.0.0.1", "::1"}
    Health = {"", "starting", "healthy", "unhealthy"}
    Size <- SizeOf
    Pattern <- PatternsUpTo2
    Text <- TextsUpTo3
    Topic <- TopicsUpTo3
    Filter <- FiltersUpTo3
    Histories <- TwoHistories
    Bindings <- UpTo2Bindings
    Lower = {"a"}
    Upper = {"A"}
    Digit = {"1"}
    MaxId = 3
    MaxType = 3
    MaxSource = 3
    MaxVersion = 3
    MaxDepth = 3
    MaxName = 3
    Code <- CodeOf
    Also = {"surrogate"}
    Ids = {"a", "1", "nl"}
    Versions <- ListVersions
    Base <- BaseEvent
    Changes <- AllChanges
    IdLists <- IdListsOf3
    Names <- NamesOf5
    Others <- NamesOf3
    Edits <- EditsOfOne
    Clocks = {0, 1, 2, 3, 4, 5, 6, 7}
    Layout <- UlidLayout

SPECIFICATION Spec

INVARIANTS
    TopicsInvert
    MatcherIsMqttEverywhere
    PlainPatternsAreTypes
    ListIsNewest
    StatusIsStrict
    SidecarReadsExactly
    AcceptedIsStorable
    NeverATraceback
    ListIsSortedByName
