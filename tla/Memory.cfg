SPECIFICATION Spec
CONSTANTS
    Never = 9
    Functional = {"city"}
    User = "user"
    Turns = {"h1", "n1", "h2", "h3"}
    Text <- MCText
    Statements <- MCStatements
    Judgements <- MCJudgements
    PromptTurns = 2
    Gap = 1
    RecallThreshold = 1
    SegmentCapacity = 1
    PendingLimit = 2
    Inquiries = {"q1"}
    MaxTime = 4
    Budgets <- MCBudgets
    Writers = {"w1", "w2", "w3", "a1", "o1", "o2", "k1", "k2", "b1", "b2", "l1"}
    Asked <- MCAsked
    Close <- MCClose
    Akin <- MCAkin
    MemoryCapacity = 1
    LinkLimit = 1
    Notes = {"r1", "r2", "r3", "r4"}
    Remark <- MCRemark
    LessonThreshold = 2
    Evidence <- MCEvidence
    EvidenceLimit = 1
    MinNew = 1
    ReflectEvery = 1
INVARIANTS
    TypeOK
    SegmentsKept
    FactsDisjoint
    RememberedOnce
    LessonsEarned
    Heeded
    InnerStateFollows
CHECK_DEADLOCK FALSE
