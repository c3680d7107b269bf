SPECIFICATION AnswersSpec
CONSTANTS
    Packages <- ThePackages
    RepoOf <- TheRepo
    Names = {"Get", "Put"}
    Hints <- TheHints
    Contents <- TheContents
    Threshold = 5
    SuppressPairs <- ThePairs
    Sources <- TheSources
    Builtin <- TheBuiltin
    Custom <- TheCustom
    Normalize <- TheNormalize
    HasShape <- TheShape
    HasPrefix <- ThePrefix
    Mentions <- TheMention
    Indexes <- TheIndexes
    Requests <- TheRequests
    TextOrder <- TheOrder
    TestFiles <- TheTestFiles
    Sibling <- TheSibling
    TestEntries = {"Test"}
    maxCycles = 3
    EndsIn <- TheEnding
    Bare <- TheBare
    KnownModules <- TheModules
    topHubs = 2
    Levels = 5
    PackageOf <- ThePackageOf
    NoShape = 0
INVARIANTS LinksHold LiteralsOfTheirOwn
INVARIANTS PathsAgree CyclesComplete DeletionSafe ImportReadersAgree ChangesAccounted
PROPERTIES LinkedOnce LayersRise
CHECK_DEADLOCK FALSE
