CONSTANTS
    Docs = {1, 2, 3}
    DocTenants = {"t1", "t2"}
    Categories = {"a", "b"}
    Loads <- MCLoads
    Lexical <- MCLexical
    Tenants = {"", "t1"}
    NoTenant = ""
    ClientFilters <- MCFilters
    RrfK = 1
    RerankN = 2
    TopK = 2
    TopKs = {0, 1}
    MaxVersion = 2
    MaxWrites = 1
    Stopwords <- MCStopwords
    Words <- MCWords
    Query <- MCQuery
    Text <- MCText
    Providers = {"extractive", "litellm"}
    Modes = {"lexical", "llm"}
    FaithMin <- MCFaithMin
    Replies <- MCReplies
    Verdicts <- MCVerdicts
SPECIFICATION FairAskSpec
CHECK_DEADLOCK FALSE
INVARIANTS
    TypeOK
    SourcesFresh
    FilterHonoured
    TenantScoped
    SettledServed
    BothLanesFirst
    QuotesCurrent
    FaithfulByConstruction
    UnsupportedWarned
PROPERTIES
    Responds
