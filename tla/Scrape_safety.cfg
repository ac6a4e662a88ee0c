CONSTANTS
    Scrapers = {s1, s2}
    Readers = {r1}
    None = None
    Paths <- MCPaths
    AttrSets <- MCAttrSets
    Derivations <- MCDerivations
    RecurseMarked <- MCRecurseMarked
    Broken <- MCBroken
    Requested <- MCPrefixes
SYMMETRY Symmetry
SPECIFICATION Spec
INVARIANTS
    TypeOK
    DoneExplained
    SystemPrefixComplete
    NothingHalfVisible
    ScrapeInv
PROPERTIES
    ScrapesAreAtomic
    NothingLost
    MarksOnlyForced
    OkUnlessRefused
