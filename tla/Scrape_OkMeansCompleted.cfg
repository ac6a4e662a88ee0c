CONSTANTS
    Scrapers = {s1}
    Readers = {r1}
    None = None
    Paths <- MCPaths
    AttrSets <- MCAttrSets
    Derivations <- MCDerivations
    RecurseMarked <- MCRecurseMarked
    Broken <- MCBroken
    Requested <- MCPrefixes
SPECIFICATION Spec
PROPERTY OkMeansCompleted
