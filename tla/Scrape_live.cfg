CONSTANTS
    Scrapers = {s1, s2}
    Readers = {r1}
    None = None
    Paths <- MCPaths
    AttrSets <- MCAttrSets
    Derivations <- MCDerivations
    RecurseMarked <- MCRecurseMarked
    Broken <- MCBroken
    Requested <- MCFewPrefixes
SPECIFICATION FairSpec
PROPERTY RequestsReturn
