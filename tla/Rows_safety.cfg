CONSTANTS
    Scrapers = {s1, s2}
    Readers = {r1}
    None = None
    Paths <- MCPaths
    AttrSets <- MCPaths
    Derivations <- MCDerivations
    RecurseMarked = {}
    Broken = {}
    Description <- MCDescription
    Requested <- MCRequested
    Lookups <- MCLookups
SYMMETRY Symmetry
SPECIFICATION Spec
INVARIANTS
    RowsInv
    IdsNamePaths
    AnswersAreRight
PROPERTIES
    IdsKeepMeaning
    RowsImplementIndex
