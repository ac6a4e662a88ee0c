\* Every entry, option and input of MCLookup, for both systems.
CONSTANTS
  None = None
  Refused = Refused
  Malformed = Malformed
  Numbers <- MCNumbers
  Tags <- MCTags
  CutTag <- MCCutTag
  AllSystems = {"s1", "s2"}
  ThisSystem = "s1"
  BadLicenses = {"GPL'"}
  Likes = {}
  Alphabet <- MCAlphabet
  Globbed = {"h*"}
  Indirect = {"indirect"}
  Lexical <- MCLexical
  GARegistry <- MCGARegistry
  Iid = "hello"
  Entries <- MCEntries
  Strings <- MCStrings
  GlobalOptions <- MCGlobalOptions
  OldOptions <- MCOldOptions
  ManifestOptions <- MCManifestOptions
  Reg <- MCReg
  Catalog <- MCCatalog

SPECIFICATION Spec

INVARIANTS
  LookupInv
  FoundIsWanted
  NothingMissed
  BestFirst
  StringFormAgrees

PROPERTY SurvivesReadingBack

CHECK_DEADLOCK FALSE
