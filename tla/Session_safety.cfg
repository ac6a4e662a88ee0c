\* Up to three options in every order, over two commands.
CONSTANTS
  None = None
  Refused = Refused
  Malformed = Malformed
  Numbers <- MCNumbers
  Tags <- MCTags
  CutTag <- MCCutTag
  AllSystems = {"s1", "s2", "s3"}
  ThisSystem = "s1"
  BadLicenses = {}
  Likes <- MCLikes
  Alphabet <- MCAlphabet
  Globbed = {}
  Indirect = {"indirect"}
  Lexical <- MCLexical
  GARegistry <- MCGARegistry
  Options <- MCOptions
  Files0 <- MCFiles0
  Points <- MCPoints
  FlakeSubtrees <- MCFlakeSubtrees
  Packages <- MCPackages
  Cached0 <- MCCached0
  MaxOptions = 3
  MaxSessions = 2

SPECIFICATION Spec

INVARIANTS
  SessionInv
  PrintedIsWanted
  NothingLeftOut
  GARegistryOnly
  PinsHold

CHECK_DEADLOCK FALSE
