\* Two explorations of one tree and its edit, the second with what the first
\* left in the memo; the list holds three, one of each file first.
SPECIFICATION Spec
CONSTANTS
  Missing = Missing
  Authored = Authored
  r1 = r1
  r2 = r2
  Plain <- PlainOf
  Identifiers = {"foo"}
  CodeShaped = {}
  Capitalized = {}
  Variant <- VariantOf
  Key <- KeyOf
  LongKeys = {"k.foo"}
  PathKeys <- PathKeysOf
  PathRank <- PathRankOf
  MaxGrep = 1
  MaxPerFile = 1
  Runs = {r1, r2}
  Trees = {"t1", "t2"}
  FirstTree = "t1"
  Worlds <- TheWorlds
  Queries <- Asked
  InScope <- ScopeOf
  TopK = 3
  PerLeg = 2
  AnyToken = AnyToken
  NamedBy <- NamedByOf
  Relative <- RelativeOf
  SymbolOf <- SymbolsOf
  FileAt <- FileAtOf
  TypeNames = {"T"}
  MaxLine = 40
  SymbolTokens = 1
  SemanticTokens = 1
  FileTokens = 1
  MaxMishaps = 1
  MaxRetrievals = 2
INVARIANTS
  MemoIsTransparent
  ListedApart
  FilesShareTheList
  UniqueIsUnambiguous
SYMMETRY Interchangeable
CHECK_DEADLOCK FALSE
