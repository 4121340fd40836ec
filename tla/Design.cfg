SPECIFICATION DesignSpec
CONSTANTS
  Acme = Acme
  HotMix = HotMix
  ColdMix = ColdMix
  Title = Title
  Typed = Typed
  Empty = Empty
  Upper <- Capitals
  DetailScope = "Record"
  NaN = NaN
  Infinity = Infinity
  MinusInfinity = MinusInfinity
  Verbatim = Verbatim
  None = None
  DefaultPageNumbers <- Numbers
  Catalog <- Fields
  Context <- Data
  Template <- Report
  Stored <- Stores
  Expressions <- Inputs
  Texts = {Empty, Typed}
  Margins = {0}
  FontSizes <- Sizes
  MaxEdits = 2
INVARIANTS LoadedIsSaved EngineReadsTheSame ProblemsArePredicted ReportMatchesPreview
