CONSTANTS
  D = 3
  Lines = 3
  Names = {x, y}
  Unnamed = Unnamed
  Paths <- ProjectPaths
  Places <- SourcePlaces
  Packages <- NoPackages
  TicksOf <- PowersOfTwo
  Halves = {"samples", "calls"}
  TreeSize = 4
  Ticks = {1, 2, 4, 8}
  Symbols = {a, b}
  NoSymbol = NoSymbol
  Tangled = {1, 2, 3}
SPECIFICATION MCSpec
INVARIANTS SamplesOwned InflowCountsOnce
PROPERTY WalkEnds
CHECK_DEADLOCK FALSE
