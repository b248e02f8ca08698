CONSTANTS
  D = 2
  Lines = 2
  Names = {x, y}
  Unnamed = Unnamed
  Paths <- ProjectPaths
  Places <- SourcePlaces
  Packages <- DependencyPlaces
  TicksOf <- PowersOfTwo
  Halves = {"samples"}
  TreeSize = 4
  Ticks = {1, 2, 4, 8}
  Symbols = {a, b}
  NoSymbol = NoSymbol
  Tangled = {1, 2, 3}
SPECIFICATION MCSpec
INVARIANT DependenciesDropped
CHECK_DEADLOCK FALSE
