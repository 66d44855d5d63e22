\* Four jobs composed in every way; an endpoint edited three times; two rows imported;
\* two lines written in three steps.
CONSTANTS
  Delayables = {a, b, c, d}
  KeyedSets <- AllOrNone
  DeepEnds = FALSE
  MaxComposites = 3
  MaxOnDone = 1
  Partners <- MCPartners
  Places = {"here", "there"}
  Archived = {}
  Layouts <- MCLayouts
  FirstEndpoints <- MCFirst
  MaxEdits = 3
  Columns = {"ref", "name"}
  Tables <- MCTables
  Files <- MCFiles
  RuleSets <- MCRules
  MaxImports = 1
  LineIds = {1, 2}
  Owners = {"o", "p"}
  NoOwner = "nobody"
  Quantities = {0, 2}
  FirstLines <- MCFirstLines
  FirstSettings <- MCSettings
  Automatic = {"owner", "quantity"}
  MaxSteps = 3
SPECIFICATION SpecAlgorithms
SYMMETRY AnyJob
INVARIANTS
  OrderKept
  NothingDropped
  SavedEndpointsAnswer
  RowsAreAsAsked
  ImportsAreIdempotent
PROPERTIES
  OwnersAreTold
CHECK_DEADLOCK FALSE
