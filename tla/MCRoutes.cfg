SPECIFICATION RoutesSpec
CONSTANTS
  LayoutForm <- MCLayoutForm
  PageForm <- MCPageForm
  ValuesOf <- MCValuesOf
  Encode <- MCEncode
  Decode <- MCDecode
  ToValue <- MCToValue
  FromValue <- MCFromValue
  Named = "id"
  MaxNodes = 4
  MaxLength = 2
INVARIANTS
  GuardsAsDeclared
  LayoutsHoldEverywhere
  PathsOpenTheirPages
  SavedRoutesComeBack
PROPERTIES
  ManifestTellsTheAddresses
CHECK_DEADLOCK FALSE
