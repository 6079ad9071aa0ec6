SPECIFICATION Spec
CONSTANTS
  Filters <- MCFilters
  Topics <- MCTopics
  Names <- MCNames
  Patterns <- MCPatterns
  Callbacks = {c1, c2}
  MaxPlaces = 3
  MaxRenewals = 2
INVARIANTS TypeOK DispatchReachesEach ArgsAreTheRequest ListedIsSubscribed MatchIsStandardButForPlus
PROPERTIES SubAckDelistsTheRefused
