SPECIFICATION Spec
CONSTANTS
  opera = opera
  rock = rock
  CANCELLED = CANCELLED
  NULL = NULL
  MaxEvents = 3
  Names = {opera, rock}
  Filters <- TwoFilters
  DefaultFilter <- AllUpcoming
  PageSize = 2
  MaxVersion = 3
  MaxRequests = 2
CHECK_DEADLOCK FALSE
INVARIANTS
  CardsMatchFilters
  WalkMissesFew
  LoadingIsAwaited
