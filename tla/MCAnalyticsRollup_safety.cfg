\* Two rows, two priced models, a nightly run beside a backfill; late commits, price
\* edits, a deletion and a failed run.
SPECIFICATION Spec
CONSTANTS
  r1 = r1  r2 = r2  modelA = modelA  modelB = modelB  night = night  manual = manual
  Rows <- MCRows
  Models <- MCModels
  Contents <- MCContents
  DefaultPrice = 1
  Prices = {3}
  Starts = {2}
  Grain = 2
  Jobs <- MCJobs
  Nightly <- night
  Lookback = 1
  Backfill = 2
  Periods = {1, 2}
  DayLength = 2
  SessionOffset = 0
  MaxTime = 5
  Arrivals = {1, 2, 4}
  MaxPriceEdits = 1
  MaxDeletes = 1
  MaxFailures = 1
SYMMETRY Symmetry
INVARIANTS
  SummaryIsLive
  DaysAddUp
  NightsLeaveNoGap
PROPERTIES
  PricesHoldUntilSuperseded
CHECK_DEADLOCK FALSE
