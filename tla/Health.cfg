\* Two probes that look one after the other at targets that come and go, a tester
\* that may be slow, a clock, and a store of two results.
SPECIFICATION FairSpec
CONSTANTS
  t1 = t1
  t2 = t2
  ticker = ticker
  Targets = 2
  Status <- GoodOrBad
  Testers <- OneTester
  Ticker <- ticker
  Capacity = 2
  MaxTime = 1
INVARIANTS
  TypeOK
  HonestResults
PROPERTIES
  ImplementsRecentEntries
  FaultReported
  CheckerStops
