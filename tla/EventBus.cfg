\* Two publishers without end and two subscriptions with room for one event each, of
\* which nobody need receive any.
SPECIFICATION FairSpec
CONSTANTS
  p1 = p1
  p2 = p2
  s1 = s1
  s2 = s2
  nobody = nobody
  Publishers <- TwoPublishers
  Subscribers <- TwoSubscribers
  Nobody <- nobody
  Requested = 1
  Last <- OneAndMore
CHECK_DEADLOCK FALSE
INVARIANTS
  TypeOK
  InOrderOnce
  NothingMissed
  NeverPanics
PROPERTIES
  PublishReturns
  CancelCloses
