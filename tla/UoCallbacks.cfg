SPECIFICATION FairSpec
CONSTANTS
  N = 2
  c1 = c1
  c2 = c2
  c3 = c3
  Callbacks <- MCCallbacks
  NoCb = NoCb
  Publishers = {p1}
  Subscribers = {s1, s2}
  NoTask = NoTask
  NoSub = NoSub
  Offers <- MCOffers
  Kinds = {"pinChange", "error"}
  AsTxt = FALSE
INVARIANTS AtMostOneSlot EarlyReturnDead NoStrayDelivery NoMissedSubscriber
PROPERTIES TakeoverOnlyWhenFull PublishReturns
