SPECIFICATION FairSpec
CONSTANTS
  p1 = p1
  p2 = p2
  m1 = m1
  m2 = m2
  s1 = s1
  s2 = s2
  None = None
  Producers <- TwoProducers
  Maintainers <- TwoMaintainers
  Schedulers <- TwoSchedulers
  MaxBoots = 1
  MaxCrashes = 1
INVARIANTS CapacityExclusive SetupAlone
PROPERTIES StaleIntentRecovered NoWorkBeforeReboot IntentKept
