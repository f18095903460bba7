SPECIFICATION FairSpec
CONSTANTS
  f1 = f1
  f2 = f2
  r1 = r1
  accepted = accepted
  failures = failures
  i1 = i1
  Finalizers = {f1, f2}
  Readers = {r1}
  Artifacts = {accepted, failures}
  Items = {i1}
  None = None
  AppendsQueue = TRUE
  MaxVersion = 4
  MaxCrashes = 2
CHECK_DEADLOCK FALSE
INVARIANTS
  TypeOK
  CompleteMeansWhole
  ReaderVerdictExact
  QueueHoldsManual
PROPERTIES
  QueueNeverRegresses
  BundleIsAtomic
  
