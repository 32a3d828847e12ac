SPECIFICATION FairSpec
CONSTANTS
  ann = ann
  bob = bob
  b1 = b1
  s1 = s1
  s2 = s2
  Nobody = Nobody
  User = {ann, bob}
  Active = {ann}
  Session = {s1, s2}
  Job = {b1}
INVARIANTS TypeOK BroadcastReport OneTextPerAskUnlessShared
PROPERTIES UpdatesHandled
