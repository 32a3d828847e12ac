SPECIFICATION Spec
CONSTANTS
  b1 = b1
  owner = owner
  ann = ann
  bob = bob
  cat = cat
  o1 = o1
  o2 = o2
  c1 = c1
  c2 = c2
  s1 = s1
  s2 = s2
  Nobody = Nobody
  User = {owner, ann, bob}
  Channel = {c1}
  Order = {o1}
  Session = {s1, s2}
  Bonus = {}
  OwnerOf <- OneOwner
  ChannelOf <- OneChannel
  TargetOf <- TargetTwo
  ReferrerOf <- NotInvited
  Group = {}
  MinJoins = 1
  MaxActive = 1
  CheckLimit = 1
  MaxChecks = 2
  Failing = {}
SYMMETRY SymmetryAll
INVARIANTS ProgressExact
