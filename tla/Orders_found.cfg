SPECIFICATION FairSpec
CONSTANTS
  b1 = b1
  owner = owner
  ann = ann
  bob = bob
  cat = cat
  o1 = o1
  o2 = o2
  c1 = c1
  c2 = c2
  s1 = s1
  s2 = s2
  Nobody = Nobody
  User = {owner, ann}
  Channel = {c1}
  Order = {o1, o2}
  Session = {s1, s2}
  Bonus = {b1}
  OwnerOf <- OneOwner
  ChannelOf <- OneChannel
  TargetOf <- TargetMixed
  ReferrerOf <- AllInvited
  Group = {c1}
  MinJoins = 2
  MaxActive = 2
  CheckLimit = 1
  MaxChecks = 1
  Failing = {"bot", "post"}
PROPERTIES LeaverFound PayoutSpec
