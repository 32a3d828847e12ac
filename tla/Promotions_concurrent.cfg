SPECIFICATION Spec
CONSTANTS
  ann = ann
  bob = bob
  c1 = c1
  b1 = b1
  b2 = b2
  s1 = s1
  s2 = s2
  Nobody = Nobody
  User = {ann, bob}
  Session = {s1, s2}
  Manager = {bob}
  Code = {c1}
  Banner = {b1, b2}
  MaxUses = {1, 2}
  Target = {2}
  MaxSent = 3
SYMMETRY Alike
INVARIANTS TypeOK UsesExactUnlessOverwritten BannerDelivered CompletedAtTarget
PROPERTIES GiftSpec
