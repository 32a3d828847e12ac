SPECIFICATION Spec
CONSTANTS
  owner = owner
  ann = ann
  bob = bob
  s1 = s1
  s2 = s2
  Nobody = Nobody
  User = {owner, ann, bob}
  Session = {s1, s2}
  Active = {owner, ann}
  Subject = {ann}
  Owner = owner
  Grants = {"full"}
  FullTrust = 3
  Penalty = {2}
  MaxWarnings = 3
  MaxLost = 4
SYMMETRY Alike
INVARIANTS TypeOK WarningsLoggedUnlessOverwritten BannedAtThreeUnlessOverwritten TrustExactUnlessOverwritten
PROPERTIES ReferralKept BansLiftedByUnban
