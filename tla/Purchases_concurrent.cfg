SPECIFICATION Spec
CONSTANTS
  ann = ann
  bob = bob
  r1 = r1
  r2 = r2
  bronze = bronze
  gold = gold
  stars = stars
  s1 = s1
  s2 = s2
  Nobody = Nobody
  User = {ann, bob}
  Session = {s1, s2}
  Approver = {ann, bob}
  Request = {r1, r2}
  Plan = {bronze, gold}
  Package = {stars}
  Days <- OneDay
  Tier <- PlanTier
  MaxTime = 1
SYMMETRY Alike
INVARIANTS TypeOK DecisionUnlessOverwritten DaysKeptUnlessOverwritten
