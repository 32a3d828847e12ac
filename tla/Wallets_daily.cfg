SPECIFICATION Spec
CONSTANTS
  ann = ann
  bob = bob
  s1 = s1
  s2 = s2
  Nobody = Nobody
  User = {ann, bob}
  Session = {s1, s2}
  Admin = {bob}
  ReferrerOf <- InvitedByBob
  Reward = {1}
  Price = {1}
  Penalty = {1}
  MaxDay = 2
  MaxTurnover <- AnnTrades
SYMMETRY SessionsAlike
INVARIANT DailyOnce
