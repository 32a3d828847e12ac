SPECIFICATION Spec
CONSTANTS
  ann = ann
  bob = bob
  c1 = c1
  j1 = j1
  j2 = j2
  s1 = s1
  s2 = s2
  Nobody = Nobody
  User = {ann, bob}
  Session = {s1, s2}
  Sponsor = {c1}
  Join = {j1, j2}
  Admin = {bob}
  Keeper = {bob}
SYMMETRY Alike
INVARIANTS TypeOK OneOpenJoin LeaversFound PenalisedOnceUnlessOverwritten
