SPECIFICATION Spec
CONSTANTS
  ann = ann
  member = member
  ad = ad
  chat = chat
  few = few
  plan = plan
  stars = stars
  ten = ten
  k1 = k1
  k2 = k2
  s1 = s1
  s2 = s2
  Nobody = Nobody
  User = {ann}
  Session = {s1, s2}
  Type = {member, ad}
  Chat = {chat}
  Count = {few}
  Offer = {plan, stars}
  Amount = {ten}
  Token = {k1, k2}
SYMMETRY Alike
INVARIANTS TypeOK EndsAsExpected
PROPERTIES AnswersSpec
