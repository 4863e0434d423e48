SPECIFICATION Spec
CONSTANTS
  root = root
  guest = guest
  q1 = q1
  q2 = q2
  i1 = i1
  i2 = i2
  s1 = s1
  s2 = s2
  None = None
  User = {root, guest}
  Founder = root
  Managed = {}
  Visitor = {guest}
  Role = {"super_admin", "member"}
  Invitation = {i1}
  Link = {1, 2}
  Session = {s1, s2}
  Request = {q1, q2}
  MaxAttempts = 1
SYMMETRY Symmetry
INVARIANTS AccountTypeOK OneSessionPerLink GuessesBounded AcceptanceIsWhole
PROPERTIES RevokedCreatesNoUser
