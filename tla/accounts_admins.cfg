SPECIFICATION Spec
CONSTANTS
  root = root
  guest = guest
  q1 = q1
  q2 = q2
  i1 = i1
  i2 = i2
  s1 = s1
  s2 = s2
  None = None
  User = {root, guest}
  Founder = root
  Managed = {root, guest}
  Visitor = {}
  Role = {"super_admin", "admin"}
  Invitation = {}
  Link = {}
  Session = {}
  Request = {q1, q2}
  MaxAttempts = 1
SYMMETRY Symmetry
PROPERTIES LastSuperAdminStays ActiveKeepsRole DecisionsStand
CHECK_DEADLOCK FALSE
