SPECIFICATION ServerSpec
CONSTANTS
  s1 = s1
  s2 = s2
  s3 = s3
  s4 = s4
  alice = alice
  link1 = link1
  approvals = approvals
  User = {alice}
  DeliveryLink = {link1}
  AdminChannel = {approvals}
  Socket = {s1, s2, s3, s4}
  MaxPerUser = 2
  MaxPerObject = 3
  MaxSubscriptions = 2
  MaxEventLog = 1
  MaxEvents = 1
SYMMETRY Symmetry
INVARIANTS TableFollowsSockets UpToDate ConnectionsBounded
