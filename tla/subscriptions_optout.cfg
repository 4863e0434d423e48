SPECIFICATION Spec
CONSTANTS
  q1 = q1
  q2 = q2
  l1 = l1
  l2 = l2
  l3 = l3
  l4 = l4
  Channel = {"sms"}
  Request = {q1, q2}
  Link = {l1, l2, l3, l4}
  NoLink = NoLink
  ResendLimit = 1
SYMMETRY Symmetry
INVARIANTS SubTypeOK ResendsBounded DeliveredWereConfirmed OnlyOptedOutIsReplaced
PROPERTIES OptOutIsFinal
