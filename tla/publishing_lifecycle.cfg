SPECIFICATION PubSpec
CONSTANTS
  news = news
  events = events
  staff = staff
  q1 = q1
  q2 = q2
  Category = {news, events}
  Role = {staff}
  Request = {q1, q2}
  MaxEdits = 2
SYMMETRY Symmetry
INVARIANTS PublishedIsComplete
PROPERTIES LifecycleHolds
