CONSTANTS
  a1 = a1
  a2 = a2
  m1 = m1
  m2 = m2
  o1 = o1
  p1 = p1
  p2 = p2
  None = None
  Actors = {a1, a2}
  Emails = {m1}
  OauthIds = {o1}
  Passwords = {p1, p2}
  MaxRequests = 5
SYMMETRY Symmetry
SPECIFICATION Spec
CHECK_DEADLOCK FALSE
INVARIANTS
  IInv
  TokenUsedOnce
  NothingHalfRegistered
PROPERTIES
  PasswordOnlyByReset
