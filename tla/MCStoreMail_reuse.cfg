SPECIFICATION Spec
CONSTANTS
  b1 = b1
  b2 = b2
  m1 = m1
  m2 = m2
  Mailbox = {b1, b2}
  Message = {m1, m2}
  Look <- MCLook
  Date = {1, 2}
  Page = 1
  MaxRow = 2
  MaxWalk = 3
  MaxIntents = 1
INVARIANT
  ReferentsKeep
