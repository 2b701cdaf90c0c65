\* One Start, three links that fail, a subscriber, a publisher, and a Stop.
SPECIFICATION FairSpec
CONSTANTS
  l1 = l1
  l2 = l2
  l3 = l3
  sub = sub
  sender = sender
  loop = loop
  None = None
  MaxStarts = 1
  Links = {l1, l2, l3}
  Subs = {sub}
  Publishers = {sender}
INVARIANTS
  SomebodyReceives
  OpenIsHeld
PROPERTIES
  StopEndsLoops
  StaysConnected
CHECK_DEADLOCK FALSE
