CONSTANTS
  Managers = {GThreadManager, tm}
  Workers = {w1, w2}
  Main = main
  Events = {e1}
  Sessions = {1, 2, 3, 4, 5, 6, 7, 8}
  Clients = {c1, c2, c3}
  None = None
  MaxFrames = 3
SPECIFICATION FairSpec
PROPERTY RegisteredAgain
CHECK_DEADLOCK FALSE
