CONSTANTS
  Clients = {w1}
  Subscribers = {u1}
  Recent = 1
  Jobs = {j1, j2}
  Solved = {j1}
  Ends = {"ABEND"}
  Loops = {l1, l2}
  Manager = Manager
  Endpoint = Endpoint
  Stoppers = {Manager, Endpoint}
  MaxChanges = 1
  Watched = {2}
  MaxStarts = 1
  NoLoop = NoLoop

SPECIFICATION LiveSpec
CHECK_DEADLOCK FALSE

INVARIANTS
  TypeOK
  NoGapForClients
  OneLoopUnlessHasty

PROPERTIES
  AbendsAreAnnounced
  EventsArrive
