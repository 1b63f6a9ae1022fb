CONSTANTS
  Runs = {r1, r2, r3}
  Memories = {m1}
  Timeout <- MCTimeout
  MaxAge <- MCMaxAge
  Nobody = Nobody
  NoMemory = NoMemory

SPECIFICATION LiveSpec

INVARIANTS
  TypeOK
  HoldersOwnTheirKey
  ExclusiveUnlessLost

PROPERTY
  LocksAreFreed
