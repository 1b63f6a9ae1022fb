CONSTANTS
  Runs = {r1, r2}
  Memories = {m1}
  Timeout <- MCTimeout
  MaxAge <- MCMaxAge
  Nobody = Nobody
  NoMemory = NoMemory

SPECIFICATION Spec

INVARIANT
  ExclusiveWithinTimeout
