SPECIFICATION Spec
CONSTANTS
  r1 = r1
  r2 = r2
  r3 = r3
  a = a
  b = b
  Requests = {r1, r2, r3}
  Instances = {a, b}
  Home <- MCHome
  Skew <- InStep
  Rate = 2
  Capacity = 3
  MaxTime = 2
  MaxRestarts = 0
INVARIANTS
  NoRace
