\* Three failed logins, or three reset requests, on one account.
SPECIFICATION Spec
CONSTANTS
  Request = {r1, r2, r3}
  Process = {p1, p2}
  Key <- MCKey
  InitialRow <- MCInitialRow
  Workloads <- MCBursts
  Threads <- MCThreads
  Connections <- MCConnections
  MaxAttempts = 2
  Infinity = 2000000001
  NaN = NaN
  NoRow = NoRow
  Nobody = Nobody
  r1 = r1
  r2 = r2
  r3 = r3
  p1 = p1
  p2 = p2
  ada = ada
  dana = dana
  olga = olga
  carl = carl
  zoe = zoe
  north = north
  south = south
  o1 = o1
  o2 = o2
  hat = hat
INVARIANTS
  BurstsAreLimited
