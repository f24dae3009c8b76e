SPECIFICATION Spec
CONSTANTS
  r1 = r1  r2 = r2  r3 = r3
  s1 = s1  s2 = s2  s3 = s3
  m1 = m1  m2 = m2  m3 = m3
  o1 = o1  o2 = o2
  west = west  east = east
  NoPayload = NoPayload
  NoOne = NoOne
  Requests <- MCRequests
  Payloads <- MCPayloads
  Known <- MCKnown
  Submaps <- MCSubmaps
  SubmapOf <- MCSubmapOf
  Limited <- MCLimited
  MaxEvals = 2
  MaxCrashes = 1
SYMMETRY Symmetry
INVARIANTS
  TypeOK
  OneContextPerSession
  EveryContextHasItsPlace
  InferenceRunsInItsSession
  OnlyOwnSessionMixes
PROPERTIES
  ImplementsSessionStore
