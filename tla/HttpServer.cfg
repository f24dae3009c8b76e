SPECIFICATION Spec
CONSTANTS
  Clients = {c1, c2}
  Requests <- MCRequests
INVARIANTS
  ConstructionInOrder
  EndpointsReachable
\* Every client sends one request.
CHECK_DEADLOCK FALSE
