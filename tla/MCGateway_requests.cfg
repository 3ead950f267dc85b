\* Three requests, two nodes, three purchases; or one request, with an
\* environment that does all that it may.
SPECIFICATION MCSpec
CONSTANTS
  Requests = {r1, r2, r3}
  DeviceIds = {1}
  SubIds = {1}
  Nodes = {n1, n2}
  NodeSubIds = {1, 2, 3}
  NoProtocols = {n2}
SYMMETRY RequestSymmetry
INVARIANTS
  CredentialsBacked
  SessionsOnLeases
  OneLeasePerRequest
PROPERTIES
  WasteOnlyFromFaults
  LeaseMirrorSpec
