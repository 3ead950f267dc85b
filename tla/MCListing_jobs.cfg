\* One node, one request, any failure until failures stop.
SPECIFICATION FairListingSpec
CONSTANTS
  Nodes = {n1}
  Limit = 2
  Faults = TRUE
  SyncRest = 2
  MaxChanges = 1
  Requests = {r1}
  DeviceIds = {1}
  SubIds = {1}
  NodeSubIds = {1}
  NoProtocols = {}
PROPERTIES
  ShunnedForEver
  ComesToRest
