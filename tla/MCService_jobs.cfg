\* One device, two plan subscriptions, one request; the jobs run fairly.
SPECIFICATION FairServiceSpec
CONSTANTS
  DeviceIds = {1}
  CreatedAt <- CreatedInOrder
  SubIds = {1, 2}
  GrantLimit = 1
  EnrollLimit = 1
  Requests = {r1}
  Nodes = {n1}
  NodeSubIds = {1}
  NoProtocols = {}
PROPERTIES
  GatewaySpec
  BarredForEver
  ServedEventually
