SPECIFICATION Spec
CONSTANTS
  r1 = r1
  r2 = r2
  r3 = r3
  here = here
  proxy = proxy
  port = port
  None = None
  Requests <- MCRequests
  Ips <- MCIps
  Ports <- MCPorts
  RemoteAddr <- Connections
  XForwardedFor <- Proxied
  Burst = 2
  Hour = 2
  Mixes <- Visits
  Conns = 1
  Slots = 1
INVARIANTS
  BurstPerIp
