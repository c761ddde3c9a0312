SPECIFICATION FairSpec
CONSTANTS
  c1 = c1
  c2 = c2
  alice = alice
  bob = bob
  u = u
  k1 = k1
  g1 = g1
  x1 = x1
  x2 = x2
  None = None
  Clients <- TwoClients
  Users <- TwoUsers
  Uris <- OneUri
  Verifiers <- OneVerifier
  Grants <- OneGrant
  Exchanges <- TwoExchanges
  MaxFaults = 2
CHECK_DEADLOCK FALSE
PROPERTIES
  Answered
  ImplementsChain
INVARIANTS
  TypeOK
  OneLiveCredential
  BoundToAuthorization
  ToldIsRedeemable
  AccessKept
