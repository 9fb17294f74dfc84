\* Keys, clocks, restarts and the bridge's cache.
SPECIFICATION FairSpec
CONSTANTS
  bridgeKey = bridgeKey
  deviceKey = deviceKey
  request = request
  List = List
  Odd = Odd
  Keys = {bridgeKey, deviceKey}
  Session = Session
  Edge = {request}
  Bridge = Bridge
  CredOf <- DeviceCred
  Scopes <- MCScopes
  Malformed = {Odd}
  Create = Create
  Root = Root
  Kids = {"k1", "k2"}
  TTL = 6
  Margin = 3
  ExchangeTime = 1
  HandlerTime = 2
  SendTime = 1
  ClockSkew = 1
  Skew = 1
  Leads <- MCLeads
  MaxFaults = 2
INVARIANT TypeOK
PROPERTIES GrantInTime FreshOnArrival Recovers
CHECK_DEADLOCK FALSE
