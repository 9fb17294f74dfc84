\* What ADR 0012 says of the bridge's token.
SPECIFICATION Spec
CONSTANTS
  bridgeKey = bridgeKey
  deviceKey = deviceKey
  request = request
  List = List
  Odd = Odd
  Keys = {bridgeKey, deviceKey}
  Session = Session
  Edge = {request}
  Bridge = Bridge
  CredOf <- DeviceCred
  Scopes <- WideScopes
  Malformed = {Odd}
  Create = Create
  Root = Root
  Kids = {"k1", "k2"}
  TTL = 6
  Margin = 3
  ExchangeTime = 1
  HandlerTime = 2
  SendTime = 1
  ClockSkew = 1
  Skew = 1
  Leads <- MCLeads
  MaxFaults = 0
INVARIANT OnlyCreate
CHECK_DEADLOCK FALSE
