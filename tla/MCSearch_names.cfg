SPECIFICATION Spec
CONSTANTS
  rootSrv = rootSrv
  childSrv = childSrv
  otherSrv = otherSrv
  Lower <- MCLower
  Digit <- MCDigit
  Code <- MCCode
  Invalid = Invalid
  Nowhere = Nowhere
  NoReply = NoReply
  NoAttr = NoAttr
  NoRule = NoRule
  Partitions = {rootSrv, childSrv, otherSrv}
  Root = rootSrv
  Rdns <- MCRdns
  Base <- MCBase
  Configured = {rootSrv, childSrv}
  Static <- MCStatic
  Dns <- MCDns
  Stored <- MCStored
  Content <- MCContent
  Requests <- MCRequests
  GcRequests <- MCGcRequests
  Children = {childSrv}
  Whitelist = {"desc", "uac"}
  MaxHops = 3
  MaxChanges = 3
PROPERTY SearchFindsAll
CHECK_DEADLOCK FALSE
