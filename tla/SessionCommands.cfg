SPECIFICATION TroubleSpec
CONSTANTS
  phone = phone
  Mac = mac
  Remote = {phone}
  Client = {mac, phone}
  None = None
  Keep = Keep
  PressIds <- MCPressIds
  Urls <- MCUrls
  Leaf <- MCLeaf
  Value <- MCValue
  Watched <- MCWatched
  FirstWrites <- MCFirstWrites
  Block <- MCBlock
  Presses = 2
  Addresses = 1
  PhoneWatches = {}
  Action = {"space", "blank"}
  Point = {}
  Flaky = {mac}
  MaxDrops = 1
  MaxTouches = 0
  MaxToggles = 0
  MaxRequests = 0
  SettingsLast = FALSE
INVARIANTS
  SessionTypeOK
  NoCommandLost
PROPERTIES
  NoCommandReturns
  CommandsDelivered
CHECK_DEADLOCK FALSE
