SPECIFICATION FairUpSpec
CONSTANTS
  phone = phone
  Mac = mac
  Remote = {phone}
  Client = {mac, phone}
  None = None
  Keep = Keep
  PressIds <- MCPressIds
  Urls <- MCUrls
  Leaf <- MCLeaf
  Value <- MCValue
  Watched <- MCWatched
  FirstWrites <- MCFirstWrites
  Block <- MCBlock
  Presses = 1
  Addresses = 0
  PhoneWatches = {}
  Action = {"keydown", "blank"}
  Point = {}
  Flaky = {}
  MaxDrops = 0
  MaxTouches = 0
  MaxToggles = 0
  MaxRequests = 0
  SettingsLast = FALSE
PROPERTIES
  EveryCommandPerformed
CHECK_DEADLOCK FALSE
