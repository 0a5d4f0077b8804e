SPECIFICATION StorySpec
CONSTANTS
  phone = phone
  Mac = mac
  Remote = {phone}
  Client = {mac, phone}
  None = None
  Keep = Keep
  PressIds <- MCPressIds
  Urls <- MCUrls
  Leaf <- MCLeaf
  Value <- MCValue
  Watched <- MCWatched
  FirstWrites <- MCFirstWrites
  Block <- MCBlock
  Presses = 1
  Addresses = 2
  PhoneWatches = {"url"}
  Action = {"keyup", "keydown", "space", "blank", "volumeup", "volumedown"}
  Point = {"a"}
  Flaky = {mac}
  MaxDrops = 1
  MaxTouches = 1
  MaxToggles = 1
  MaxRequests = 2
  SettingsLast = TRUE
INVARIANTS
  DotFollows
  NoRequestLeft
PROPERTIES
  EventuallyQuiet
  EveryCommandPerformed
  LastAddressFetched
CHECK_DEADLOCK FALSE
