SPECIFICATION InfoSpec
CONSTANTS
  lamp = lamp
  sensor = sensor
  None = None
  Tohs = {lamp, sensor}
  Files = {1, 2, 3}
  Yaml = {1, 3}
  Known = {"name"}
  Extra = {"colour"}
  Exes = {"led", "test"}
  Addresses = {69}
  Names = {"none", "led"}
  Units = {"glow", "blink"}
  Broken = Broken
  Missing = Missing
  NoObject = NoObject
  MaxEdits = 1
  MaxFaults = 1
  Chip <- MCChip
  Values <- MCValues
  Null <- NullValue
  Contents <- MCContents
  Installed <- MCInstalled
  VendorId <- MCVendor
  ProductId <- MCProduct
  Fields <- MCFields
  NullText <- Empty
  Sent <- MCSent
  Received <- MCReceived
  Sendable <- MCSendable
  NotReceived <- MCNotReceived
  Leaves <- MCLeaves
INVARIANTS
  TypeOK
  LastFileWins
  AllFilesOrNone
  DetectAgrees
PROPERTIES
  QuietDiskPublished
