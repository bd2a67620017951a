SPECIFICATION Spec
CONSTANTS
  lamp = lamp
  sensor = sensor
  name = name
  serial = serial
  yes = yes
  zero = zero
  large = large
  other = other
  signed = signed
  big = big
  Infos <- MCInfos
  Foreign <- MCForeign
  Before <- MCBefore
  Text = {name, serial}
  Bool = {yes}
  Small = {zero}
  Zero = zero
  Long = {large}
  Written <- MCWritten
  BlockSize = 5
  Blocks = 2
  ChunkSize = 5
  Chunks = 2
  WideSizes = {5, 10}
  PageSize = 3
  SizeMod = 10
  MaxWrites = 2
  MaxFlaws = 1
  NoImage = NoImage
  NoInfo = NoInfo
  Rejected = Rejected
INVARIANTS
  TypeOK
  AcceptedIsOneImage
  ReadBack
