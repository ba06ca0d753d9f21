SPECIFICATION TokensSpec
CONSTANTS
  Collector = {1, 2}
  MaxPair = 3
  MaxFault = 2
PROPERTIES
  RotatedIsKept
