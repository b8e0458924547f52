SPECIFICATION Spec
CONSTANTS
  Sizes = {1, 2, 3}
  Base <- MCBase
  Noises = {3, 6, 7}
  NoiseUnit = 4
  GenesisSupply = 50
  GrowthUnit = 25
  Modulus = 1024
  MaxHeight = 2
INVARIANTS
  TypeOK
  NoBalanceAboveSupply
  Conservation
  QuietHeightsArePriced
  InactiveAccountsUnmoved
CHECK_DEADLOCK FALSE
