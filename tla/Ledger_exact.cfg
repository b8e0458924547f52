SPECIFICATION Spec
CONSTANTS
  Sizes = {3}
  Base <- MCBase
  Noises = {3, 6, 7}
  NoiseUnit = 4
  GenesisSupply = 50
  GrowthUnit = 25
  Modulus = 1024
  MaxHeight = 2
INVARIANT ExactConservation
CHECK_DEADLOCK FALSE
