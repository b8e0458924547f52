SPECIFICATION FairSpec
CONSTANTS
  NumBlocks = 3
  Accounts = {a1}
  Amounts = {1}
  Validators = {v1}
  UnstakeHeights = {2}
  Workers = {w1}
  Nil = Nil
PROPERTIES
  EveryBlockIndexed
