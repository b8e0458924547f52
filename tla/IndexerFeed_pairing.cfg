SPECIFICATION Spec
CONSTANTS
  NumBlocks = 2
  Accounts = {a1}
  Amounts = {1}
  Validators = {v1}
  UnstakeHeights = {2}
  Workers = {w1}
  Nil = Nil
INVARIANTS
  QueryPairsStateWithParentBlock
