SPECIFICATION Spec
CONSTANTS
  NumBlocks = 3
  Accounts = {a1, a2}
  Amounts = {1, 2}
  Validators = {v1}
  UnstakeHeights = {2}
  Workers = {w1, w2}
  Nil = Nil
INVARIANTS
  TypeOK
  TableIsSnapshot
  RepeatsAgree
