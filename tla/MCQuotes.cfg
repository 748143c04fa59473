SPECIFICATION Spec
CONSTANTS
  Null = Null
  Inputs <- MCInputs
INVARIANTS TiersAreCheapest OffsetSound PaidAddsUp AgesChecked
CHECK_DEADLOCK FALSE
